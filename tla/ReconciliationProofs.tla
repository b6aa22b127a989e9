------------------------ MODULE ReconciliationProofs ------------------------
(* Theorems about Reconciliation: a gap is punished once, nobody is accused  *)
(* without evidence, nothing closed is reopened.                             *)
EXTENDS Reconciliation, WellFoundedInduction, NaturalsInduction, TLAPS

(* ------------------------------------------------------------------ *)
(* Verdicts                                                            *)
(* ------------------------------------------------------------------ *)
VerdictRows == [kind : Kinds, trade : Trades \cup {None}, pos : Positions \cup {None}]

\* What each kind of verdict names.
Shaped(v) ==
    /\ v \in VerdictRows
    /\ v.kind \in {"mismatch", "matched", "false_declared", "uncovered"} => v.trade \in Trades
    /\ v.kind \in {"matched", "mismatch", "missing_declared"} => v.pos \in Positions
    /\ v.kind = "missing_declared" => v.trade = None

\* Only a candidate is paired.
LEMMA PairIsCandidate ==
    ASSUME NEW taken, NEW C PROVE Pair(taken, C) \subseteq taken \cup C
BY DEF Pair

LEMMA PairedIsCandidate ==
    ASSUME NEW T, NEW P PROVE Paired(T, P) \subseteq T \X P /\ Strict(T, P) \subseteq T \X P
<1>1. Candidates(T, P) \subseteq T \X P
  BY DEF Candidates
<1>2. Strict(T, P) \subseteq {} \cup (Candidates(T, P) \cap SameLot)
  BY PairIsCandidate DEF Strict
<1>3. Paired(T, P) \subseteq Strict(T, P) \cup (Candidates(T, P) \ SameLot)
  BY PairIsCandidate DEF Paired
<1> QED
  BY <1>1, <1>2, <1>3

\* A trade is called false only if it was closed and covered, as it was read.
LEMMA ConfrontedShape ==
    ASSUME NEW T \in SUBSET Trades, NEW C \in SUBSET Trades, NEW P \in SUBSET Positions,
           NEW v \in Confronted(T, C, P)
    PROVE  /\ Shaped(v)
           /\ v.kind = "false_declared" => v.trade \in C /\ Covered(At[v.trade], Times(P))
<1> DEFINE strict == Strict(T, P)
           paired == Paired(T, P)
           lone == {t \in C : \A m \in paired : m[1] # t}
           alone == {q \in P : \A m \in paired : m[2] # q}
<1>1. strict \subseteq T \X P /\ paired \subseteq T \X P
  BY PairedIsCandidate
<1> HIDE DEF strict, paired
<1>2. \/ \E m \in strict : v = Verdict("matched", m[1], m[2])
      \/ \E m \in paired \ strict : v = Verdict("mismatch", m[1], m[2])
      \/ \E p \in alone : v = Verdict("missing_declared", None, p)
      \/ \E t \in lone : v = Verdict(IF Covered(At[t], Times(P)) THEN "false_declared" ELSE "uncovered", t, None)
  BY DEF Confronted, strict, paired
<1>3. CASE \E m \in strict : v = Verdict("matched", m[1], m[2])
  BY <1>1, <1>3 DEF Verdict, Shaped, VerdictRows, Kinds
<1>4. CASE \E m \in paired \ strict : v = Verdict("mismatch", m[1], m[2])
  BY <1>1, <1>4 DEF Verdict, Shaped, VerdictRows, Kinds
<1>5. CASE \E p \in alone : v = Verdict("missing_declared", None, p)
  BY <1>5 DEF Verdict, Shaped, VerdictRows, Kinds
<1>6. CASE \E t \in lone : v = Verdict(IF Covered(At[t], Times(P)) THEN "false_declared" ELSE "uncovered", t, None)
  <2>1. PICK t \in lone : v = Verdict(IF Covered(At[t], Times(P)) THEN "false_declared" ELSE "uncovered", t, None)
    BY <1>6
  <2>2. CASE Covered(At[t], Times(P))
    BY <2>1, <2>2 DEF Verdict, Shaped, VerdictRows, Kinds
  <2>3. CASE ~Covered(At[t], Times(P))
    BY <2>1, <2>3 DEF Verdict, Shaped, VerdictRows, Kinds
  <2> QED
    BY <2>2, <2>3
<1> QED
  BY <1>2, <1>3, <1>4, <1>5, <1>6

LEMMA VerdictsShape ==
    ASSUME NEW T \in SUBSET Trades, NEW C \in SUBSET Trades, NEW P \in SUBSET Positions,
           NEW v \in Verdicts(T, C, P)
    PROVE  /\ Shaped(v)
           /\ v.kind = "false_declared" => v.trade \in C /\ Covered(At[v.trade], Times(P))
<1> DEFINE F == [x \in Cases |-> Confronted(x[1], x[2], x[3])]
<1>1. Table = F
  <2> HIDE DEF F
  <2>1. Table \in {F}
    BY Zenon DEF Table, F
  <2> QED
    BY <2>1
<1>2. <<T, C, P>> \in Cases
  BY DEF Cases
<1>3. Verdicts(T, C, P) = Confronted(T, C, P)
  BY <1>1, <1>2 DEF Verdicts
<1> QED
  BY <1>3, ConfrontedShape

(* ------------------------------------------------------------------ *)
(* Coverage and evidence                                               *)
(* ------------------------------------------------------------------ *)
\* The last of the times up to a given one.
LEMMA LastUpTo ==
    ASSUME NEW S \in SUBSET Nat, NEW time \in Nat, NEW a \in S, a <= time
    PROVE  \E c \in S : c <= time /\ \A d \in S : d <= time => d <= c
<1> DEFINE R == {n \in Nat : time - n \in S}
<1>1. time - a \in R
  OBVIOUS
<1>2. PICK n \in R : \A m \in R : ~(m < n)
  <2>1. R \subseteq Nat /\ R # {}
    BY <1>1
  <2> HIDE DEF R
  <2>2. PICK n \in R : \A m \in R : <<m, n>> \notin OpToRel(<, Nat)
    BY <2>1, NatLessThanWellFounded, WFMin, Zenon
  <2> QED
    BY <2>1, <2>2, Zenon DEF OpToRel
<1>3. time - n \in S /\ time - n <= time
  BY <1>2
<1>4. ASSUME NEW d \in S, d <= time PROVE d <= time - n
  <2>1. time - d \in R
    BY <1>4
  <2>2. ~(time - d < n)
    BY <1>2, <2>1
  <2> QED
    BY <1>2, <1>4, <2>2
<1> QED
  BY <1>3, <1>4

\* The windows of the code never reach beyond what the proofs speak of.
LEMMA CoveredIsEvidence ==
    ASSUME NEW S \in SUBSET Nat, NEW time \in Nat, Covered(time, S)
    PROVE  Evidence(time, S)
<1>1. PICK a \in S, b \in S : /\ a <= b /\ OneCluster(a, b, S)
                              /\ a - Margin <= time /\ time <= b + Margin
  BY DEF Covered
<1>2. CASE time < a
  BY <1>1, <1>2, GeometryAssumption DEF Evidence
<1>3. CASE b <= time
  BY <1>1, <1>3, GeometryAssumption DEF Evidence
<1>4. CASE a <= time /\ time < b
  <2>1. PICK c \in S : c <= time /\ \A d \in S : d <= time => d <= c
    BY <1>4, LastUpTo
  <2>2. a <= c /\ c < b
    BY <1>4, <2>1
  <2>3. PICK d \in S : d > c /\ d - c <= ClusterGap
    BY <1>1, <2>1, <2>2 DEF OneCluster
  <2>4. time <= d
    BY <2>1, <2>3
  <2> QED
    BY <2>1, <2>3, <2>4 DEF Evidence
<1> QED
  BY <1>1, <1>2, <1>3, <1>4

LEMMA EvidenceGrows ==
    ASSUME NEW time, NEW S, NEW R \in SUBSET S, Evidence(time, R)
    PROVE  Evidence(time, S)
BY DEF Evidence

LEMMA TimesTyped == ASSUME NEW P \in SUBSET Positions PROVE Times(P) \in SUBSET Nat
BY GeometryAssumption DEF Times

(* ------------------------------------------------------------------ *)
(* The inductive invariants                                            *)
(* ------------------------------------------------------------------ *)
\* Trades that were closed at some time: they are never open again.
Ended == {t \in Trades : trade[t].state \in {"closed", "deleted"}}

\* What a pass carries, told of the trades ended and the positions on record:
\* both only grow, so what was true when it was read stays true.
JournalOK(j, E) == j.declared \in SUBSET Trades /\ j.closed \in SUBSET E

Founded(v, E, X) ==
    v.kind = "false_declared" => v.trade \in E /\ Evidence(At[v.trade], Times(X))

WorkOK(w, E, X) ==
    /\ w \in [verdict : VerdictRows, rewrite : BOOLEAN, insert : BOOLEAN]
    /\ Shaped(w.verdict)
    /\ w.rewrite => w.verdict.trade \in Trades
    /\ w.insert => w.verdict.kind \in Accusations
    /\ Founded(w.verdict, E, X)

PassOK(p, E, X) ==
    /\ p.pc \in {"idle", "trades", "positions", "read", "writing"}
    /\ p.pc \in {"trades", "read"} => JournalOK(p.journal, E)
    /\ p.pc \in {"positions", "read"} => p.positions \in SUBSET X
    /\ p.pc = "writing" => \A w \in p.todo : WorkOK(w, E, X)

PassesOK == \A s \in Passes : PassOK(pass[s], Ended, extracted)

\* A penalty leaves its row behind, until the trade is deleted; and the
\* foreign key then lets no other row have the same key.
PenaltiesOK ==
    \A k \in Keys :
        /\ charged[k] <= 1
        /\ charged[k] > 0 => \/ k \in DOMAIN gaps
                             \/ k.trade # None /\ trade[k.trade].state = "deleted"

PassInv == TypeOK /\ PassesOK
PenaltyInv == PassInv /\ PenaltiesOK
AccusedInv == PassInv /\ AccusedOnEvidence

(* ------------------------------------------------------------------ *)
(* What the passes carry                                               *)
(* ------------------------------------------------------------------ *)
LEMMA WorkKept ==
    ASSUME NEW E \in SUBSET Trades, NEW F \in SUBSET Trades, E \subseteq F,
           NEW X \in SUBSET Positions, NEW Y \in SUBSET Positions, X \subseteq Y,
           NEW w, WorkOK(w, E, X)
    PROVE  WorkOK(w, F, Y)
<1>1. Times(X) \subseteq Times(Y)
  BY DEF Times
<1>2. Founded(w.verdict, F, Y)
  BY <1>1, EvidenceGrows DEF WorkOK, Founded
<1> QED
  BY <1>2 DEF WorkOK

LEMMA PassKept ==
    ASSUME NEW E \in SUBSET Trades, NEW F \in SUBSET Trades, E \subseteq F,
           NEW X \in SUBSET Positions, NEW Y \in SUBSET Positions, X \subseteq Y,
           NEW p, PassOK(p, E, X)
    PROVE  PassOK(p, F, Y)
BY WorkKept DEF PassOK, JournalOK

\* What the loop will do about a verdict on what was read.
LEMMA WriteOK ==
    ASSUME NEW E \in SUBSET Trades, NEW X \in SUBSET Positions,
           NEW T \in SUBSET Trades, NEW C \in SUBSET E, NEW P \in SUBSET X,
           NEW v \in Verdicts(T, C, P), NEW match, NEW known
    PROVE  WorkOK(Write(v, match, known), E, X)
<1> DEFINE w == Write(v, match, known)
<1>1. /\ Shaped(v)
      /\ v.kind = "false_declared" => v.trade \in C /\ Covered(At[v.trade], Times(P))
  BY VerdictsShape
<1>2. Founded(v, E, X)
  <2> SUFFICES ASSUME v.kind = "false_declared" PROVE v.trade \in E /\ Evidence(At[v.trade], Times(X))
    BY DEF Founded
  <2>1. At[v.trade] \in Nat /\ Times(P) \in SUBSET Nat /\ Times(P) \subseteq Times(X)
    BY <1>1, TimesTyped, GeometryAssumption DEF Times
  <2>2. Evidence(At[v.trade], Times(P))
    BY <1>1, <2>1, CoveredIsEvidence
  <2> QED
    BY <1>1, <2>1, <2>2, EvidenceGrows
<1>3. /\ w.verdict = v
      /\ w.rewrite \in BOOLEAN /\ w.insert \in BOOLEAN
      /\ w = [verdict |-> w.verdict, rewrite |-> w.rewrite, insert |-> w.insert]
  <2>1. Rewrites(v, match) \in BOOLEAN
    BY Zenon DEF Rewrites
  <2>2. (v.kind \in Accusations /\ KeyOf(v) \notin known) \in BOOLEAN
    OBVIOUS
  <2> QED
    BY <2>1, <2>2 DEF Write
<1>4. w.insert => v.kind \in Accusations
  BY DEF Write
<1>5. w.rewrite => v.trade \in Trades
  BY <1>1 DEF Write, Rewrites, Shaped
<1> HIDE DEF w
<1>6. w \in [verdict : VerdictRows, rewrite : BOOLEAN, insert : BOOLEAN]
  BY <1>1, <1>3 DEF Shaped
<1>7. WorkOK(w, E, X)
  BY <1>1, <1>2, <1>3, <1>4, <1>5, <1>6, Zenon DEF WorkOK
<1> QED
  BY <1>7 DEF w

LEMMA IdleOK == ASSUME NEW E, NEW X PROVE PassOK(Idle, E, X)
BY DEF PassOK, Idle

\* One pass replaced by another sound one, the tables going forward.
LEMMA PassReplaced ==
    ASSUME PassInv, TypeOK', Ended \subseteq Ended', extracted \subseteq extracted',
           NEW s \in Passes, NEW p, PassOK(p, Ended, extracted), pass' = [pass EXCEPT ![s] = p]
    PROVE  PassesOK'
<1> DEFINE E == Ended
           F == Ended'
           X == extracted
           Y == extracted'
<1>1. /\ E \in SUBSET Trades /\ F \in SUBSET Trades /\ E \subseteq F
      /\ X \in SUBSET Positions /\ Y \in SUBSET Positions /\ X \subseteq Y
  BY DEF PassInv, TypeOK, Ended
<1>2. /\ pass'[s] = p
      /\ \A q \in Passes \ {s} : pass'[q] = pass[q]
  BY DEF PassInv, TypeOK
<1>3. \A q \in Passes : PassOK(pass[q], E, X)
  BY DEF PassInv, PassesOK
<1>4. PassOK(p, E, X)
  OBVIOUS
<1> HIDE DEF E, F, X, Y
<1>5. \A q \in Passes : PassOK(pass'[q], F, Y)
  BY <1>1, <1>2, <1>3, <1>4, PassKept
<1> QED
  BY <1>5 DEF PassesOK, F, Y

LEMMA PassesKept ==
    ASSUME PassInv, TypeOK', Ended \subseteq Ended', extracted \subseteq extracted',
           UNCHANGED pass
    PROVE  PassesOK'
<1> DEFINE E == Ended
           F == Ended'
           X == extracted
           Y == extracted'
<1>1. /\ E \in SUBSET Trades /\ F \in SUBSET Trades /\ E \subseteq F
      /\ X \in SUBSET Positions /\ Y \in SUBSET Positions /\ X \subseteq Y
  BY DEF PassInv, TypeOK, Ended
<1>2. \A q \in Passes : PassOK(pass[q], E, X)
  BY DEF PassInv, PassesOK
<1> HIDE DEF E, F, X, Y
<1>3. \A q \in Passes : PassOK(pass[q], F, Y)
  BY <1>1, <1>2, PassKept
<1> QED
  BY <1>3 DEF PassesOK, F, Y

(* ------------------------------------------------------------------ *)
(* Type correctness                                                    *)
(* ------------------------------------------------------------------ *)
LEMMA RecordedGap ==
    ASSUME TypeOK, NEW k \in Keys, NEW g, g = [x \in DOMAIN gaps \cup {k} |-> IF x = k THEN "open" ELSE gaps[x]]
    PROVE  DOMAIN g \subseteq Keys /\ \A x \in DOMAIN g : g[x] \in Statuses
BY DEF TypeOK, Statuses

LEMMA UnlinkedKey ==
    ASSUME NEW k \in Keys, NEW t \in Trades
    PROVE  /\ Unlinked(k, t) \in Keys
           /\ k.trade # t => Unlinked(k, t) = k
           /\ k.trade = t => Unlinked(k, t).trade = None
BY DEF Keys, Unlinked

\* What a deletion makes of the gaps: no row of the trade is left, the rows of
\* the others are untouched.
LEMMA GapsAfterDelete ==
    ASSUME TypeOK, NEW t \in Trades, Delete(t), ~Collides(t)
    PROVE  /\ DOMAIN gaps' = {Unlinked(k, t) : k \in DOMAIN gaps}
           /\ \A k \in DOMAIN gaps : gaps'[Unlinked(k, t)] = gaps[k]
<1>1. gaps' = [u \in {Unlinked(k, t) : k \in DOMAIN gaps} |->
                 gaps[CHOOSE k \in DOMAIN gaps : Unlinked(k, t) = u]]
  BY DEF Delete
<1>2. ASSUME NEW k \in DOMAIN gaps PROVE gaps'[Unlinked(k, t)] = gaps[k]
  <2> DEFINE u == Unlinked(k, t)
             l == CHOOSE x \in DOMAIN gaps : Unlinked(x, t) = u
  <2>1. l \in DOMAIN gaps /\ Unlinked(l, t) = u
    OBVIOUS
  <2>2. l = k
    BY <2>1 DEF Collides
  <2>3. gaps'[u] = gaps[l]
    BY <1>1
  <2> QED
    BY <2>2, <2>3
<1> QED
  BY <1>1, <1>2

LEMMA WorkKey ==
    ASSUME NEW E, NEW X, NEW w, WorkOK(w, E, X), w.insert
    PROVE  KeyOf(w.verdict) \in Keys
BY DEF WorkOK, VerdictRows, KeyOf, Key, Keys

LEMMA TypeStep == PassInv /\ [Next]_vars => TypeOK'
<1> SUFFICES ASSUME PassInv, [Next]_vars PROVE TypeOK'
  OBVIOUS
<1>0. TypeOK
  BY DEF PassInv
<1> USE DEF TypeOK
<1>1. ASSUME NEW s \in Passes, ReadTrades(s) \/ ReadPositions(s) \/ ReadGaps(s) PROVE TypeOK'
  BY <1>0, <1>1 DEF ReadTrades, ReadPositions, ReadGaps, WithLeft, tables
<1>2. ASSUME NEW s \in Passes, Rewrite(s) PROVE TypeOK'
  <2>1. PICK w \in pass[s].todo :
          LET t == w.verdict.trade IN
          /\ w.rewrite /\ IsNext(s, w)
          /\ IF trade[t].state = "deleted"
             THEN pass' = [pass EXCEPT ![s] = Idle] /\ UNCHANGED trade
             ELSE /\ trade' = [trade EXCEPT ![t].match = MatchOf(w.verdict)]
                  /\ pass' = WithLeft(s, (pass[s].todo \ {w}) \cup {[w EXCEPT !.rewrite = FALSE]})
    BY <1>2 DEF Rewrite
  <2>2. MatchOf(w.verdict) \in Matches
    BY DEF MatchOf, Matches
  <2>3. trade' \in [Trades -> [state : TradeStates, match : Matches]]
    BY <1>0, <2>1, <2>2
  <2>4. DOMAIN pass' = Passes
    BY <1>0, <2>1 DEF WithLeft
  <2> QED
    BY <1>0, <1>2, <2>3, <2>4 DEF Rewrite
<1>3. ASSUME NEW s \in Passes, Judge(s) PROVE TypeOK'
  <2>1. PICK w \in pass[s].todo :
          /\ ~w.rewrite /\ IsNext(s, w)
          /\ IF w.insert THEN Insert(s, w)
             ELSE /\ gaps' = [k \in DOMAIN gaps |->
                                IF k \in Retracted(w.verdict) THEN "resolved" ELSE gaps[k]]
                  /\ pass' = WithLeft(s, pass[s].todo \ {w})
                  /\ UNCHANGED charged
    BY <1>3 DEF Judge
  <2>2. UNCHANGED <<trade, extracted, refused, incidents>>
    BY <1>3 DEF Judge
  <2>3. CASE ~w.insert
    BY <1>0, <2>1, <2>2, <2>3 DEF WithLeft, Statuses
  <2>4. CASE w.insert
    <3> DEFINE k == KeyOf(w.verdict)
    <3>1. k \in Keys
      BY <1>3, <2>1, <2>4, WorkKey DEF PassInv, PassesOK, PassOK, Judge
    <3> HIDE DEF k
    <3>2. \/ UNCHANGED <<gaps, charged>>
          \/ /\ gaps' = [x \in DOMAIN gaps \cup {k} |-> IF x = k THEN "open" ELSE gaps[x]]
             /\ charged' = [charged EXCEPT ![k] = @ + 1]
      BY <2>1, <2>4 DEF Insert, k
    <3>3. DOMAIN pass' = Passes
      BY <1>0, <2>1, <2>4 DEF Insert, WithLeft
    <3>4. DOMAIN gaps' \subseteq Keys /\ \A x \in DOMAIN gaps' : gaps'[x] \in Statuses
      BY <1>0, <3>1, <3>2, RecordedGap
    <3>5. charged' \in [Keys -> Nat]
      BY <1>0, <3>1, <3>2
    <3> QED
      BY <1>0, <2>2, <3>3, <3>4, <3>5
  <2> QED
    BY <2>3, <2>4
<1>4. ASSUME NEW s \in Passes, Abort(s) PROVE TypeOK'
  BY <1>0, <1>4, BoundAssumption DEF Abort, Incident, tables
<1>5. ASSUME NEW t \in Trades, Declare(t) \/ Close(t) PROVE TypeOK'
  BY <1>0, <1>5 DEF Declare, Close, TradeStates
<1>6. ASSUME NEW t \in Trades, Delete(t) PROVE TypeOK'
  <2>1. incidents' \in 0..MaxIncidents
    BY <1>0, <1>6, BoundAssumption DEF Delete, Incident
  <2>2. CASE Collides(t)
    BY <1>0, <1>6, <2>1, <2>2 DEF Delete
  <2>3. CASE ~Collides(t)
    <3>1. /\ DOMAIN gaps' = {Unlinked(k, t) : k \in DOMAIN gaps}
          /\ \A k \in DOMAIN gaps : gaps'[Unlinked(k, t)] = gaps[k]
      BY <1>0, <1>6, <2>3, GapsAfterDelete
    <3>2. DOMAIN gaps' \subseteq Keys /\ \A u \in DOMAIN gaps' : gaps'[u] \in Statuses
      BY <1>0, <3>1, UnlinkedKey
    <3> QED
      BY <1>0, <1>6, <2>1, <2>3, <3>2 DEF Delete, TradeStates
  <2> QED
    BY <2>2, <2>3
<1>7. ASSUME NEW p \in Positions, Extract(p) PROVE TypeOK'
  BY <1>0, <1>7 DEF Extract
<1>8. ASSUME NEW k \in DOMAIN gaps, Explain(k) \/ AdminResolve(k) PROVE TypeOK'
  BY <1>0, <1>8, BoundAssumption DEF Explain, AdminResolve, Incident, Explained, Statuses
<1>9. CASE UNCHANGED vars
  BY <1>0, <1>9 DEF vars, tables
<1> QED
  BY <1>1, <1>2, <1>3, <1>4, <1>5, <1>6, <1>7, <1>8, <1>9 DEF Next, Advance

(* ------------------------------------------------------------------ *)
(* What a pass carries stays true                                      *)
(* ------------------------------------------------------------------ *)
\* A trade once closed is never open again, a position on record stays.
LEMMA TablesGoForward ==
    ASSUME PassInv, [Next]_vars PROVE Ended \subseteq Ended' /\ extracted \subseteq extracted'
<1>0. TypeOK
  BY DEF PassInv
<1> USE <1>0 DEF TypeOK, Ended
<1>1. ASSUME NEW s \in Passes, ReadTrades(s) \/ ReadPositions(s) \/ ReadGaps(s) \/ Judge(s) \/ Abort(s)
      PROVE  UNCHANGED <<trade, extracted>>
  BY <1>1 DEF ReadTrades, ReadPositions, ReadGaps, Judge, Abort, tables
<1>2. ASSUME NEW s \in Passes, Rewrite(s)
      PROVE  Ended \subseteq Ended' /\ extracted \subseteq extracted'
  BY <1>2 DEF Rewrite
<1>3. ASSUME NEW t \in Trades, Declare(t) \/ Close(t) \/ Delete(t)
      PROVE  Ended \subseteq Ended' /\ extracted \subseteq extracted'
  BY <1>3 DEF Declare, Close, Delete
<1>4. ASSUME NEW p \in Positions, Extract(p)
      PROVE  Ended \subseteq Ended' /\ extracted \subseteq extracted'
  BY <1>4 DEF Extract
<1>5. ASSUME NEW k \in DOMAIN gaps, Explain(k) \/ AdminResolve(k)
      PROVE  UNCHANGED <<trade, extracted>>
  BY <1>5 DEF Explain, AdminResolve
<1>6. CASE UNCHANGED vars
  BY <1>6 DEF vars, tables
<1> QED
  BY <1>1, <1>2, <1>3, <1>4, <1>5, <1>6 DEF Next, Advance

Left(todo) == IF todo = {} THEN Idle ELSE [pc |-> "writing", todo |-> todo]

LEMMA LeftOK ==
    ASSUME NEW E, NEW X, NEW todo, \A w \in todo : WorkOK(w, E, X)
    PROVE  PassOK(Left(todo), E, X)
BY IdleOK DEF PassOK, Left

LEMMA JournalRead == ASSUME TypeOK PROVE JournalOK(Journal, Ended)
BY DEF TypeOK, JournalOK, Journal, Declared, Closed, Ended

LEMMA PassesStep == PassInv /\ [Next]_vars => PassInv'
<1> SUFFICES ASSUME PassInv, [Next]_vars PROVE PassInv'
  OBVIOUS
<1>1. TypeOK /\ TypeOK' /\ Ended \subseteq Ended' /\ extracted \subseteq extracted'
  BY TypeStep, TablesGoForward DEF PassInv
<1> DEFINE E == Ended
           X == extracted
           Good(s, p) == PassOK(p, E, X) /\ pass' = [pass EXCEPT ![s] = p]
<1>2. ASSUME NEW s \in Passes, NEW p, Good(s, p) PROVE PassesOK'
  BY <1>1, <1>2, PassReplaced
<1>3. ASSUME UNCHANGED pass PROVE PassesOK'
  BY <1>1, <1>3, PassesKept
<1>4. \A s \in Passes : PassOK(pass[s], E, X)
  BY DEF PassInv, PassesOK
<1>5. E \in SUBSET Trades /\ X \in SUBSET Positions
  BY <1>1 DEF Ended, TypeOK
<1>6. ASSUME NEW s \in Passes, ReadTrades(s) PROVE \E p : Good(s, p)
  <2>1. CASE pass' = [pass EXCEPT ![s] = [pc |-> "trades", journal |-> Journal]]
    BY <1>1, <2>1, JournalRead DEF PassOK
  <2>2. CASE /\ pass[s].pc = "positions"
             /\ pass' = [pass EXCEPT ![s] = [pc |-> "read", journal |-> Journal,
                                             positions |-> pass[s].positions]]
    <3>1. pass[s].positions \in SUBSET X
      BY <1>4, <2>2 DEF PassOK
    <3> QED
      BY <1>1, <2>2, <3>1, JournalRead DEF PassOK
  <2> QED
    BY <1>6, <2>1, <2>2 DEF ReadTrades
<1>7. ASSUME NEW s \in Passes, ReadPositions(s) PROVE \E p : Good(s, p)
  <2>1. CASE pass' = [pass EXCEPT ![s] = [pc |-> "positions", positions |-> extracted]]
    BY <2>1 DEF PassOK
  <2>2. CASE /\ pass[s].pc = "trades"
             /\ pass' = [pass EXCEPT ![s] = [pc |-> "read", journal |-> pass[s].journal,
                                             positions |-> extracted]]
    <3>1. JournalOK(pass[s].journal, E)
      BY <1>4, <2>2 DEF PassOK
    <3> QED
      BY <2>2, <3>1 DEF PassOK
  <2> QED
    BY <1>7, <2>1, <2>2 DEF ReadPositions
<1>8. ASSUME NEW s \in Passes, ReadGaps(s) PROVE \E p : Good(s, p)
  <2> DEFINE j == pass[s].journal
             P == pass[s].positions
             todo == {Write(v, j.match, DOMAIN gaps) : v \in Verdicts(j.declared, j.closed, P)}
  <2>1. JournalOK(j, E) /\ P \in SUBSET X
    BY <1>4, <1>8 DEF ReadGaps, PassOK
  <2>2. \A v \in Verdicts(j.declared, j.closed, P) : WorkOK(Write(v, j.match, DOMAIN gaps), E, X)
    BY <1>5, <2>1, WriteOK DEF JournalOK
  <2>3. pass' = [pass EXCEPT ![s] = Left(todo)]
    BY <1>8 DEF ReadGaps, WithLeft, Left
  <2>4. \A w \in todo : WorkOK(w, E, X)
    BY <2>2
  <2> HIDE DEF todo
  <2> QED
    BY <2>3, <2>4, LeftOK
<1>9. ASSUME NEW s \in Passes, pass[s].pc = "writing" PROVE \A w \in pass[s].todo : WorkOK(w, E, X)
  BY <1>4, <1>9 DEF PassOK
<1>10. ASSUME NEW s \in Passes, Rewrite(s) PROVE \E p : Good(s, p)
  <2>1. PICK w \in pass[s].todo :
          \/ pass' = [pass EXCEPT ![s] = Idle]
          \/ pass' = WithLeft(s, (pass[s].todo \ {w}) \cup {[w EXCEPT !.rewrite = FALSE]})
    BY <1>10 DEF Rewrite
  <2>2. CASE pass' = [pass EXCEPT ![s] = Idle]
    BY <2>2, IdleOK
  <2>3. CASE pass' = WithLeft(s, (pass[s].todo \ {w}) \cup {[w EXCEPT !.rewrite = FALSE]})
    <3> DEFINE x == [w EXCEPT !.rewrite = FALSE]
               todo == (pass[s].todo \ {w}) \cup {x}
    <3>1. WorkOK(w, E, X) /\ \A y \in pass[s].todo : WorkOK(y, E, X)
      BY <1>9, <1>10 DEF Rewrite
    <3>2. WorkOK(x, E, X)
      BY <3>1 DEF WorkOK
    <3> HIDE DEF x
    <3>3. \A y \in todo : WorkOK(y, E, X)
      BY <3>1, <3>2
    <3>4. pass' = [pass EXCEPT ![s] = Left(todo)]
      BY <2>3 DEF x, WithLeft, Left
    <3> HIDE DEF todo
    <3> QED
      BY <3>3, <3>4, LeftOK
  <2> QED
    BY <2>1, <2>2, <2>3
<1>11. ASSUME NEW s \in Passes, Judge(s) PROVE \E p : Good(s, p)
  <2>1. PICK w \in pass[s].todo : \/ pass' = [pass EXCEPT ![s] = Idle]
                                  \/ pass' = WithLeft(s, pass[s].todo \ {w})
    BY <1>11 DEF Judge, Insert
  <2>2. CASE pass' = [pass EXCEPT ![s] = Idle]
    BY <2>2, IdleOK
  <2>3. CASE pass' = WithLeft(s, pass[s].todo \ {w})
    <3> DEFINE todo == pass[s].todo \ {w}
    <3>1. \A y \in todo : WorkOK(y, E, X)
      BY <1>9, <1>11 DEF Judge
    <3>2. pass' = [pass EXCEPT ![s] = Left(todo)]
      BY <2>3 DEF WithLeft, Left
    <3> HIDE DEF todo
    <3> QED
      BY <3>1, <3>2, LeftOK
  <2> QED
    BY <2>1, <2>2, <2>3
<1>12. ASSUME NEW s \in Passes, Abort(s) PROVE \E p : Good(s, p)
  BY <1>12, IdleOK DEF Abort
<1>13. ASSUME \/ \E t \in Trades : Declare(t) \/ Close(t) \/ Delete(t)
              \/ \E p \in Positions : Extract(p)
              \/ \E k \in DOMAIN gaps : Explain(k) \/ AdminResolve(k)
              \/ UNCHANGED vars
       PROVE UNCHANGED pass
  BY <1>13 DEF Declare, Close, Delete, Extract, Explain, AdminResolve, vars
<1>14. PassesOK'
  <2> HIDE DEF Good
  <2>1. CASE \E s \in Passes : Advance(s) \/ Abort(s)
    BY <2>1, <1>2, <1>6, <1>7, <1>8, <1>10, <1>11, <1>12 DEF Advance
  <2> QED
    BY <2>1, <1>3, <1>13 DEF Next
<1> QED
  BY <1>1, <1>14 DEF PassInv

(* ------------------------------------------------------------------ *)
(* How the gaps change                                                 *)
(* ------------------------------------------------------------------ *)
Gone == {t \in Trades : trade[t].state = "deleted"}

\* What one step does to the gaps: nothing is lost and nobody is punished;
\* an accusation nobody has made is made, on a trade that exists; a trade
\* takes its rows with it.
Accuses ==
    \E s \in Passes : \E w \in pass[s].todo :
        LET k == KeyOf(w.verdict)
        IN /\ pass[s].pc = "writing" /\ w.insert
           /\ k \notin DOMAIN gaps /\ ~Orphan(w.verdict)
           /\ gaps' = [x \in DOMAIN gaps \cup {k} |-> IF x = k THEN "open" ELSE gaps[x]]
           /\ charged' = [charged EXCEPT ![k] = @ + 1]

GapStep ==
    \/ DOMAIN gaps' = DOMAIN gaps /\ UNCHANGED charged
    \/ Accuses /\ UNCHANGED <<trade, extracted>>
    \/ \E t \in Trades : Delete(t) /\ ~Collides(t) /\ UNCHANGED charged

LEMMA GapsMove == PassInv /\ [Next]_vars => GapStep
<1> SUFFICES ASSUME PassInv, [Next]_vars PROVE GapStep
  OBVIOUS
<1>1. ASSUME NEW s \in Passes, ReadTrades(s) \/ ReadPositions(s) \/ ReadGaps(s) \/ Rewrite(s) \/ Abort(s)
      PROVE  GapStep
  BY <1>1 DEF ReadTrades, ReadPositions, ReadGaps, Rewrite, Abort, tables, GapStep
<1>2. ASSUME NEW s \in Passes, Judge(s) PROVE GapStep
  <2>1. PICK w \in pass[s].todo :
          /\ ~w.rewrite /\ IsNext(s, w)
          /\ IF w.insert THEN Insert(s, w)
             ELSE /\ gaps' = [k \in DOMAIN gaps |->
                                IF k \in Retracted(w.verdict) THEN "resolved" ELSE gaps[k]]
                  /\ pass' = WithLeft(s, pass[s].todo \ {w})
                  /\ UNCHANGED charged
    BY <1>2 DEF Judge
  <2>2. CASE ~w.insert
    BY <2>1, <2>2 DEF GapStep
  <2>3. CASE w.insert
    <3> DEFINE k == KeyOf(w.verdict)
    <3>1. \/ UNCHANGED <<gaps, charged>>
          \/ /\ k \notin DOMAIN gaps /\ ~Orphan(w.verdict)
             /\ gaps' = [x \in DOMAIN gaps \cup {k} |-> IF x = k THEN "open" ELSE gaps[x]]
             /\ charged' = [charged EXCEPT ![k] = @ + 1]
      BY <2>1, <2>3 DEF Insert, Refuses
    <3>2. CASE UNCHANGED <<gaps, charged>>
      BY <3>2 DEF GapStep
    <3>3. CASE /\ k \notin DOMAIN gaps /\ ~Orphan(w.verdict)
               /\ gaps' = [x \in DOMAIN gaps \cup {k} |-> IF x = k THEN "open" ELSE gaps[x]]
               /\ charged' = [charged EXCEPT ![k] = @ + 1]
      <4>1. pass[s].pc = "writing" /\ UNCHANGED <<trade, extracted>>
        BY <1>2 DEF Judge
      <4>2. Accuses
        BY <2>3, <3>3, <4>1 DEF Accuses
      <4> QED
        BY <4>1, <4>2 DEF GapStep
    <3> QED
      BY <3>1, <3>2, <3>3
  <2> QED
    BY <2>2, <2>3
<1>3. ASSUME NEW t \in Trades, Declare(t) \/ Close(t) \/ Delete(t) PROVE GapStep
  BY <1>3 DEF Declare, Close, Delete, GapStep
<1>4. ASSUME NEW p \in Positions, Extract(p) PROVE GapStep
  BY <1>4 DEF Extract, GapStep
<1>5. ASSUME NEW k \in DOMAIN gaps, Explain(k) \/ AdminResolve(k) PROVE GapStep
  BY <1>5 DEF Explain, AdminResolve, GapStep
<1>6. CASE UNCHANGED vars
  BY <1>6 DEF vars, tables, GapStep
<1> QED
  BY <1>1, <1>2, <1>3, <1>4, <1>5, <1>6 DEF Next, Advance

LEMMA GoneStaysGone == PassInv /\ [Next]_vars => Gone \subseteq Gone'
<1> SUFFICES ASSUME PassInv, [Next]_vars PROVE Gone \subseteq Gone'
  OBVIOUS
<1> USE DEF PassInv, TypeOK, Gone
<1>1. ASSUME NEW s \in Passes,
             ReadTrades(s) \/ ReadPositions(s) \/ ReadGaps(s) \/ Rewrite(s) \/ Judge(s) \/ Abort(s)
      PROVE  Gone \subseteq Gone'
  BY <1>1 DEF ReadTrades, ReadPositions, ReadGaps, Rewrite, Judge, Abort, tables
<1>2. ASSUME NEW t \in Trades, Declare(t) \/ Close(t) \/ Delete(t) PROVE Gone \subseteq Gone'
  BY <1>2 DEF Declare, Close, Delete
<1>3. CASE \/ \E p \in Positions : Extract(p)
           \/ \E k \in DOMAIN gaps : Explain(k) \/ AdminResolve(k)
           \/ UNCHANGED vars
  BY <1>3 DEF Extract, Explain, AdminResolve, vars, tables
<1> QED
  BY <1>1, <1>2, <1>3 DEF Next, Advance

LEMMA ClosedMoves ==
    ASSUME PassInv, [Next]_vars, NEW t \in Trades, trade[t].state = "closed"
    PROVE  trade'[t].state = "closed" \/ (Delete(t) /\ ~Collides(t))
<1>0. TypeOK
  BY DEF PassInv
<1>1. ASSUME NEW s \in Passes,
             ReadTrades(s) \/ ReadPositions(s) \/ ReadGaps(s) \/ Judge(s) \/ Abort(s)
      PROVE  trade'[t].state = "closed"
  BY <1>0, <1>1 DEF ReadTrades, ReadPositions, ReadGaps, Judge, Abort, tables
<1>2. ASSUME NEW u \in Trades, Declare(u) \/ Close(u) PROVE trade'[t].state = "closed"
  BY <1>0, <1>2 DEF Declare, Close, TypeOK
<1>3. ASSUME NEW u \in Trades, Delete(u)
      PROVE  trade'[t].state = "closed" \/ (Delete(t) /\ ~Collides(t))
  <2>1. CASE u = t
    BY <1>0, <1>3, <2>1 DEF Delete
  <2>2. CASE u # t
    BY <1>0, <1>3, <2>2 DEF Delete, TypeOK
  <2> QED
    BY <2>1, <2>2
<1>4. CASE \/ \E p \in Positions : Extract(p)
           \/ \E k \in DOMAIN gaps : Explain(k) \/ AdminResolve(k)
           \/ UNCHANGED vars
  BY <1>4 DEF Extract, Explain, AdminResolve, vars, tables
<1>5. ASSUME NEW s \in Passes, Rewrite(s) PROVE trade'[t].state = "closed"
  <2>1. PICK w \in pass[s].todo :
          \/ UNCHANGED trade
          \/ trade' = [trade EXCEPT ![w.verdict.trade].match = MatchOf(w.verdict)]
    BY <1>5 DEF Rewrite
  <2> QED
    BY <1>0, <2>1 DEF TypeOK
<1> QED
  BY <1>1, <1>2, <1>3, <1>4, <1>5 DEF Next, Advance

(* ------------------------------------------------------------------ *)
(* Punished once                                                       *)
(* ------------------------------------------------------------------ *)
LEMMA PenaltiesStep == PenaltyInv /\ [Next]_vars => PenaltyInv'
<1> SUFFICES ASSUME PenaltyInv, [Next]_vars PROVE PenaltyInv'
  OBVIOUS
<1>1. PassInv /\ PassInv' /\ GapStep /\ Gone \subseteq Gone'
  BY PassesStep, GapsMove, GoneStaysGone DEF PenaltyInv
<1>2. TypeOK /\ TypeOK'
  BY <1>1 DEF PassInv
<1>3. ASSUME NEW k \in Keys, k.trade # None, trade[k.trade].state = "deleted"
      PROVE  trade'[k.trade].state = "deleted"
  BY <1>1, <1>3 DEF Gone, Keys
<1>4. CASE DOMAIN gaps' = DOMAIN gaps /\ UNCHANGED charged
  BY <1>1, <1>3, <1>4 DEF PenaltyInv, PenaltiesOK
<1>5. CASE Accuses
  <2>0. PICK s \in Passes : \E w \in pass[s].todo :
          /\ pass[s].pc = "writing" /\ w.insert
          /\ KeyOf(w.verdict) \notin DOMAIN gaps /\ ~Orphan(w.verdict)
          /\ gaps' = [x \in DOMAIN gaps \cup {KeyOf(w.verdict)} |->
                        IF x = KeyOf(w.verdict) THEN "open" ELSE gaps[x]]
          /\ charged' = [charged EXCEPT ![KeyOf(w.verdict)] = @ + 1]
    BY <1>5 DEF Accuses
  <2>1. PICK w \in pass[s].todo :
          /\ pass[s].pc = "writing" /\ w.insert
          /\ KeyOf(w.verdict) \notin DOMAIN gaps /\ ~Orphan(w.verdict)
          /\ gaps' = [x \in DOMAIN gaps \cup {KeyOf(w.verdict)} |->
                        IF x = KeyOf(w.verdict) THEN "open" ELSE gaps[x]]
          /\ charged' = [charged EXCEPT ![KeyOf(w.verdict)] = @ + 1]
    BY <2>0
  <2> DEFINE k == KeyOf(w.verdict)
  <2>2. k \in Keys
    BY <1>1, <2>1, WorkKey DEF PassInv, PassesOK, PassOK
  <2>3. charged[k] = 0
    <3>1. ~(k.trade # None /\ trade[k.trade].state = "deleted")
      BY <2>1 DEF Orphan, KeyOf, Key
    <3> HIDE DEF k
    <3>2. ~(charged[k] > 0)
      BY <2>1, <2>2, <3>1 DEF PenaltyInv, PenaltiesOK, k
    <3> QED
      BY <1>2, <2>2, <3>2 DEF TypeOK
  <2>4. /\ DOMAIN gaps' = DOMAIN gaps \cup {k}
        /\ charged' = [charged EXCEPT ![k] = 1]
    BY <2>1, <2>3
  <2> HIDE DEF k
  <2>5. ASSUME NEW l \in Keys
        PROVE  /\ charged'[l] <= 1
               /\ charged'[l] > 0 => \/ l \in DOMAIN gaps'
                                     \/ l.trade # None /\ trade'[l.trade].state = "deleted"
    <3>1. CASE l = k
      BY <1>2, <2>2, <2>4, <3>1 DEF TypeOK
    <3>2. CASE l # k
      BY <1>2, <1>3, <2>4, <3>2 DEF TypeOK, PenaltyInv, PenaltiesOK
    <3> QED
      BY <3>1, <3>2
  <2> QED
    BY <1>1, <2>5 DEF PenaltyInv, PenaltiesOK
<1>6. ASSUME NEW t \in Trades, Delete(t), ~Collides(t), UNCHANGED charged PROVE PenaltyInv'
  <2>1. DOMAIN gaps' = {Unlinked(k, t) : k \in DOMAIN gaps}
    BY <1>2, <1>6, GapsAfterDelete
  <2>2. trade'[t].state = "deleted"
    BY <1>2, <1>6 DEF Delete, TypeOK
  <2>3. ASSUME NEW k \in Keys, charged[k] > 0
        PROVE  \/ k \in DOMAIN gaps'
               \/ k.trade # None /\ trade'[k.trade].state = "deleted"
    <3>1. CASE k \in DOMAIN gaps /\ k.trade # t
      BY <2>1, <3>1, UnlinkedKey
    <3>2. CASE k.trade = t
      BY <2>2, <3>2, IdentityAssumption
    <3>3. CASE k.trade # None /\ trade[k.trade].state = "deleted"
      BY <1>3, <3>3
    <3> QED
      BY <2>3, <3>1, <3>2, <3>3 DEF PenaltyInv, PenaltiesOK
  <2> QED
    BY <1>1, <1>6, <2>3 DEF PenaltyInv, PenaltiesOK
<1> QED
  BY <1>1, <1>4, <1>5, <1>6 DEF GapStep

(* ------------------------------------------------------------------ *)
(* Accused on evidence                                                 *)
(* ------------------------------------------------------------------ *)
LEMMA AccusedStep == AccusedInv /\ [Next]_vars => AccusedInv'
<1> SUFFICES ASSUME AccusedInv, [Next]_vars PROVE AccusedInv'
  OBVIOUS
<1>1. PassInv /\ PassInv' /\ GapStep /\ extracted \subseteq extracted'
  BY PassesStep, GapsMove, TablesGoForward DEF AccusedInv
<1>2. TypeOK /\ TypeOK'
  BY <1>1 DEF PassInv
<1> DEFINE Lie(k) == k.type = "false_declared" /\ k.trade # None
<1>3. ASSUME NEW time, Evidence(time, Times(extracted)) PROVE Evidence(time, Times(extracted'))
  <2>1. Times(extracted) \subseteq Times(extracted')
    BY <1>1 DEF Times
  <2> QED
    BY <1>3, <2>1, EvidenceGrows
\* A row that was there and whose trade is not deleted.
<1>4. ASSUME NEW k \in DOMAIN gaps, Lie(k), ~(Delete(k.trade) /\ ~Collides(k.trade))
      PROVE  trade'[k.trade].state = "closed" /\ Evidence(At[k.trade], Times(extracted'))
  <2>1. k.trade \in Trades
    BY <1>2, <1>4 DEF TypeOK, Keys
  <2>2. trade[k.trade].state = "closed" /\ Evidence(At[k.trade], Times(extracted))
    BY <1>4 DEF AccusedInv, AccusedOnEvidence
  <2> QED
    BY <1>1, <1>3, <1>4, <2>1, <2>2, ClosedMoves
<1>5. ASSUME NEW t \in Trades, Delete(t), ~Collides(t), NEW k \in DOMAIN gaps', Lie(k)
      PROVE  k \in DOMAIN gaps /\ k.trade # t
  <2>1. PICK l \in DOMAIN gaps : k = Unlinked(l, t)
    BY <1>2, <1>5, GapsAfterDelete
  <2>2. l \in Keys
    BY <1>2 DEF TypeOK
  <2>3. l.trade # t
    BY <1>5, <2>1, <2>2, UnlinkedKey
  <2> QED
    BY <2>1, <2>2, <2>3, UnlinkedKey
<1>6. ASSUME NEW t \in Trades, NEW u \in Trades, Delete(t), ~Collides(t), Delete(u), ~Collides(u)
      PROVE  t = u
  BY <1>2, <1>6 DEF Delete, TypeOK, Declared
<1>7. ASSUME NEW k \in DOMAIN gaps', Lie(k)
      PROVE  trade'[k.trade].state = "closed" /\ Evidence(At[k.trade], Times(extracted'))
  <2>0. k.trade \in Trades
    BY <1>2, <1>7 DEF TypeOK, Keys
  <2>1. CASE \E t \in Trades : Delete(t) /\ ~Collides(t)
    <3>1. PICK t \in Trades : Delete(t) /\ ~Collides(t)
      BY <2>1
    <3>2. k \in DOMAIN gaps /\ k.trade # t
      BY <1>5, <1>7, <3>1
    <3>3. ~(Delete(k.trade) /\ ~Collides(k.trade))
      BY <1>6, <2>0, <3>1, <3>2
    <3> QED
      BY <1>4, <1>7, <3>2, <3>3
  <2>2. CASE ~(\E t \in Trades : Delete(t) /\ ~Collides(t)) /\ k \in DOMAIN gaps
    BY <1>4, <1>7, <2>0, <2>2
  <2>3. CASE Accuses /\ UNCHANGED <<trade, extracted>> /\ k \notin DOMAIN gaps
    <3>0. PICK s \in Passes : \E w \in pass[s].todo :
            /\ pass[s].pc = "writing" /\ w.insert /\ ~Orphan(w.verdict)
            /\ k = KeyOf(w.verdict)
      BY <2>3 DEF Accuses
    <3>1. PICK w \in pass[s].todo :
            /\ pass[s].pc = "writing" /\ w.insert /\ ~Orphan(w.verdict)
            /\ k = KeyOf(w.verdict)
      BY <3>0
    <3>2. WorkOK(w, Ended, extracted)
      BY <1>1, <3>1 DEF PassInv, PassesOK, PassOK
    <3>3. w.verdict.kind = "false_declared" /\ w.verdict.trade = k.trade
      BY <1>7, <3>1 DEF KeyOf, Key
    <3>4. k.trade \in Ended /\ Evidence(At[k.trade], Times(extracted))
      BY <3>2, <3>3 DEF WorkOK, Founded
    <3>5. trade[k.trade].state # "deleted"
      BY <1>7, <3>1, <3>3 DEF Orphan
    <3> QED
      BY <2>3, <3>4, <3>5, <1>3 DEF Ended
  <2> QED
    BY <1>1, <1>7, <2>1, <2>2, <2>3 DEF GapStep
<1> QED
  BY <1>1, <1>7 DEF AccusedInv, AccusedOnEvidence

(* ------------------------------------------------------------------ *)
(* Closed is closed                                                    *)
(* ------------------------------------------------------------------ *)
LEMMA ResolvedStep ==
    PassInv /\ [Next]_vars =>
        \A k \in DOMAIN gaps \cap DOMAIN gaps' : gaps[k] = "resolved" => gaps'[k] = "resolved"
<1> SUFFICES ASSUME PassInv, [Next]_vars,
                    NEW k \in DOMAIN gaps, k \in DOMAIN gaps', gaps[k] = "resolved"
             PROVE  gaps'[k] = "resolved"
  OBVIOUS
<1>0. TypeOK
  BY DEF PassInv
<1>1. ASSUME NEW s \in Passes,
             ReadTrades(s) \/ ReadPositions(s) \/ ReadGaps(s) \/ Rewrite(s) \/ Abort(s)
      PROVE  gaps'[k] = "resolved"
  BY <1>1 DEF ReadTrades, ReadPositions, ReadGaps, Rewrite, Abort, tables
<1>2. ASSUME NEW s \in Passes, Judge(s) PROVE gaps'[k] = "resolved"
  <2>1. PICK w \in pass[s].todo :
          /\ ~w.rewrite /\ IsNext(s, w)
          /\ IF w.insert THEN Insert(s, w)
             ELSE /\ gaps' = [l \in DOMAIN gaps |->
                                IF l \in Retracted(w.verdict) THEN "resolved" ELSE gaps[l]]
                  /\ pass' = WithLeft(s, pass[s].todo \ {w})
                  /\ UNCHANGED charged
    BY <1>2 DEF Judge
  <2> QED
    BY <2>1 DEF Insert, Refuses
<1>3. ASSUME NEW t \in Trades, Declare(t) \/ Close(t) PROVE gaps'[k] = "resolved"
  BY <1>3 DEF Declare, Close
<1>4. ASSUME NEW t \in Trades, Delete(t) PROVE gaps'[k] = "resolved"
  <2>1. CASE Collides(t)
    BY <1>4, <2>1 DEF Delete
  <2>2. CASE ~Collides(t)
    <3>1. PICK l \in DOMAIN gaps : k = Unlinked(l, t)
      BY <1>0, <1>4, <2>2, GapsAfterDelete
    <3>2. gaps'[k] = gaps[l]
      BY <1>0, <1>4, <2>2, <3>1, GapsAfterDelete
    \* k was there: the row moved onto it would have met it.
    <3>3. Unlinked(k, t) = k
      BY <1>0, <3>1, UnlinkedKey, IdentityAssumption DEF TypeOK, Unlinked
    <3>4. l = k
      BY <2>2, <3>1, <3>3 DEF Collides
    <3> QED
      BY <3>2, <3>4
  <2> QED
    BY <2>1, <2>2
<1>5. ASSUME NEW p \in Positions, Extract(p) PROVE gaps'[k] = "resolved"
  BY <1>5 DEF Extract
<1>6. ASSUME NEW l \in DOMAIN gaps, Explain(l) \/ AdminResolve(l) PROVE gaps'[k] = "resolved"
  BY <1>6 DEF Explain, AdminResolve, Explained
<1>7. CASE UNCHANGED vars
  BY <1>7 DEF vars, tables
<1> QED
  BY <1>1, <1>2, <1>3, <1>4, <1>5, <1>6, <1>7 DEF Next, Advance

(* ------------------------------------------------------------------ *)
(* The theorems                                                        *)
(* ------------------------------------------------------------------ *)
LEMMA InitOK == Init => PassInv /\ PenaltyInv /\ AccusedInv
<1> SUFFICES ASSUME Init PROVE PassInv /\ PenaltyInv /\ AccusedInv
  OBVIOUS
<1>1. TypeOK
  BY IdentityAssumption, BoundAssumption DEF Init, TypeOK, TradeStates, Matches
<1>2. PassesOK
  BY IdleOK DEF Init, PassesOK
<1>3. PenaltiesOK /\ AccusedOnEvidence
  BY DEF Init, PenaltiesOK, AccusedOnEvidence
<1> QED
  BY <1>1, <1>2, <1>3 DEF PassInv, PenaltyInv, AccusedInv

\* The tables hold what their columns may hold, whatever the passes, the
\* member, the batch and the admin do in between.
THEOREM TypeCorrect == Spec => []TypeOK
<1>1. Init => PassInv
  BY InitOK
<1>2. PassInv => TypeOK
  BY DEF PassInv
<1> QED
  BY <1>1, <1>2, PassesStep, PTL DEF Spec

\* No gap is punished twice (createIfNew, its unique index and the foreign
\* key that refuses a deleted trade).
THEOREM PunishedOnce == Spec => []ChargedOnce
<1>1. Init => PenaltyInv
  BY InitOK
<1>2. PenaltyInv => ChargedOnce
  BY DEF PenaltyInv, PenaltiesOK, ChargedOnce
<1> QED
  BY <1>1, <1>2, PenaltiesStep, PTL DEF Spec

\* Nobody is called a liar without evidence, also by a pass whose reads are
\* stale (the coverage windows and the OPEN-trade rule of reconcile.ts).
THEOREM NobodyAccusedBlindly == Spec => []AccusedOnEvidence
<1>1. Init => AccusedInv
  BY InitOK
<1>2. AccusedInv => AccusedOnEvidence
  BY DEF AccusedInv
<1> QED
  BY <1>1, <1>2, AccusedStep, PTL DEF Spec

\* What reality or the admin has closed is not reopened
\* (submitDiscrepancyReason's predicate).
THEOREM ClosedForGood == Spec => ResolvedStaysResolved
<1>1. Init => PassInv
  BY InitOK
<1>2. PassInv /\ [Next]_vars =>
        [\A k \in DOMAIN gaps \cap DOMAIN gaps' :
            gaps[k] = "resolved" => gaps'[k] = "resolved"]_vars
  BY ResolvedStep
<1> QED
  BY <1>1, <1>2, PassesStep, PTL DEF Spec, ResolvedStaysResolved

================================================================================

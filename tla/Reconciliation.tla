--------------------------- MODULE Reconciliation ---------------------------
(* The daily confrontation of one member's declared trades with the        *)
(* positions read from the member's MT5 screens (lib/verification/         *)
(* reconcile.ts), run by the verification-scan cron and again, at any      *)
(* moment, behind a batch that has just persisted a proof.  A pass reads   *)
(* the trades, the positions and the gaps already on record in three       *)
(* queries, decides in memory, then writes verdict by verdict; meanwhile   *)
(* the member declares, closes, deletes and explains, an admin closes      *)
(* gaps, and another pass does the same.                                   *)
(*                                                                         *)
(* A gap row is named by the key its partial unique index is on: type,     *)
(* declared trade or None, extracted position or None.  Deleting a trade   *)
(* sets the column to NULL, which MOVES the row to another key.            *)
EXTENDS Integers, FiniteSets, SequencesExt

CONSTANTS
    Trades,        \* the trades the member may declare
    Positions,     \* the positions a proof may bring
    Early,         \* positions of proofs read before the behaviour starts
    Passes,        \* concurrent runs of reconcileOneMember
    Daily,         \* the one of them the cron starts
    At,            \* enteredAt of a trade, openTime of a position
    Instrument,    \* symbol and side
    SameLot,       \* the pairs whose sizes agree within 15 %
    Tolerance,     \* MATCH_TIME_TOLERANCE_MS
    Margin,        \* COVERAGE_MARGIN_MS
    ClusterGap,    \* COVERAGE_CLUSTER_GAP_MS
    MaxIncidents,  \* deletions, motives, closures by an admin and passes cut
                   \* off by an error or a crash, together (bound)
    None           \* NULL

ASSUME GeometryAssumption ==
    /\ At \in [Trades \cup Positions -> Nat]
    /\ DOMAIN Instrument = Trades \cup Positions
    /\ SameLot \subseteq Trades \X Positions
    /\ Tolerance \in Nat /\ Margin \in Nat /\ ClusterGap \in Nat
ASSUME IdentityAssumption ==
    /\ Trades \cap Positions = {}
    /\ None \notin Trades \cup Positions
    /\ Early \subseteq Positions
    /\ Daily \in Passes
ASSUME BoundAssumption == MaxIncidents \in Nat

VARIABLES
    trade,      \* journal: [state, match] of each trade
    extracted,  \* positions on record
    gaps,       \* discrepancies: key -> status
    charged,    \* history: penalties written for each accusation
    pass,       \* each pass: what it has read and has still to write
    refused,    \* history: trades whose deletion the database refused
    incidents

tables == <<trade, extracted, gaps, charged>>
vars == <<tables, pass, refused, incidents>>

(* ------------------------------------------------------------------ *)
(* Rows and keys                                                       *)
(* ------------------------------------------------------------------ *)
TradeStates == {"none", "open", "closed", "deleted"}
Matches == {"null", "matched", "mismatch", "unmatched"}
Statuses == {"open", "acknowledged", "resolved"}
Kinds == {"matched", "mismatch", "missing_declared", "false_declared", "uncovered"}
Accusations == {"mismatch", "missing_declared", "false_declared"}

Keys == [type : Accusations, trade : Trades \cup {None}, pos : Positions \cup {None}]
Key(type, t, p) == [type |-> type, trade |-> t, pos |-> p]

Declared == {t \in Trades : trade[t].state \in {"open", "closed"}}
Closed == {t \in Trades : trade[t].state = "closed"}

Open(k) == k \in DOMAIN gaps /\ gaps[k] # "resolved"

(* ------------------------------------------------------------------ *)
(* reconcileMember: the verdicts on a set of declared trades, those of *)
(* them that are closed, and a set of positions                        *)
(* ------------------------------------------------------------------ *)
Distance(t, p) == IF At[t] <= At[p] THEN At[p] - At[t] ELSE At[t] - At[p]

Candidates(T, P) ==
    {c \in T \X P : /\ Instrument[c[1]] = Instrument[c[2]]
                    /\ Distance(c[1], c[2]) <= Tolerance}

ClosestFirst(C) ==
    SetToSortSeq(C, LAMBDA a, b : Distance(a[1], a[2]) < Distance(b[1], b[2]))

Clash(m, c) == m[1] = c[1] \/ m[2] = c[2]

\* One greedy pass: a candidate is taken when, at its turn, neither side is
\* taken yet.
Pair(taken, C) ==
    LET seq == ClosestFirst(C)
        wins[n \in 1..Len(seq)] ==
            /\ \A m \in taken : ~Clash(m, seq[n])
            /\ \A i \in 1..(n - 1) : wins[i] => ~Clash(seq[i], seq[n])
    IN taken \cup {c \in C : \E n \in 1..Len(seq) : seq[n] = c /\ wins[n]}

Strict(T, P) == Pair({}, Candidates(T, P) \cap SameLot)
Paired(T, P) == Pair(Strict(T, P), Candidates(T, P) \ SameLot)

\* coverageWindows: from a to b no gap between two consecutive times of S
\* exceeds ClusterGap.
OneCluster(a, b, S) ==
    \A c \in S : a <= c /\ c < b => \E d \in S : d > c /\ d - c <= ClusterGap

\* Mutant: the margin counted twice.
CoveredTooWide(time, S) ==
    \E a, b \in S : /\ a <= b /\ OneCluster(a, b, S)
                    /\ a - 2 * Margin <= time /\ time <= b + 2 * Margin

Covered(time, S) ==
    \E a, b \in S : /\ a <= b /\ OneCluster(a, b, S)
                    /\ a - Margin <= time /\ time <= b + Margin

Times(P) == {At[p] : p \in P}

Verdict(kind, t, p) == [kind |-> kind, trade |-> t, pos |-> p]

Confronted(T, C, P) ==
    LET strict == Strict(T, P)
        paired == Paired(T, P)
        lone == {t \in C : \A m \in paired : m[1] # t}
    IN {Verdict("matched", m[1], m[2]) : m \in strict}
       \cup {Verdict("mismatch", m[1], m[2]) : m \in paired \ strict}
       \cup {Verdict("missing_declared", None, p) : p \in {q \in P : \A m \in paired : m[2] # q}}
       \cup {Verdict(IF Covered(At[t], Times(P)) THEN "false_declared" ELSE "uncovered", t, None) :
               t \in lone}

\* The same, in a table of all cases. (The comparison picks the one function
\* of the set; it makes TLC tabulate it once.)
Cases == (SUBSET Trades) \X (SUBSET Trades) \X (SUBSET Positions)

Table == CHOOSE f \in {[x \in Cases |-> Confronted(x[1], x[2], x[3])]} : f = f

Verdicts(T, C, P) == Table[<<T, C, P>>]

\* The order in which the loop meets them: the kinds in this order, and of
\* one kind, whose verdicts concern distinct rows, the earliest first.
Rank(v) ==
    CASE v.kind = "matched" -> 1
      [] v.kind = "mismatch" -> 2
      [] v.kind = "missing_declared" -> 3
      [] OTHER -> 4

When(v) == IF v.trade = None THEN At[v.pos] ELSE At[v.trade]

Precedes(v, w) == Rank(v) < Rank(w) \/ (Rank(v) = Rank(w) /\ When(v) <= When(w))

\* The key an accusing verdict is recorded under.
KeyOf(v) == Key(v.kind, v.trade, v.pos)

\* Mutant: a match forgets the position's own accusation.
RetractedTradeOnly(v) ==
    IF v.kind \in {"matched", "uncovered"}
    THEN {Key("false_declared", v.trade, None)}
           \cup {Key("mismatch", v.trade, p) : p \in Positions \cup {None}}
    ELSE {}

\* The accusations a verdict takes back.
Retracted(v) ==
    CASE v.kind = "matched" ->
           {Key("false_declared", v.trade, None), Key("missing_declared", None, v.pos)}
             \cup {Key("mismatch", v.trade, p) : p \in Positions \cup {None}}
      [] v.kind = "uncovered" ->
           {Key("false_declared", v.trade, None)}
             \cup {Key("mismatch", v.trade, p) : p \in Positions \cup {None}}
      [] OTHER -> {}

\* The verdicts that rewrite the trade first; two kinds skip the write when
\* the trade, as it was read, already carries it.
Rewrites(v, match) ==
    \/ v.kind \in {"false_declared", "uncovered"}
    \/ v.kind \in {"matched", "mismatch"} /\ match[v.trade] # v.kind

MatchOf(v) == IF v.kind \in {"matched", "mismatch"} THEN v.kind ELSE "unmatched"

Incident == incidents < MaxIncidents /\ incidents' = incidents + 1

(* ------------------------------------------------------------------ *)
(* One pass of reconcileOneMember                                      *)
(* ------------------------------------------------------------------ *)
Idle == [pc |-> "idle"]

Journal == [declared |-> Declared, closed |-> Closed,
            match |-> [t \in Declared |-> trade[t].match]]

\* A member without any position is not scanned.
Starts(s) == pass[s].pc = "idle" /\ extracted # {}

\* The two queries of Promise.all, in either order.
ReadTrades(s) ==
    /\ \/ /\ Starts(s)
          /\ pass' = [pass EXCEPT ![s] = [pc |-> "trades", journal |-> Journal]]
       \/ /\ pass[s].pc = "positions"
          /\ pass' = [pass EXCEPT ![s] = [pc |-> "read", journal |-> Journal,
                                          positions |-> pass[s].positions]]
    /\ UNCHANGED <<tables, refused, incidents>>

ReadPositions(s) ==
    /\ \/ /\ Starts(s)
          /\ pass' = [pass EXCEPT ![s] = [pc |-> "positions", positions |-> extracted]]
       \/ /\ pass[s].pc = "trades"
          /\ pass' = [pass EXCEPT ![s] = [pc |-> "read", journal |-> pass[s].journal,
                                          positions |-> extracted]]
    /\ UNCHANGED <<tables, refused, incidents>>

\* What the loop will do for a verdict is settled by the trades and the gaps
\* as they were read: whether it rewrites the trade, whether it inserts.
Write(v, match, known) ==
    [verdict |-> v, rewrite |-> Rewrites(v, match),
     insert |-> v.kind \in Accusations /\ KeyOf(v) \notin known]

WithLeft(s, todo) ==
    [pass EXCEPT ![s] = IF todo = {} THEN Idle ELSE [pc |-> "writing", todo |-> todo]]

\* The gaps on record are read, whatever their status.
ReadGaps(s) ==
    /\ pass[s].pc = "read"
    /\ LET seen == pass[s].journal
       IN pass' = WithLeft(s, {Write(v, seen.match, DOMAIN gaps) :
                               v \in Verdicts(seen.declared, seen.closed, pass[s].positions)})
    /\ UNCHANGED <<tables, refused, incidents>>

IsNext(s, w) == \A x \in pass[s].todo : Precedes(w.verdict, x.verdict)

\* trade.update: on a trade deleted meanwhile it throws (P2025), and the
\* rest of the member's verdicts wait for the next pass.
Rewrite(s) ==
    /\ pass[s].pc = "writing"
    /\ \E w \in pass[s].todo : LET t == w.verdict.trade IN
          /\ w.rewrite /\ IsNext(s, w)
          /\ IF trade[t].state = "deleted"
             THEN pass' = [pass EXCEPT ![s] = Idle] /\ UNCHANGED trade
             ELSE /\ trade' = [trade EXCEPT ![t].match = MatchOf(w.verdict)]
                  /\ pass' = WithLeft(s, (pass[s].todo \ {w}) \cup {[w EXCEPT !.rewrite = FALSE]})
    /\ UNCHANGED <<extracted, gaps, charged, refused, incidents>>

\* Mutant: no unique index.
RefusesNothing(k) == FALSE

\* The unique index refuses a second row of one key (P2002, folded into
\* nothing); a trade deleted since breaks the foreign key, which throws.
Refuses(k) == k \in DOMAIN gaps

Orphan(v) == v.trade # None /\ trade[v.trade].state = "deleted"

\* The accusation and its penalty, in one transaction.
Insert(s, w) ==
    LET k == KeyOf(w.verdict)
    IN CASE Refuses(k) -> pass' = WithLeft(s, pass[s].todo \ {w}) /\ UNCHANGED <<gaps, charged>>
         [] ~Refuses(k) /\ Orphan(w.verdict) ->
              pass' = [pass EXCEPT ![s] = Idle] /\ UNCHANGED <<gaps, charged>>
         [] OTHER -> /\ gaps' = [x \in DOMAIN gaps \cup {k} |->
                                   IF x = k THEN "open" ELSE gaps[x]]
                     /\ charged' = [charged EXCEPT ![k] = @ + 1]
                     /\ pass' = WithLeft(s, pass[s].todo \ {w})

\* What follows the trade's update: the accusation, a retraction, nothing.
Judge(s) ==
    /\ pass[s].pc = "writing"
    /\ \E w \in pass[s].todo :
          /\ ~w.rewrite /\ IsNext(s, w)
          /\ IF w.insert THEN Insert(s, w)
             ELSE /\ gaps' = [k \in DOMAIN gaps |->
                                IF k \in Retracted(w.verdict) THEN "resolved" ELSE gaps[k]]
                  /\ pass' = WithLeft(s, pass[s].todo \ {w})
                  /\ UNCHANGED charged
    /\ UNCHANGED <<trade, extracted, refused, incidents>>

\* A database error, a crash, a restart: what is written stays written.
Abort(s) ==
    /\ pass[s].pc # "idle"
    /\ Incident
    /\ pass' = [pass EXCEPT ![s] = Idle]
    /\ UNCHANGED <<tables, refused>>

(* ------------------------------------------------------------------ *)
(* The member, the vision batch, the admin                             *)
(* ------------------------------------------------------------------ *)
Declare(t) ==
    /\ trade[t].state = "none"
    /\ trade' = [trade EXCEPT ![t].state = "open"]
    /\ UNCHANGED <<extracted, gaps, charged, pass, refused, incidents>>

Close(t) ==
    /\ trade[t].state = "open"
    /\ trade' = [trade EXCEPT ![t].state = "closed"]
    /\ UNCHANGED <<extracted, gaps, charged, pass, refused, incidents>>

\* onDelete: SetNull moves every row of the trade to a key without it.
Unlinked(k, t) == IF k.trade = t THEN [k EXCEPT !.trade = None] ELSE k

Collides(t) == \E k, l \in DOMAIN gaps : k # l /\ Unlinked(k, t) = Unlinked(l, t)

\* deleteTrade; when the unique index refuses the row SetNull rewrites, the
\* whole statement fails and the trade stays.
Delete(t) ==
    /\ t \in Declared
    /\ Incident
    /\ IF Collides(t)
       THEN refused' = refused \cup {t} /\ UNCHANGED <<trade, gaps>>
       ELSE /\ trade' = [trade EXCEPT ![t].state = "deleted"]
            /\ gaps' = [u \in {Unlinked(k, t) : k \in DOMAIN gaps} |->
                          gaps[CHOOSE k \in DOMAIN gaps : Unlinked(k, t) = u]]
            /\ UNCHANGED refused
    /\ UNCHANGED <<extracted, charged, pass>>

\* A batch persists what it has read from a proof.
Extract(p) ==
    /\ p \notin extracted
    /\ extracted' = extracted \cup {p}
    /\ UNCHANGED <<trade, gaps, charged, pass, refused, incidents>>

\* Mutant: the status decided from an earlier read.
ExplainedBlindly(status) == "acknowledged"

\* submitDiscrepancyReason: the status moves only while the row is open.
Explained(status) == IF status = "open" THEN "acknowledged" ELSE status

Explain(k) ==
    /\ k \in DOMAIN gaps
    /\ Incident
    /\ gaps' = [gaps EXCEPT ![k] = Explained(@)]
    /\ UNCHANGED <<trade, extracted, charged, pass, refused>>

\* resolveDiscrepancyAsAdmin
AdminResolve(k) ==
    /\ Open(k)
    /\ Incident
    /\ gaps' = [gaps EXCEPT ![k] = "resolved"]
    /\ UNCHANGED <<trade, extracted, charged, pass, refused>>

Init ==
    /\ trade = [t \in Trades |-> [state |-> "none", match |-> "null"]]
    /\ extracted = Early
    /\ gaps = [k \in {} |-> "open"]
    /\ charged = [k \in Keys |-> 0]
    /\ pass = [s \in Passes |-> Idle]
    /\ refused = {}
    /\ incidents = 0

Advance(s) == ReadTrades(s) \/ ReadPositions(s) \/ ReadGaps(s) \/ Rewrite(s) \/ Judge(s)

Next ==
    \/ \E s \in Passes : Advance(s) \/ Abort(s)
    \/ \E t \in Trades : Declare(t) \/ Close(t) \/ Delete(t)
    \/ \E p \in Positions : Extract(p)
    \/ \E k \in DOMAIN gaps : Explain(k) \/ AdminResolve(k)

Spec == Init /\ [][Next]_vars

\* The cron comes back every day and goes on once it has started; nothing is
\* assumed of the passes behind a batch.
Fairness == WF_vars(Advance(Daily))

FairSpec == Spec /\ Fairness

(* ------------------------------------------------------------------ *)
(* Properties                                                          *)
(* ------------------------------------------------------------------ *)
TypeOK ==
    /\ trade \in [Trades -> [state : TradeStates, match : Matches]]
    /\ extracted \subseteq Positions
    /\ DOMAIN gaps \subseteq Keys /\ \A k \in DOMAIN gaps : gaps[k] \in Statuses
    /\ charged \in [Keys -> Nat]
    /\ DOMAIN pass = Passes
    /\ refused \subseteq Trades
    /\ incidents \in 0..MaxIncidents

\* No gap is punished twice, however the passes interleave and whatever is
\* deleted, explained or retracted in between (createIfNew and its index).
ChargedOnce == \A k \in Keys : charged[k] <= 1

\* The stretch of time the proofs speak of, stated position by position:
\* near one of them, or between two that are close enough.
Evidence(time, S) ==
    \/ \E a \in S : a - Margin <= time /\ time <= a + Margin
    \/ \E a, b \in S : a <= time /\ time <= b /\ b - a <= ClusterGap

\* Nobody is called a liar without evidence: a trade on record as falsely
\* declared is closed and lies in a period the positions on record cover,
\* also when the accusing pass worked on stale reads (reconcile.ts, the
\* coverage windows and the OPEN-trade rule).
AccusedOnEvidence ==
    \A k \in DOMAIN gaps : k.type = "false_declared" /\ k.trade # None =>
        trade[k.trade].state = "closed" /\ Evidence(At[k.trade], Times(extracted))

\* A gap that reality or the admin has closed is never reopened by a motive
\* that arrives late (submitDiscrepancyReason's predicate).
ResolvedStaysResolved ==
    [][\A k \in DOMAIN gaps \cap DOMAIN gaps' :
          gaps[k] = "resolved" => gaps'[k] = "resolved"]_vars

Accused(x) == \E k \in DOMAIN gaps : Open(k) /\ x \in {k.trade, k.pos}
AccusedAlone(p) == Open(Key("missing_declared", None, p))

\* The tables agree with a verdict.
Reflected(v) ==
    /\ v.trade # None => trade[v.trade].match = MatchOf(v)
    /\ v.kind \in Accusations => KeyOf(v) \in DOMAIN gaps
    /\ v.kind \in {"matched", "uncovered"} => ~Accused(v.trade)
    /\ v.kind = "matched" => ~AccusedAlone(v.pos)

\* Whatever stale passes, faults, deletions and late proofs have left behind,
\* the daily passes bring the tables to the verdicts on the data as it is:
\* an innocent trade does not stay accused, a proven gap does not stay hidden.
ScanConverges ==
    <>[](extracted # {} => \A v \in Verdicts(Declared, Closed, extracted) : Reflected(v))

\* "a member's images must not survive their trade" (lib/trades/service.ts):
\* the owner's deletion is never refused.
DeletionGoesThrough == refused = {}
=============================================================================

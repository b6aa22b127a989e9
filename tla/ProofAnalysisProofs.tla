------------------------- MODULE ProofAnalysisProofs -------------------------
(* Theorems about ProofAnalysis: what overlapping posts record is counted    *)
(* once and under the right account, and screens go with the verdicts.  And, *)
(* in a second part, about the alerts a batch raises (RepetitionAlerts).     *)
EXTENDS ProofAnalysis, RepetitionAlerts, FiniteSetTheorems, WellFoundedInduction,
        NaturalsInduction, TLAPS

(* ------------------------------------------------------------------ *)
(* What a batch has in hand                                            *)
(* ------------------------------------------------------------------ *)
Statuses == {"absent", "pending", "done", "failed", "deleted"}

SnapshotRow == [active : BOOLEAN, status : Statuses, purged : BOOLEAN]

Snapshots == {<<>>} \cup UNION {[S -> SnapshotRow] : S \in SUBSET Proofs}

Jobs ==
    [pc : {"idle", "reading", "entry", "log", "flip", "purge",
           "declared", "backfill", "create", "lookup", "insert"},
     todo : SUBSET Proofs, snap : Snapshots, p : Proofs \cup {None},
     row : Rows \cup {None}, seen : SUBSET Deals, n : Nat]

\* A post has the row of each of its entries, and works on one of them.
Sound(j) ==
    /\ j.pc \notin {"idle", "reading"} => j.snap \in [j.todo -> SnapshotRow]
    /\ j.pc \notin {"idle", "reading", "entry"} => j.p \in j.todo
    /\ j.pc \in {"declared", "backfill"} => AttachedTo[j.p] # None
    /\ j.pc \in {"lookup", "insert"} => j.row \in Rows
    /\ j.pc = "idle" => j.todo = {}

JobsOK ==
    /\ job \in [Batches -> Jobs]
    /\ \A b \in Batches : Sound(job[b])

LEMMA SnapshotType == ASSUME TypeOK PROVE Snapshot \in [Proofs -> SnapshotRow]
BY DEF TypeOK, Snapshot, SnapshotRow, Purged, Statuses

LEMMA IdleSound == Idle \in Jobs /\ Sound(Idle)
<1>1. <<>> \in Snapshots
  BY DEF Snapshots
<1> QED
  BY <1>1 DEF Idle, Jobs, Sound

LEMMA IdleReadsNothing == Idle.pc = "idle" /\ Idle.todo = {}
BY DEF Idle

\* The entries left of a post make a sound job.
LEMMA EntriesSound ==
    ASSUME NEW T \in SUBSET Proofs, NEW snap \in [T -> SnapshotRow], NEW todo \in SUBSET T
    PROVE  /\ Entries(todo, snap) \in Jobs
           /\ Sound(Entries(todo, snap))
           /\ Entries(todo, snap).todo = todo
           /\ Entries(todo, snap).pc \in {"idle", "entry"}
           /\ \A p \in todo : Entries(todo, snap).snap[p] = snap[p]
<1>1. CASE todo = {}
  BY <1>1, IdleSound DEF Entries, Idle
<1>2. CASE todo # {}
  <2> DEFINE s == [p \in todo |-> snap[p]]
             e == [pc |-> "entry", todo |-> todo, snap |-> s, p |-> None,
                   row |-> None, seen |-> {}, n |-> 0]
  <2>1. s \in [todo -> SnapshotRow] /\ \A p \in todo : s[p] = snap[p]
    OBVIOUS
  <2>2. s \in Snapshots
    BY <2>1 DEF Snapshots
  <2>3. Entries(todo, snap) = e
    BY <1>2 DEF Entries, Idle
  <2> HIDE DEF s
  <2>4. e \in Jobs
    BY <2>2 DEF Jobs
  <2>5. Sound(e)
    BY <2>1 DEF Sound
  <2> QED
    BY <2>1, <2>3, <2>4, <2>5
<1> QED
  BY <1>1, <1>2

\* Replacing one job by a sound one.
LEMMA JobReplaced ==
    ASSUME JobsOK, NEW b \in Batches, NEW j \in Jobs, Sound(j), job' = [job EXCEPT ![b] = j]
    PROVE  /\ JobsOK'
           /\ job'[b] = j
           /\ \A c \in Batches \ {b} : job'[c] = job[c]
BY DEF JobsOK

LEMMA JobsKept == ASSUME JobsOK, UNCHANGED job PROVE JobsOK'
BY DEF JobsOK

\* Going on with the next entry.
LEMMA RestSound ==
    ASSUME JobsOK, NEW b \in Batches, job[b].pc \notin {"idle", "reading"}
    PROVE  /\ Rest(b) \in Jobs /\ Sound(Rest(b))
           /\ Rest(b).todo = job[b].todo \ {job[b].p}
           /\ Rest(b).pc \in {"idle", "entry"}
           /\ \A p \in Rest(b).todo : Rest(b).snap[p] = job[b].snap[p]
<1> DEFINE T == job[b].todo
           snap == job[b].snap
<1>1. T \in SUBSET Proofs /\ snap \in [T -> SnapshotRow]
  BY DEF JobsOK, Jobs, Sound
<1>2. Rest(b) = Entries(T \ {job[b].p}, snap)
  BY DEF Rest
<1> HIDE DEF T, snap
<1>3. T \ {job[b].p} \in SUBSET T
  OBVIOUS
<1> QED
  BY <1>1, <1>2, <1>3, EntriesSound DEF T, snap

LEMMA SkipSound ==
    ASSUME JobsOK, NEW b \in Batches, NEW p \in Proofs, Skip(b, p)
    PROVE  /\ JobsOK'
           /\ \A c \in Batches \ {b} : job'[c] = job[c]
           /\ job'[b].todo = job[b].todo \ {p}
           /\ job'[b].pc \in {"idle", "entry"}
           /\ \A q \in job'[b].todo : job'[b].snap[q] = job[b].snap[q]
<1> DEFINE T == job[b].todo
           snap == job[b].snap
           j == Entries(T \ {p}, snap)
<1>1. T \in SUBSET Proofs /\ snap \in [T -> SnapshotRow]
  BY DEF JobsOK, Jobs, Sound, Skip, At
<1>2. job' = [job EXCEPT ![b] = j]
  BY DEF Skip, JobsOK
<1>3. T \ {p} \in SUBSET T
  OBVIOUS
<1> HIDE DEF T, snap
<1>4. /\ j \in Jobs /\ Sound(j)
      /\ j.todo = T \ {p} /\ j.pc \in {"idle", "entry"}
      /\ \A q \in T \ {p} : j.snap[q] = snap[q]
  BY <1>1, <1>3, EntriesSound
<1> HIDE DEF j
<1> QED
  BY <1>2, <1>4, JobReplaced DEF T, snap

LEMMA PostSound ==
    ASSUME TypeOK, JobsOK, NEW b \in Batches, Post(b)
    PROVE  /\ JobsOK'
           /\ \A c \in Batches \ {b} : job'[c] = job[c]
           /\ job'[b].todo = job[b].todo
           /\ job'[b].pc \in {"idle", "entry"}
           /\ \A p \in job'[b].todo : job'[b].snap[p] = Snapshot[p]
<1> DEFINE T == job[b].todo
           snap == Snapshot
           j == Entries(T, snap)
<1>1. T \in SUBSET Proofs /\ snap \in [Proofs -> SnapshotRow]
  BY SnapshotType DEF JobsOK, Jobs
<1>2. job' = [job EXCEPT ![b] = j]
  BY DEF Post, JobsOK
<1> HIDE DEF T, snap
<1>4. /\ j \in Jobs /\ Sound(j)
      /\ j.todo = T /\ j.pc \in {"idle", "entry"}
      /\ \A q \in T : j.snap[q] = snap[q]
  BY <1>1, EntriesSound
<1> HIDE DEF j
<1> QED
  BY <1>2, <1>4, JobReplaced DEF T, snap

LEMMA ProceedSound ==
    ASSUME JobsOK, NEW b \in Batches, job[b].pc \notin {"idle", "reading"}, Proceed(b)
    PROVE  /\ JobsOK'
           /\ \A c \in Batches \ {b} : job'[c] = job[c]
           /\ job'[b].todo = job[b].todo \ {job[b].p}
           /\ job'[b].pc \in {"idle", "entry"}
           /\ \A p \in job'[b].todo : job'[b].snap[p] = job[b].snap[p]
<1> DEFINE j == Rest(b)
<1>1. /\ j \in Jobs /\ Sound(j)
      /\ j.todo = job[b].todo \ {job[b].p} /\ j.pc \in {"idle", "entry"}
      /\ \A p \in j.todo : j.snap[p] = job[b].snap[p]
  BY RestSound
<1>2. job' = [job EXCEPT ![b] = j]
  BY DEF Proceed
<1> HIDE DEF j
<1> QED
  BY <1>1, <1>2, JobReplaced

LEMMA FailSound ==
    ASSUME TypeOK, JobsOK, NEW b \in Batches, NEW p \in job[b].todo,
           job[b].pc \notin {"idle", "reading"}, Fail(b, p)
    PROVE  /\ JobsOK'
           /\ \A c \in Batches \ {b} : job'[c] = job[c]
           /\ status[p] = "deleted" => UNCHANGED status /\ job'[b] = Idle
           /\ status[p] # "deleted" =>
                 /\ status' = [status EXCEPT ![p] = "failed"]
                 /\ job'[b].pc = "purge" /\ job'[b].p = p
                 /\ job'[b].todo = job[b].todo /\ job'[b].snap = job[b].snap
<1>1. CASE status[p] = "deleted"
  BY <1>1, IdleSound, JobReplaced DEF Fail
<1>2. CASE status[p] # "deleted"
  <2> DEFINE j == [job[b] EXCEPT !.pc = "purge", !.p = p, !.n = 0]
  <2>1. /\ job' = [job EXCEPT ![b] = j]
        /\ status' = [status EXCEPT ![p] = "failed"]
    BY <1>2 DEF Fail, JobsOK, Jobs
  <2>2. /\ j \in Jobs /\ j.pc = "purge" /\ j.p = p
        /\ j.todo = job[b].todo /\ j.snap = job[b].snap
    BY DEF JobsOK, Jobs
  <2>3. Sound(j)
    BY <2>2 DEF JobsOK, Sound
  <2> HIDE DEF j
  <2> QED
    BY <1>2, <2>1, <2>2, <2>3, JobReplaced
<1> QED
  BY <1>1, <1>2

\* The steps that read: the gates of an entry, the look-ups.
LEMMA ReadingSound ==
    ASSUME TypeOK, JobsOK, NEW b \in Batches, NEW p \in Proofs, Invalid(b, p)
    PROVE  /\ JobsOK'
           /\ \A c \in Batches \ {b} : job'[c] = job[c]
           /\ job'[b].pc = "log" /\ job'[b].p = p
           /\ job'[b].todo = job[b].todo /\ job'[b].snap = job[b].snap
<1>0. invalid[p] + 1 \in Nat /\ 1 \in Nat
  BY BoundsAssumption DEF TypeOK
<1>1. PICK n \in Nat : job' = [job EXCEPT ![b].pc = "log", ![b].p = p, ![b].n = n]
  <2>1. \/ job' = [job EXCEPT ![b].pc = "log", ![b].p = p, ![b].n = invalid[p] + 1]
        \/ job' = [job EXCEPT ![b].pc = "log", ![b].p = p, ![b].n = 1]
    BY Zenon DEF Invalid
  <2> QED
    BY <1>0, <2>1, Zenon
<1> DEFINE j == [job[b] EXCEPT !.pc = "log", !.p = p, !.n = n]
<1>2. job' = [job EXCEPT ![b] = j]
  BY <1>1 DEF JobsOK, Jobs
<1>3. /\ j \in Jobs /\ j.pc = "log" /\ j.p = p
      /\ j.todo = job[b].todo /\ j.snap = job[b].snap
  BY DEF JobsOK, Jobs
<1>4. Sound(j)
  BY <1>3 DEF JobsOK, Sound, Invalid, At
<1> HIDE DEF j
<1> QED
  BY <1>2, <1>3, <1>4, JobReplaced

LEMMA FlipSound ==
    ASSUME JobsOK, NEW b \in Batches, At(b, "log"),
           job' = [job EXCEPT ![b].pc = "flip", ![b].n = 0]
    PROVE  /\ JobsOK'
           /\ \A c \in Batches \ {b} : job'[c] = job[c]
           /\ job'[b].pc = "flip" /\ job'[b].p = job[b].p
           /\ job'[b].todo = job[b].todo /\ job'[b].snap = job[b].snap
<1> DEFINE j == [job[b] EXCEPT !.pc = "flip", !.n = 0]
<1>2. job' = [job EXCEPT ![b] = j]
  BY DEF JobsOK, Jobs
<1>3. /\ j \in Jobs /\ j.pc = "flip" /\ j.p = job[b].p
      /\ j.todo = job[b].todo /\ j.snap = job[b].snap
  BY DEF JobsOK, Jobs
<1>4. Sound(j)
  BY <1>3 DEF JobsOK, Sound, At
<1> HIDE DEF j
<1> QED
  BY <1>2, <1>3, <1>4, JobReplaced

\* An extraction goes to the row of its login, or looks for one to write.
LEMMA ExtractionSound ==
    ASSUME JobsOK, NEW b \in Batches, NEW p \in Proofs, Extraction(b, p)
    PROVE  /\ JobsOK'
           /\ \A c \in Batches \ {b} : job'[c] = job[c]
           /\ job'[b].pc \in {"lookup", "create", "declared"} /\ job'[b].p = p
           /\ job'[b].pc = "lookup" => login[job'[b].row] = LoginOf[p]
           /\ job'[b].todo = job[b].todo /\ job'[b].snap = job[b].snap
<1>1. CASE WithLogin(LoginOf[p]) # {}
  <2>1. PICK row \in WithLogin(LoginOf[p]) :
          job' = [job EXCEPT ![b].pc = "lookup", ![b].p = p, ![b].row = row]
    BY <1>1 DEF Extraction
  <2>2. row \in Rows /\ login[row] = LoginOf[p]
    BY <2>1 DEF WithLogin
  <2> DEFINE j == [job[b] EXCEPT !.pc = "lookup", !.p = p, !.row = row]
  <2>3. job' = [job EXCEPT ![b] = j]
    BY <2>1 DEF JobsOK, Jobs
  <2>4. /\ j \in Jobs /\ j.pc = "lookup" /\ j.p = p /\ j.row = row
        /\ j.todo = job[b].todo /\ j.snap = job[b].snap
    BY <2>2 DEF JobsOK, Jobs
  <2>5. Sound(j)
    BY <2>2, <2>4 DEF JobsOK, Sound, Extraction, At
  <2> HIDE DEF j
  <2> QED
    BY <2>2, <2>3, <2>4, <2>5, JobReplaced
<1>2. CASE WithLogin(LoginOf[p]) = {}
  <2> DEFINE pc == IF AttachedTo[p] = None THEN "create" ELSE "declared"
             j == [job[b] EXCEPT !.pc = pc, !.p = p]
  <2>3. job' = [job EXCEPT ![b] = j]
    BY <1>2 DEF JobsOK, Jobs, Extraction
  <2>4. /\ j \in Jobs /\ j.pc = pc /\ j.p = p
        /\ j.todo = job[b].todo /\ j.snap = job[b].snap
    BY DEF JobsOK, Jobs
  <2>5. Sound(j)
    BY <2>4 DEF JobsOK, Sound, Extraction, At
  <2> HIDE DEF j
  <2> QED
    BY <2>3, <2>4, <2>5, JobReplaced
<1> QED
  BY <1>1, <1>2

LEMMA DeclaredSound ==
    ASSUME JobsOK, NEW b \in Batches, ReadDeclared(b)
    PROVE  /\ JobsOK'
           /\ \A c \in Batches \ {b} : job'[c] = job[c]
           /\ job'[b].pc \in {"backfill", "create"} /\ job'[b].p = job[b].p
           /\ job'[b].todo = job[b].todo /\ job'[b].snap = job[b].snap
<1>1. PICK pc \in {"backfill", "create"} : job' = [job EXCEPT ![b].pc = pc]
  BY DEF ReadDeclared, Goto
<1> DEFINE j == [job[b] EXCEPT !.pc = pc]
<1>2. job' = [job EXCEPT ![b] = j]
  BY <1>1 DEF JobsOK, Jobs
<1>3. /\ j \in Jobs /\ j.pc = pc /\ j.p = job[b].p
      /\ j.todo = job[b].todo /\ j.snap = job[b].snap
  BY DEF JobsOK, Jobs
<1>4. Sound(j)
  BY <1>3 DEF JobsOK, Sound, ReadDeclared, At
<1> HIDE DEF j
<1> QED
  BY <1>2, <1>3, <1>4, JobReplaced

\* Whether it writes the login or loses to the index, the row a post goes on
\* with has the login it looked for.
LEMMA AssignSound ==
    ASSUME TypeOK, JobsOK, NEW b \in Batches, NEW row \in Rows, NEW l \in Logins,
           job[b].pc \in {"backfill", "create"}, Assign(b, row, l)
    PROVE  /\ JobsOK'
           /\ \A c \in Batches \ {b} : job'[c] = job[c]
           /\ job'[b].pc = "lookup" /\ job'[b].p = job[b].p
           /\ job'[b].todo = job[b].todo /\ job'[b].snap = job[b].snap
           /\ login' = login \/ login' = [login EXCEPT ![row] = l]
           /\ login'[job'[b].row] = l
<1>1. PICK r \in Rows : /\ job' = [job EXCEPT ![b].pc = "lookup", ![b].row = r]
                        /\ \/ login' = login /\ login[r] = l
                           \/ login' = [login EXCEPT ![row] = l] /\ r = row
  <2>1. CASE WithLogin(l) \ {row} # {}
    <3>1. Winner(row, l) \in WithLogin(l)
      BY <2>1 DEF Winner
    <3> QED
      BY <2>1, <3>1 DEF Assign, WithLogin
  <2>2. CASE WithLogin(l) \ {row} = {}
    BY <2>2 DEF Assign
  <2> QED
    BY <2>1, <2>2
<1> DEFINE j == [job[b] EXCEPT !.pc = "lookup", !.row = r]
<1>2. job' = [job EXCEPT ![b] = j]
  BY <1>1 DEF JobsOK, Jobs
<1>3. /\ j \in Jobs /\ j.pc = "lookup" /\ j.p = job[b].p /\ j.row = r
      /\ j.todo = job[b].todo /\ j.snap = job[b].snap
  BY DEF JobsOK, Jobs
<1>4. Sound(j)
  BY <1>3 DEF JobsOK, Sound
<1>5. login'[r] = l
  BY <1>1 DEF TypeOK
<1> HIDE DEF j
<1> QED
  BY <1>1, <1>2, <1>3, <1>4, <1>5, JobReplaced

LEMMA LookupSound ==
    ASSUME JobsOK, NEW b \in Batches, Lookup(b)
    PROVE  /\ JobsOK'
           /\ \A c \in Batches \ {b} : job'[c] = job[c]
           /\ job'[b].pc = "insert" /\ job'[b].p = job[b].p
           /\ job'[b].row = job[b].row /\ job'[b].seen = On(job[b].row)
           /\ job'[b].todo = job[b].todo /\ job'[b].snap = job[b].snap
<1> DEFINE seen == On(job[b].row)
           j == [job[b] EXCEPT !.pc = "insert", !.seen = seen]
<1>1. seen \in SUBSET Deals
  BY DEF On
<1>2. job' = [job EXCEPT ![b] = j]
  BY DEF JobsOK, Jobs, Lookup
<1> HIDE DEF seen
<1>3. /\ j \in Jobs /\ j.pc = "insert" /\ j.p = job[b].p /\ j.row = job[b].row /\ j.seen = seen
      /\ j.todo = job[b].todo /\ j.snap = job[b].snap
  BY <1>1 DEF JobsOK, Jobs
<1>4. Sound(j)
  BY <1>3 DEF JobsOK, Sound, Lookup, At
<1> HIDE DEF j
<1> QED
  BY <1>2, <1>3, <1>4, JobReplaced DEF seen

LEMMA CommitSound ==
    ASSUME JobsOK, NEW b \in Batches, At(b, "insert"),
           job' = [job EXCEPT ![b].pc = "purge", ![b].row = None, ![b].seen = {}]
    PROVE  /\ JobsOK'
           /\ \A c \in Batches \ {b} : job'[c] = job[c]
           /\ job'[b].pc = "purge" /\ job'[b].p = job[b].p
           /\ job'[b].todo = job[b].todo /\ job'[b].snap = job[b].snap
<1> DEFINE j == [job[b] EXCEPT !.pc = "purge", !.row = None, !.seen = {}]
<1>2. job' = [job EXCEPT ![b] = j]
  BY DEF JobsOK, Jobs
<1>3. /\ j \in Jobs /\ j.pc = "purge" /\ j.p = job[b].p
      /\ j.todo = job[b].todo /\ j.snap = job[b].snap
  BY DEF JobsOK, Jobs
<1>4. Sound(j)
  BY <1>3 DEF JobsOK, Sound, At
<1> HIDE DEF j
<1> QED
  BY <1>2, <1>3, <1>4, JobReplaced

LEMMA PullSound ==
    ASSUME JobsOK, NEW b \in Batches, Pull(b)
    PROVE  /\ JobsOK'
           /\ \A c \in Batches \ {b} : job'[c] = job[c]
           /\ job'[b].pc = "reading" /\ job'[b].todo = Pending
<1> DEFINE todo == Pending
           j == [Idle EXCEPT !.pc = "reading", !.todo = todo]
<1>1. todo \in SUBSET Proofs
  BY DEF Pending
<1>2. job' = [job EXCEPT ![b] = j]
  BY DEF Pull
<1> HIDE DEF todo
<1>3. /\ j \in Jobs /\ j.pc = "reading" /\ j.todo = todo
  BY <1>1 DEF Idle, Jobs, Snapshots
<1>4. Sound(j)
  BY <1>3 DEF Sound
<1> HIDE DEF j
<1> QED
  BY <1>2, <1>3, <1>4, JobReplaced DEF todo

LEMMA StopSound ==
    ASSUME JobsOK, NEW b \in Batches, job' = [job EXCEPT ![b] = Idle]
    PROVE  /\ JobsOK'
           /\ \A c \in Batches \ {b} : job'[c] = job[c]
           /\ job'[b] = Idle
BY IdleSound, JobReplaced

LEMMA CrashSound ==
    ASSUME JobsOK, Crash
    PROVE  /\ JobsOK'
           /\ \A b \in Batches : IF At(b, "reading") THEN job'[b] = job[b] ELSE job'[b] = Idle
BY IdleSound DEF Crash, JobsOK

(* ------------------------------------------------------------------ *)
(* Types, and what is counted                                          *)
(* ------------------------------------------------------------------ *)
Recorded(a, d, p) == positions[<<a, d, p>>]

LEMMA OnRecord ==
    \A a : On(a) = {d \in Deals : \E p \in Proofs : Recorded(a, d, p) > 0}
BY Zenon DEF On, Recorded

LEMMA RecordedType ==
    ASSUME TypeOK, NEW a \in Rows, NEW d \in Deals, NEW p \in Proofs
    PROVE  Recorded(a, d, p) \in 0..2
BY DEF TypeOK, Recorded

\* The lock of a capture has one holder.
LockHeld ==
    \A b, c \in Batches : b # c /\ At(b, "insert") /\ At(c, "insert") => job[b].p # job[c].p

\* Its holder has seen whatever is on record of its capture.
HolderHasSeen ==
    \A b \in Batches : At(b, "insert") =>
        \A d \in Deals : Recorded(job[b].row, d, job[b].p) > 0 => d \in job[b].seen

RecordedOnce ==
    \A a \in Rows, d \in Deals :
        /\ \A p \in Proofs : Recorded(a, d, p) <= 1
        /\ d \in Ticketed => \A p, q \in Proofs : Recorded(a, d, p) > 0 /\ Recorded(a, d, q) > 0 => p = q

CountInv == TypeOK /\ JobsOK /\ LockHeld /\ HolderHasSeen /\ RecordedOnce

LEMMA CountInit == Init => CountInv
<1> SUFFICES ASSUME Init PROVE CountInv
  OBVIOUS
<1>1. JobsOK
  BY IdleSound DEF Init, JobsOK
<1>2. \A k \in Rows \X Deals \X Proofs : positions[k] = 0
  BY DEF Init
<1>3. TypeOK
  BY BoundsAssumption DEF Init, TypeOK, Rows
<1>4. LockHeld /\ HolderHasSeen
  BY DEF Init, LockHeld, HolderHasSeen, At, Idle
<1>5. RecordedOnce
  <2> SUFFICES ASSUME NEW a \in Rows, NEW d \in Deals, NEW p \in Proofs
               PROVE  Recorded(a, d, p) = 0
    BY DEF RecordedOnce
  <2> QED
    BY <1>2 DEF Recorded
<1> QED
  BY <1>1, <1>3, <1>4, <1>5 DEF CountInv

\* Away from the look-up and the commit nothing changes for holders of a lock.
LEMMA CountKept ==
    ASSUME CountInv, UNCHANGED positions,
           \A b \in Batches : job'[b].pc = "insert" => job'[b] = job[b]
    PROVE  LockHeld' /\ HolderHasSeen' /\ RecordedOnce'
<1>1. LockHeld'
  BY DEF CountInv, LockHeld, At
<1>2. HolderHasSeen'
  BY DEF CountInv, HolderHasSeen, At, Recorded
<1>3. RecordedOnce'
  BY DEF CountInv, RecordedOnce, Recorded
<1> QED
  BY <1>1, <1>2, <1>3

\* The look-up is made under the lock.
LEMMA CountLookup ==
    ASSUME CountInv, NEW b \in Batches, Lookup(b)
    PROVE  LockHeld' /\ HolderHasSeen' /\ RecordedOnce'
<1>1. /\ \A c \in Batches \ {b} : job'[c] = job[c]
      /\ job'[b].pc = "insert" /\ job'[b].p = job[b].p
      /\ job'[b].row = job[b].row /\ job'[b].seen = On(job[b].row)
  BY LookupSound DEF CountInv
<1>2. LockHeld'
  <2>1. \A c \in Batches \ {b} : ~(job[c].pc = "insert" /\ job[c].p = job[b].p)
    BY DEF Lookup, LockFree, At
  <2> QED
    BY <1>1, <2>1 DEF CountInv, LockHeld, At
<1>3. UNCHANGED positions
  BY DEF Lookup, accounts
<1>4. job[b].p \in Proofs
  BY DEF CountInv, JobsOK, Jobs, Sound, Lookup, At
<1>5. \A d \in Deals : Recorded(job[b].row, d, job[b].p) > 0 => d \in On(job[b].row)
  BY <1>4, OnRecord
<1>6. HolderHasSeen'
  BY <1>1, <1>3, <1>5 DEF CountInv, HolderHasSeen, At, Recorded
<1>7. RecordedOnce'
  BY <1>3 DEF CountInv, RecordedOnce, Recorded
<1> QED
  BY <1>2, <1>6, <1>7

\* What is committed was not on record for the capture, and no ticket of it for
\* any other.
LEMMA CountInsert ==
    ASSUME CountInv, NEW b \in Batches, Insert(b), JobsOK',
           \A c \in Batches \ {b} : job'[c] = job[c], job'[b].pc # "insert"
    PROVE  /\ positions' \in [Rows \X Deals \X Proofs -> 0..2]
           /\ LockHeld' /\ HolderHasSeen' /\ RecordedOnce'
<1> DEFINE p == job[b].p
           row == job[b].row
           ins == ToInsert(b)
           put == /\ status[p] # "deleted"
                  /\ positions' = [k \in DOMAIN positions |->
                                     IF k[1] = row /\ k[2] \in ins /\ k[3] = p
                                     THEN positions[k] + 1 ELSE positions[k]]
<1>1. p \in Proofs /\ row \in Rows
  BY DEF CountInv, JobsOK, Jobs, Sound, Insert, At
<1>2. \A c \in Batches : job'[c].pc = "insert" => c # b /\ job'[c] = job[c] /\ job[c].p # p
  BY DEF CountInv, LockHeld, At, Insert
<1>3. CASE UNCHANGED positions
  <2>1. positions' \in [Rows \X Deals \X Proofs -> 0..2]
    BY <1>3 DEF CountInv, TypeOK
  <2> QED
    BY <2>1, <1>2, <1>3, CountKept
<1>4. CASE put
  <2> DEFINE After(a, d, q) == positions'[<<a, d, q>>]
  <2>1. \A a \in Rows, d \in Deals, q \in Proofs :
          After(a, d, q) = IF a = row /\ d \in ins /\ q = p
                           THEN Recorded(a, d, q) + 1 ELSE Recorded(a, d, q)
    <3> SUFFICES ASSUME NEW a \in Rows, NEW d \in Deals, NEW q \in Proofs
                 PROVE  After(a, d, q) = IF a = row /\ d \in ins /\ q = p
                                THEN Recorded(a, d, q) + 1 ELSE Recorded(a, d, q)
      OBVIOUS
    <3>1. <<a, d, q>> \in DOMAIN positions
      BY DEF CountInv, TypeOK
    <3> QED
      BY <1>4, <3>1 DEF Recorded
  <2>2. \A d \in ins : Recorded(row, d, p) = 0 /\ d \in Deals
    <3> SUFFICES ASSUME NEW d \in ins PROVE Recorded(row, d, p) = 0 /\ d \in Deals
      OBVIOUS
    <3>1. d \in Deals /\ d \notin job[b].seen
      BY <1>1, CapturesAssumption DEF ToInsert
    <3>2. Recorded(row, d, p) \in 0..2
      BY <1>1, <3>1, RecordedType DEF CountInv
    <3>3. ~(Recorded(row, d, p) > 0)
      BY <3>1 DEF CountInv, HolderHasSeen, Insert
    <3> QED
      BY <3>1, <3>2, <3>3
  <2>3. \A d \in ins \cap Ticketed, q \in Proofs : Recorded(row, d, q) = 0
    <3> SUFFICES ASSUME NEW d \in ins, d \in Ticketed, NEW q \in Proofs PROVE Recorded(row, d, q) = 0
      OBVIOUS
    <3>1. d \in Deals /\ d \notin On(row)
      BY CapturesAssumption DEF ToInsert
    <3>2. Recorded(row, d, q) \in 0..2
      BY <1>1, <3>1, RecordedType DEF CountInv
    <3>3. ~(Recorded(row, d, q) > 0)
      BY <3>1, OnRecord
    <3> QED
      BY <3>2, <3>3
  <2>4. \A a \in Rows, d \in Deals, q \in Proofs : Recorded(a, d, q) \in 0..1
    <3> SUFFICES ASSUME NEW a \in Rows, NEW d \in Deals, NEW q \in Proofs
                 PROVE  Recorded(a, d, q) \in 0..1
      OBVIOUS
    <3>1. Recorded(a, d, q) \in 0..2 /\ Recorded(a, d, q) <= 1
      BY RecordedType DEF CountInv, RecordedOnce
    <3> QED
      BY <3>1
  <2>5. \A a \in Rows, d \in Deals, q, r \in Proofs :
          d \in Ticketed /\ Recorded(a, d, q) > 0 /\ Recorded(a, d, r) > 0 => q = r
    BY DEF CountInv, RecordedOnce
  <2> HIDE DEF p, row, ins, put, After
  <2>6. positions' \in [Rows \X Deals \X Proofs -> 0..2]
    <3>1. \A k \in Rows \X Deals \X Proofs : positions'[k] \in 0..2
      <4> SUFFICES ASSUME NEW a \in Rows, NEW d \in Deals, NEW q \in Proofs
                   PROVE  After(a, d, q) \in 0..2
        BY DEF After
      <4> QED
        BY <2>1, <2>4
    <3>2. DOMAIN positions' = DOMAIN positions
      BY <1>4 DEF put
    <3>3. DOMAIN positions' = Rows \X Deals \X Proofs
      BY <3>2 DEF CountInv, TypeOK
    <3>4. positions' = [k \in DOMAIN positions' |-> positions'[k]]
      BY <1>4 DEF put
    <3> QED
      BY <3>1, <3>3, <3>4
  <2>7. RecordedOnce'
    <3>1. ASSUME NEW a \in Rows, NEW d \in Deals
          PROVE  /\ \A q \in Proofs : After(a, d, q) <= 1
                 /\ d \in Ticketed => \A q, r \in Proofs : After(a, d, q) > 0 /\ After(a, d, r) > 0 => q = r
      <4>1. CASE a = row /\ d \in ins
        BY <4>1, <2>1, <2>2, <2>3, <2>4
      <4>2. CASE ~(a = row /\ d \in ins)
        BY <4>2, <2>1, <2>4, <2>5
      <4> QED
        BY <4>1, <4>2
    <3> QED
      BY <3>1 DEF RecordedOnce, Recorded, After
  <2>8. LockHeld'
    BY <1>2 DEF CountInv, LockHeld, At
  <2>9. HolderHasSeen'
    <3> SUFFICES ASSUME NEW c \in Batches, At(c, "insert")', NEW d \in Deals,
                        After(job'[c].row, d, job'[c].p) > 0
                 PROVE  d \in job'[c].seen
      BY DEF HolderHasSeen, Recorded, After
    <3>1. c # b /\ job'[c] = job[c] /\ job[c].p # p /\ At(c, "insert")
      BY <1>2 DEF At
    <3>2. job[c].p \in Proofs /\ job[c].row \in Rows
      BY <3>1 DEF CountInv, JobsOK, Jobs, Sound, At
    <3>3. Recorded(job[c].row, d, job[c].p) > 0
      BY <2>1, <3>1, <3>2
    <3> QED
      BY <3>1, <3>3 DEF CountInv, HolderHasSeen
  <2> QED
    BY <2>6, <2>7, <2>8, <2>9
<1> QED
  BY <1>3, <1>4 DEF Insert

\* Whatever an action does, one job of the batches changes at most, but for a crash.
LEMMA MemberCount ==
    ASSUME CountInv, NEW p \in Proofs, MemberStep(p)
    PROVE  CountInv'
<1>1. UNCHANGED <<job, positions, login>>
  BY DEF MemberStep, Store, CreateProof, CreateFails, DeleteRow, DeleteScreen, Forget, accounts, uploads
<1>2. JobsOK' /\ LockHeld' /\ HolderHasSeen' /\ RecordedOnce'
  BY <1>1, JobsKept, CountKept DEF CountInv
<1>3. TypeOK'
  <2>1. CASE Store(p)
    BY <2>1 DEF CountInv, TypeOK, Store, accounts
  <2>2. CASE CreateProof(p)
    BY <2>2 DEF CountInv, TypeOK, CreateProof, accounts
  <2>3. CASE CreateFails(p)
    BY <2>3 DEF CountInv, TypeOK, CreateFails, accounts
  <2>4. CASE DeleteRow(p)
    BY <2>4 DEF CountInv, TypeOK, DeleteRow, accounts
  <2>5. CASE DeleteScreen(p)
    BY <2>5 DEF CountInv, TypeOK, DeleteScreen, accounts
  <2>6. CASE Forget(p)
    <3>1. invalid[p] - 1 \in 0..MaxAttempts
      BY <2>6, BoundsAssumption DEF CountInv, TypeOK, Forget
    <3> QED
      BY <2>6, <3>1 DEF CountInv, TypeOK, Forget, accounts, uploads
  <2> QED
    BY <2>1, <2>2, <2>3, <2>4, <2>5, <2>6 DEF MemberStep
<1> QED
  BY <1>2, <1>3 DEF CountInv

\* The steps of one batch: the job is sound, its lock is as it was, and the
\* rest of the state keeps its type.
LEMMA EntryCount ==
    ASSUME CountInv, NEW b \in Batches, EntryStep(b)
    PROVE  CountInv'
<1> USE DEF CountInv
<1>1. ASSUME NEW p \in Proofs, Skip(b, p) PROVE CountInv'
  <2>1. UNCHANGED positions /\ TypeOK'
    BY <1>1 DEF Skip, TypeOK, uploads, accounts
  <2> QED
    BY <1>1, <2>1, SkipSound, CountKept
<1>2. ASSUME NEW p \in Proofs, Unreadable(b, p) PROVE CountInv'
  <2>1. UNCHANGED positions /\ TypeOK'
    BY <1>2 DEF Unreadable, Fail, TypeOK, accounts
  <2>2. p \in job[b].todo /\ job[b].pc \notin {"idle", "reading"} /\ Fail(b, p)
    BY <1>2 DEF Unreadable, At
  <2>3. JobsOK' /\ \A c \in Batches : job'[c].pc = "insert" => job'[c] = job[c]
    BY <2>2, FailSound DEF Idle
  <2> QED
    BY <2>1, <2>3, CountKept
<1>3. ASSUME NEW p \in Proofs, Invalid(b, p) PROVE CountInv'
  <2>1. UNCHANGED positions /\ TypeOK'
    BY <1>3 DEF Invalid, TypeOK, uploads, accounts
  <2>2. JobsOK' /\ \A c \in Batches : job'[c].pc = "insert" => job'[c] = job[c]
    BY <1>3, ReadingSound
  <2> QED
    BY <2>1, <2>2, CountKept
<1>4. ASSUME NEW p \in Proofs, Extraction(b, p) PROVE CountInv'
  <2>1. UNCHANGED positions /\ TypeOK'
    BY <1>4 DEF Extraction, TypeOK, uploads, accounts
  <2>2. JobsOK' /\ \A c \in Batches : job'[c].pc = "insert" => job'[c] = job[c]
    BY <1>4, ExtractionSound
  <2> QED
    BY <2>1, <2>2, CountKept
<1>5. CASE LogInvalid(b)
  <2>1. UNCHANGED positions /\ UNCHANGED <<active, uploads, login, strays>>
    BY <1>5 DEF LogInvalid, accounts
  <2>2. job[b].p \in Proofs
    BY <1>5 DEF LogInvalid, At, JobsOK, Jobs, Sound
  <2>3. invalid' = invalid \/ invalid' = [invalid EXCEPT ![job[b].p] = IF @ < MaxAttempts THEN @ + 1 ELSE @]
    BY <1>5 DEF LogInvalid
  <2>4. (IF invalid[job[b].p] < MaxAttempts THEN invalid[job[b].p] + 1 ELSE invalid[job[b].p]) \in 0..MaxAttempts
    BY <2>2, BoundsAssumption DEF TypeOK
  <2>5. TypeOK'
    BY <2>1, <2>2, <2>3, <2>4 DEF TypeOK, uploads
  <2>6. \/ job' = [job EXCEPT ![b].pc = "flip", ![b].n = 0]
        \/ Proceed(b)
    BY <1>5 DEF LogInvalid
  <2>7. JobsOK' /\ \A c \in Batches : job'[c].pc = "insert" => job'[c] = job[c]
    BY <1>5, <2>6, FlipSound, ProceedSound DEF LogInvalid, At
  <2> QED
    BY <2>1, <2>5, <2>7, CountKept
<1>6. CASE GiveUp(b)
  <2>1. UNCHANGED positions /\ TypeOK'
    BY <1>6 DEF GiveUp, Fail, TypeOK, accounts
  <2>2. job[b].p \in job[b].todo /\ job[b].pc \notin {"idle", "reading"} /\ Fail(b, job[b].p)
    BY <1>6 DEF GiveUp, At, JobsOK, Sound
  <2>3. JobsOK' /\ \A c \in Batches : job'[c].pc = "insert" => job'[c] = job[c]
    BY <2>2, FailSound DEF Idle
  <2> QED
    BY <2>1, <2>3, CountKept
<1>7. CASE Purge(b)
  <2>1. job[b].p \in Proofs /\ job[b].pc \notin {"idle", "reading"} /\ Proceed(b)
    BY <1>7 DEF Purge, At, JobsOK, Jobs, Sound
  <2>2. UNCHANGED positions /\ TypeOK'
    BY <1>7, <2>1 DEF Purge, TypeOK, accounts
  <2>3. JobsOK' /\ \A c \in Batches : job'[c].pc = "insert" => job'[c] = job[c]
    BY <2>1, ProceedSound
  <2> QED
    BY <2>2, <2>3, CountKept
<1> QED
  BY <1>1, <1>2, <1>3, <1>4, <1>5, <1>6, <1>7 DEF EntryStep

LEMMA AssignCount ==
    ASSUME CountInv, NEW b \in Batches, NEW row \in Rows, NEW l \in Logins,
           job[b].pc \in {"backfill", "create"}, Assign(b, row, l),
           UNCHANGED <<active, uploads, positions, invalid, strays, mishaps>>
    PROVE  CountInv'
<1>1. JobsOK' /\ \A c \in Batches : job'[c].pc = "insert" => job'[c] = job[c]
  BY AssignSound DEF CountInv
<1>2. TypeOK'
  BY AssignSound DEF CountInv, TypeOK, uploads
<1> QED
  BY <1>1, <1>2, CountKept DEF CountInv

\* The rows a post may write: the declared one, or that named by the login.
LEMMA RowsWritten ==
    ASSUME JobsOK, NEW b \in Batches
    PROVE  /\ At(b, "backfill") => AttachedTo[job[b].p] \in DeclaredAccounts
           /\ job[b].pc \notin {"idle", "reading", "entry"} =>
                 job[b].p \in Proofs /\ LoginOf[job[b].p] \in Logins
BY CapturesAssumption DEF JobsOK, Jobs, Sound, At

LEMMA MaterialiseCount ==
    ASSUME CountInv, NEW b \in Batches, MaterialiseStep(b)
    PROVE  CountInv'
<1>1. CASE ReadDeclared(b)
  <2>1. UNCHANGED positions /\ TypeOK'
    BY <1>1 DEF ReadDeclared, CountInv, TypeOK, uploads, accounts
  <2>2. JobsOK' /\ \A c \in Batches : job'[c].pc = "insert" => job'[c] = job[c]
    BY <1>1, DeclaredSound DEF CountInv
  <2> QED
    BY <2>1, <2>2, CountKept DEF CountInv
<1>2. CASE Backfill(b)
  BY <1>2, RowsWritten, AssignCount DEF Backfill, At, CountInv, Rows
<1>3. CASE CreateAccount(b)
  BY <1>3, RowsWritten, AssignCount DEF CreateAccount, At, CountInv, Rows
<1>4. CASE Lookup(b)
  <2>1. TypeOK'
    BY <1>4 DEF Lookup, CountInv, TypeOK, uploads, accounts
  <2> QED
    BY <1>4, <2>1, LookupSound, CountLookup DEF CountInv
<1>5. CASE Insert(b)
  <2>1. /\ JobsOK'
        /\ \A c \in Batches \ {b} : job'[c] = job[c]
        /\ job'[b].pc # "insert"
    <3>1. \/ Proceed(b)
          \/ job' = [job EXCEPT ![b].pc = "purge", ![b].row = None, ![b].seen = {}]
      BY <1>5 DEF Insert
    <3> QED
      BY <1>5, <3>1, ProceedSound, CommitSound DEF Insert, At, CountInv
  <2>2. /\ positions' \in [Rows \X Deals \X Proofs -> 0..2]
        /\ LockHeld' /\ HolderHasSeen' /\ RecordedOnce'
    BY <1>5, <2>1, CountInsert
  <2>3. status' = status \/ status' = [status EXCEPT ![job[b].p] = "done"]
    BY <1>5 DEF Insert
  <2>4. TypeOK'
    BY <1>5, <2>2, <2>3 DEF Insert, CountInv, TypeOK
  <2> QED
    BY <2>1, <2>2, <2>4 DEF CountInv
<1> QED
  BY <1>1, <1>2, <1>3, <1>4, <1>5 DEF MaterialiseStep

LEMMA CountStep == CountInv /\ [Next]_vars => CountInv'
<1> SUFFICES ASSUME CountInv, [Next]_vars PROVE CountInv'
  OBVIOUS
<1>1. ASSUME NEW p \in Proofs, MemberStep(p) PROVE CountInv'
  BY <1>1, MemberCount
<1>2. CASE Moderate
  <2>1. UNCHANGED <<positions, job>> /\ TypeOK'
    BY <1>2 DEF Moderate, CountInv, TypeOK, uploads, accounts
  <2> QED
    BY <2>1, JobsKept, CountKept DEF CountInv
<1>3. ASSUME NEW b \in Batches, Pull(b) PROVE CountInv'
  <2>1. UNCHANGED positions /\ TypeOK'
    BY <1>3 DEF Pull, CountInv, TypeOK, uploads, accounts
  <2>2. JobsOK' /\ \A c \in Batches : job'[c].pc = "insert" => job'[c] = job[c]
    BY <1>3, PullSound DEF CountInv
  <2> QED
    BY <2>1, <2>2, CountKept DEF CountInv
<1>4. ASSUME NEW b \in Batches, Post(b) PROVE CountInv'
  <2>1. UNCHANGED positions /\ TypeOK'
    BY <1>4 DEF Post, CountInv, TypeOK, uploads, accounts
  <2>2. JobsOK' /\ \A c \in Batches : job'[c].pc = "insert" => job'[c] = job[c]
    BY <1>4, PostSound DEF CountInv
  <2> QED
    BY <2>1, <2>2, CountKept DEF CountInv
<1>5. ASSUME NEW b \in Batches, EntryStep(b) PROVE CountInv'
  BY <1>5, EntryCount
<1>6. ASSUME NEW b \in Batches, MaterialiseStep(b) PROVE CountInv'
  BY <1>6, MaterialiseCount
<1>7. ASSUME NEW b \in Batches, MaterialiseFails(b) PROVE CountInv'
  <2>1. UNCHANGED positions /\ TypeOK'
    BY <1>7 DEF MaterialiseFails, CountInv, TypeOK, uploads, accounts
  <2>2. JobsOK' /\ \A c \in Batches : job'[c].pc = "insert" => job'[c] = job[c]
    BY <1>7, ProceedSound DEF CountInv, MaterialiseFails
  <2> QED
    BY <2>1, <2>2, CountKept DEF CountInv
<1>8. ASSUME NEW b \in Batches, FlipFails(b) PROVE CountInv'
  <2>1. UNCHANGED positions /\ TypeOK'
    BY <1>8 DEF FlipFails, CountInv, TypeOK, uploads, accounts
  <2>2. JobsOK' /\ \A c \in Batches : job'[c].pc = "insert" => job'[c] = job[c]
    <3>1. job' = [job EXCEPT ![b] = Idle]
      BY <1>8 DEF FlipFails
    <3> QED
      BY <3>1, StopSound, IdleReadsNothing DEF CountInv
  <2> QED
    BY <2>1, <2>2, CountKept DEF CountInv
<1>9. CASE Crash
  <2>1. UNCHANGED positions /\ TypeOK'
    BY <1>9 DEF Crash, CountInv, TypeOK, accounts
  <2>2. JobsOK' /\ \A c \in Batches : job'[c].pc = "insert" => job'[c] = job[c]
    BY <1>9, CrashSound DEF CountInv, Idle
  <2> QED
    BY <2>1, <2>2, CountKept DEF CountInv
<1>10. CASE UNCHANGED vars
  <2>1. UNCHANGED <<positions, job>> /\ TypeOK'
    BY <1>10 DEF vars, CountInv, TypeOK, uploads, accounts
  <2> QED
    BY <2>1, JobsKept, CountKept DEF CountInv
<1> QED
  BY <1>1, <1>2, <1>3, <1>4, <1>5, <1>6, <1>7, <1>8, <1>9, <1>10 DEF Next, BatchStep

LEMMA CountAlways == Spec => []CountInv
BY CountInit, CountStep, PTL DEF Spec

\* Every variable keeps its type, however the posts overlap.
THEOREM TypeCorrect == Spec => []TypeOK
<1>1. CountInv => TypeOK
  BY DEF CountInv
<1> QED
  BY <1>1, CountAlways, PTL

\* A position is recorded once for its capture and a ticket once for its
\* account, however many posts of the same captures overlap or are retried.
THEOREM CountedOnce == Spec => []RealityCountedOnce
<1>1. ASSUME CountInv PROVE RealityCountedOnce
  <2> SUFFICES ASSUME NEW a \in Rows, NEW d \in Deals
               PROVE  /\ \A p \in Proofs : positions[<<a, d, p>>] <= 1
                      /\ d \in Ticketed => Cardinality({p \in Proofs : positions[<<a, d, p>>] > 0}) <= 1
    BY Zenon DEF RealityCountedOnce
  <2>1. \A p \in Proofs : positions[<<a, d, p>>] <= 1
    BY <1>1 DEF CountInv, RecordedOnce, Recorded
  <2>2. ASSUME d \in Ticketed
        PROVE  Cardinality({p \in Proofs : positions[<<a, d, p>>] > 0}) <= 1
    <3> DEFINE S == {p \in Proofs : positions[<<a, d, p>>] > 0}
    <3>1. \A p, q \in S : p = q
      BY <1>1, <2>2 DEF CountInv, RecordedOnce, Recorded
    <3> HIDE DEF S
    <3>2. Cardinality(S) <= 1
      <4>1. CASE S = {}
        BY <4>1, FS_EmptySet
      <4>2. CASE S # {}
        <5>1. PICK p : p \in S
          BY <4>2
        <5>2. S = {p}
          BY <3>1, <5>1
        <5>3. Cardinality({p}) = 1
          BY FS_Singleton
        <5> QED
          BY <5>2, <5>3
      <4> QED
        BY <4>1, <4>2
    <3> QED
      BY <3>2 DEF S
  <2> QED
    BY <2>1, <2>2
<1> QED
  BY <1>1, CountAlways, PTL

(* ------------------------------------------------------------------ *)
(* Accounts                                                            *)
(* ------------------------------------------------------------------ *)
\* Captures attached to one declared account show one login.
AttachmentsAgree ==
    \A p, q \in Proofs : AttachedTo[p] # None /\ AttachedTo[p] = AttachedTo[q] => LoginOf[p] = LoginOf[q]

\* A row is only ever given the login it was meant for.
LoginsAsMeant ==
    /\ \A p \in Proofs : AttachedTo[p] # None => login[AttachedTo[p]] \in {None, LoginOf[p]}
    /\ \A l \in Logins : login[l] \in {"absent", l}

\* The row a post has looked up has the login of its capture.
RowsLookedUp ==
    \A b \in Batches : job[b].pc \in {"lookup", "insert"} => login[job[b].row] = LoginOf[job[b].p]

RecordedUnderLogin ==
    \A a \in Rows, d \in Deals, p \in Proofs : Recorded(a, d, p) > 0 => login[a] = LoginOf[p]

LoginInv == LoginsAsMeant /\ RowsLookedUp /\ RecordedUnderLogin

LEMMA LoginInit == Init => LoginInv
<1> SUFFICES ASSUME Init PROVE LoginInv
  OBVIOUS
<1>1. LoginsAsMeant
  BY CapturesAssumption DEF Init, LoginsAsMeant, Rows
<1>2. RowsLookedUp
  BY DEF Init, RowsLookedUp, Idle
<1>3. RecordedUnderLogin
  BY DEF Init, RecordedUnderLogin, Recorded
<1> QED
  BY <1>1, <1>2, <1>3 DEF LoginInv

\* As long as no login is written and no look-up made, nothing is at stake.
LEMMA LoginKept ==
    ASSUME LoginInv, UNCHANGED <<login, positions>>,
           \A b \in Batches : job'[b].pc \in {"lookup", "insert"} =>
               \/ job'[b] = job[b]
               \/ login[job'[b].row] = LoginOf[job'[b].p]
    PROVE  LoginInv'
BY DEF LoginInv, LoginsAsMeant, RowsLookedUp, RecordedUnderLogin, Recorded

\* No row that has a login gets another.
LEMMA LoginStays ==
    ASSUME CountInv, LoginInv, AttachmentsAgree, NEW b \in Batches, Backfill(b) \/ CreateAccount(b)
    PROVE  /\ \A a \in Rows : login[a] \in Logins => login'[a] = login[a]
           /\ LoginsAsMeant'
<1> DEFINE p == job[b].p
<1>1. p \in Proofs /\ LoginOf[p] \in Logins /\ job[b].pc \in {"backfill", "create"}
  BY RowsWritten DEF CountInv, Backfill, CreateAccount, At
<1>2. CASE Backfill(b)
  <2>1. AttachedTo[p] \in DeclaredAccounts
    BY <1>2, RowsWritten DEF CountInv, Backfill
  <2>2. login' = login \/ login' = [login EXCEPT ![AttachedTo[p]] = LoginOf[p]]
    BY <1>2, <1>1, <2>1, AssignSound DEF Backfill, CountInv, Rows
  <2>3. AttachedTo[p] # None /\ AttachedTo[p] \notin Logins
    BY <2>1, CapturesAssumption DEF Rows
  <2>4. login[AttachedTo[p]] \in {None, LoginOf[p]} /\ None \notin Logins
    BY <1>1, <2>3, CapturesAssumption DEF LoginInv, LoginsAsMeant, Rows
  <2>5. login \in [Rows -> Logins \cup {None, "absent"}]
    BY DEF CountInv, TypeOK
  <2>6. LoginsAsMeant
    BY DEF LoginInv
  <2>7. \A q \in Proofs : AttachedTo[q] # None => AttachedTo[q] \in Rows
    BY CapturesAssumption DEF Rows
  <2> HIDE DEF p
  <2>8. \A a \in Rows : login[a] \in Logins => login'[a] = login[a]
    BY <2>2, <2>4, <2>5
  <2>9. LoginsAsMeant'
    BY <1>1, <2>1, <2>2, <2>3, <2>5, <2>6, <2>7 DEF LoginsAsMeant, AttachmentsAgree, Rows
  <2> QED
    BY <2>8, <2>9
<1>3. CASE CreateAccount(b)
  <2> DEFINE l == LoginOf[p]
  <2>1. l \in Rows /\ l \notin DeclaredAccounts
    BY <1>1, CapturesAssumption DEF Rows
  <2>2. login' = login \/ login' = [login EXCEPT ![l] = l]
    BY <1>3, <1>1, <2>1, AssignSound DEF CreateAccount, CountInv
  <2>3. login[l] \in {"absent", l} /\ "absent" \notin Logins
    BY <1>1, CapturesAssumption DEF LoginInv, LoginsAsMeant
  <2>4. login \in [Rows -> Logins \cup {None, "absent"}]
    BY DEF CountInv, TypeOK
  <2>5. LoginsAsMeant
    BY DEF LoginInv
  <2>6. \A q \in Proofs : AttachedTo[q] # None => AttachedTo[q] \in DeclaredAccounts
    BY CapturesAssumption
  <2> HIDE DEF l, p
  <2>7. \A a \in Rows : login[a] \in Logins => login'[a] = login[a]
    BY <2>2, <2>3, <2>4
  <2>8. LoginsAsMeant'
    BY <2>1, <2>2, <2>4, <2>5, <2>6 DEF LoginsAsMeant, Rows
  <2> QED
    BY <2>7, <2>8
<1> QED
  BY <1>2, <1>3

LEMMA AccountWritten ==
    ASSUME CountInv, LoginInv, AttachmentsAgree, NEW b \in Batches, Backfill(b) \/ CreateAccount(b)
    PROVE  LoginInv'
<1>1. /\ \A a \in Rows : login[a] \in Logins => login'[a] = login[a]
      /\ LoginsAsMeant'
  BY LoginStays
<1>2. job[b].p \in Proofs /\ LoginOf[job[b].p] \in Logins /\ job[b].pc \in {"backfill", "create"}
  BY RowsWritten DEF CountInv, Backfill, CreateAccount, At
<1>3. PICK row \in Rows : Assign(b, row, LoginOf[job[b].p])
  BY <1>2, RowsWritten DEF CountInv, Backfill, CreateAccount, Rows
<1>4. /\ \A c \in Batches \ {b} : job'[c] = job[c]
      /\ job'[b].p = job[b].p
      /\ login'[job'[b].row] = LoginOf[job[b].p]
  BY <1>2, <1>3, AssignSound DEF CountInv
<1>5. RowsLookedUp'
  <2> SUFFICES ASSUME NEW c \in Batches, job'[c].pc \in {"lookup", "insert"}
               PROVE  login'[job'[c].row] = LoginOf[job'[c].p]
    BY DEF RowsLookedUp
  <2>1. CASE c = b
    BY <1>4, <2>1
  <2>2. CASE c # b
    <3>1. job'[c] = job[c] /\ login[job[c].row] = LoginOf[job[c].p]
      BY <1>4, <2>2 DEF LoginInv, RowsLookedUp
    <3>2. job[c].row \in Rows /\ LoginOf[job[c].p] \in Logins
      BY <3>1, CapturesAssumption DEF CountInv, JobsOK, Jobs, Sound
    <3> QED
      BY <1>1, <3>1, <3>2
  <2> QED
    BY <2>1, <2>2
<1>6. RecordedUnderLogin'
  <2>1. \A p \in Proofs : LoginOf[p] \in Logins
    BY CapturesAssumption
  <2>2. UNCHANGED positions
    BY DEF Backfill, CreateAccount
  <2> QED
    BY <1>1, <2>1, <2>2 DEF LoginInv, RecordedUnderLogin, Recorded
<1> QED
  BY <1>1, <1>5, <1>6 DEF LoginInv

LEMMA LoginInsert ==
    ASSUME CountInv, LoginInv, NEW b \in Batches, Insert(b)
    PROVE  LoginInv'
<1>1. /\ \A c \in Batches \ {b} : job'[c] = job[c]
      /\ job'[b].pc \notin {"lookup", "insert"}
  <2>1. \/ Proceed(b)
        \/ job' = [job EXCEPT ![b].pc = "purge", ![b].row = None, ![b].seen = {}]
    BY DEF Insert
  <2> QED
    BY <2>1, ProceedSound, CommitSound DEF Insert, At, CountInv
<1>2. UNCHANGED login
  BY DEF Insert
<1>3. LoginsAsMeant' /\ RowsLookedUp'
  BY <1>1, <1>2 DEF LoginInv, LoginsAsMeant, RowsLookedUp
<1>4. RecordedUnderLogin'
  <2> SUFFICES ASSUME NEW a \in Rows, NEW d \in Deals, NEW p \in Proofs,
                      positions'[<<a, d, p>>] > 0
               PROVE  login[a] = LoginOf[p]
    BY <1>2 DEF RecordedUnderLogin, Recorded
  <2>1. \/ positions'[<<a, d, p>>] = positions[<<a, d, p>>]
        \/ a = job[b].row /\ p = job[b].p
    <3>1. <<a, d, p>> \in DOMAIN positions
      BY DEF CountInv, TypeOK
    <3> QED
      BY <3>1 DEF Insert
  <2>2. login[job[b].row] = LoginOf[job[b].p]
    BY DEF Insert, At, LoginInv, RowsLookedUp
  <2> QED
    BY <2>1, <2>2 DEF LoginInv, RecordedUnderLogin, Recorded
<1> QED
  BY <1>3, <1>4 DEF LoginInv

LEMMA LoginStep ==
    ASSUME AttachmentsAgree PROVE CountInv /\ LoginInv /\ [Next]_vars => LoginInv'
<1> SUFFICES ASSUME CountInv, LoginInv, [Next]_vars PROVE LoginInv'
  OBVIOUS
<1> USE DEF CountInv
<1>1. ASSUME NEW p \in Proofs, MemberStep(p) PROVE LoginInv'
  <2>1. UNCHANGED <<job, positions, login>>
    BY <1>1 DEF MemberStep, Store, CreateProof, CreateFails, DeleteRow, DeleteScreen, Forget, accounts, uploads
  <2> QED
    BY <2>1, LoginKept
<1>2. CASE Moderate
  BY <1>2, LoginKept DEF Moderate, accounts
<1>3. ASSUME NEW b \in Batches, Pull(b) PROVE LoginInv'
  BY <1>3, PullSound, LoginKept DEF Pull, accounts
<1>4. ASSUME NEW b \in Batches, Post(b) PROVE LoginInv'
  BY <1>4, PostSound, LoginKept DEF Post, accounts
<1>5. ASSUME NEW b \in Batches, EntryStep(b) PROVE LoginInv'
  <2>1. UNCHANGED <<login, positions>>
    BY <1>5 DEF EntryStep, Skip, Unreadable, Invalid, Extraction, LogInvalid, GiveUp, Purge, accounts
  <2>2. ASSUME NEW p \in Proofs, Skip(b, p) PROVE LoginInv'
    BY <2>1, <2>2, SkipSound, LoginKept
  <2>3. ASSUME NEW p \in job[b].todo, job[b].pc \notin {"idle", "reading"}, Fail(b, p) PROVE LoginInv'
    BY <2>1, <2>3, FailSound, LoginKept DEF Idle
  <2>4. ASSUME NEW p \in Proofs, Unreadable(b, p) PROVE LoginInv'
    BY <2>3, <2>4 DEF Unreadable, At
  <2>5. ASSUME NEW p \in Proofs, Invalid(b, p) PROVE LoginInv'
    BY <2>1, <2>5, ReadingSound, LoginKept
  <2>6. ASSUME NEW p \in Proofs, Extraction(b, p) PROVE LoginInv'
    BY <2>1, <2>6, ExtractionSound, LoginKept
  <2>7. ASSUME Proceed(b), job[b].pc \notin {"idle", "reading"} PROVE LoginInv'
    BY <2>1, <2>7, ProceedSound, LoginKept
  <2>8. CASE LogInvalid(b)
    <3>1. CASE job' = [job EXCEPT ![b].pc = "flip", ![b].n = 0]
      BY <2>1, <2>8, <3>1, FlipSound, LoginKept DEF LogInvalid
    <3> QED
      BY <2>7, <2>8, <3>1 DEF LogInvalid, At
  <2>9. CASE GiveUp(b)
    BY <2>3, <2>9 DEF GiveUp, At, JobsOK, Sound
  <2>10. CASE Purge(b)
    BY <2>7, <2>10 DEF Purge, At
  <2> QED
    BY <1>5, <2>2, <2>4, <2>5, <2>6, <2>8, <2>9, <2>10 DEF EntryStep
<1>6. ASSUME NEW b \in Batches, MaterialiseStep(b) PROVE LoginInv'
  <2>1. CASE ReadDeclared(b)
    BY <2>1, DeclaredSound, LoginKept DEF ReadDeclared, accounts
  <2>2. CASE Lookup(b)
    <3>1. UNCHANGED <<login, positions>>
      BY <2>2 DEF Lookup, accounts
    <3>2. login[job'[b].row] = LoginOf[job'[b].p]
      BY <2>2, LookupSound DEF Lookup, At, LoginInv, RowsLookedUp
    <3> QED
      BY <2>2, <3>1, <3>2, LookupSound, LoginKept
  <2> QED
    BY <1>6, <2>1, <2>2, AccountWritten, LoginInsert DEF MaterialiseStep
<1>7. ASSUME NEW b \in Batches, MaterialiseFails(b) PROVE LoginInv'
  BY <1>7, ProceedSound, LoginKept DEF MaterialiseFails, accounts
<1>8. ASSUME NEW b \in Batches, FlipFails(b) PROVE LoginInv'
  <2>1. job' = [job EXCEPT ![b] = Idle] /\ UNCHANGED <<login, positions>>
    BY <1>8 DEF FlipFails, accounts
  <2> QED
    BY <2>1, StopSound, LoginKept DEF Idle
<1>9. CASE Crash
  <2>1. UNCHANGED <<login, positions>>
    BY <1>9 DEF Crash, accounts
  <2> QED
    BY <1>9, <2>1, CrashSound, LoginKept DEF Idle
<1>10. CASE UNCHANGED vars
  BY <1>10, LoginKept DEF vars, accounts
<1> QED
  BY <1>1, <1>2, <1>3, <1>4, <1>5, <1>6, <1>7, <1>8, <1>9, <1>10 DEF Next, BatchStep

\* As long as the captures attached to one declared account show the same
\* login, positions stand under the login their capture shows, whoever wins the
\* races to declare, create and backfill.
THEOREM UnderTheirLogin ==
    ASSUME AttachmentsAgree PROVE Spec => []PositionsUnderTheirLogin
<1>1. CountInv /\ LoginInv => PositionsUnderTheirLogin
  <2> SUFFICES ASSUME LoginInv, NEW a \in Rows, NEW p \in Proofs, NEW d \in Deals, positions[<<a, d, p>>] > 0
               PROVE  login[a] = LoginOf[p]
    BY Zenon DEF PositionsUnderTheirLogin
  <2> QED
    BY DEF LoginInv, RecordedUnderLogin, Recorded
<1>2. Spec => []LoginInv
  BY CountAlways, LoginInit, LoginStep, PTL DEF Spec
<1> QED
  BY <1>1, <1>2, CountAlways, PTL

(* ------------------------------------------------------------------ *)
(* Screens                                                             *)
(* ------------------------------------------------------------------ *)
\* A request at work says how far its capture is.
RequestsKnown ==
    \A p \in Proofs :
        /\ handler[p] = "storing" => status[p] = "absent" /\ stored[p]
        /\ handler[p] = "removing" => status[p] = "deleted"

\* A batch has entries of captures that exist, and what it read of a removed
\* screen is still true.
EntriesKnown ==
    \A b \in Batches : \A p \in job[b].todo :
        /\ status[p] # "absent"
        /\ job[b].pc \notin {"idle", "reading"} /\ job[b].snap[p].purged => ~stored[p]

\* Only a capture that is settled is about to lose its screen.
PurgesSettled ==
    \A b \in Batches : At(b, "purge") => status[job[b].p] \in {"done", "failed", "deleted"}

ScreenInv == RequestsKnown /\ EntriesKnown /\ PurgesSettled /\ ScreenFollowsVerdict

LEMMA ScreenInit == Init => ScreenInv
<1> SUFFICES ASSUME Init PROVE ScreenInv
  OBVIOUS
<1> QED
  BY DEF Init, ScreenInv, RequestsKnown, EntriesKnown, PurgesSettled, ScreenFollowsVerdict, Idle, At

\* What the member does changes no job.
LEMMA MemberScreen ==
    ASSUME CountInv, ScreenInv, NEW p \in Proofs, MemberStep(p)
    PROVE  ScreenInv'
<1> USE DEF ScreenInv, RequestsKnown, EntriesKnown, PurgesSettled, ScreenFollowsVerdict, Removing, At
<1>1. /\ status \in [Proofs -> Statuses]
      /\ stored \in [Proofs -> BOOLEAN]
      /\ handler \in [Proofs -> {"none", "storing", "removing"}]
      /\ \A b \in Batches : job[b].todo \subseteq Proofs
      /\ \A b \in Batches : job[b].pc = "purge" => job[b].p \in Proofs
  BY DEF CountInv, TypeOK, Statuses, JobsOK, Jobs, Sound
<1>2. CASE Store(p)
  BY <1>1, <1>2 DEF Store
<1>3. CASE CreateProof(p)
  BY <1>1, <1>3 DEF CreateProof
<1>4. CASE CreateFails(p)
  BY <1>1, <1>4 DEF CreateFails
<1>5. CASE DeleteRow(p)
  BY <1>1, <1>5 DEF DeleteRow
<1>6. CASE DeleteScreen(p)
  BY <1>1, <1>6 DEF DeleteScreen
<1>7. CASE Forget(p)
  BY <1>7 DEF Forget, uploads
<1> QED
  BY <1>2, <1>3, <1>4, <1>5, <1>6, <1>7 DEF MemberStep

\* Steps that touch neither row nor screen, and end no removal.
LEMMA ScreenKept ==
    ASSUME ScreenInv, UNCHANGED <<status, stored, handler>>, strays \subseteq strays',
           \A b \in Batches :
               /\ At(b, "purge") \/ At(b, "purge")' => job'[b] = job[b]
               /\ \A p \in job'[b].todo :
                     /\ p \in job[b].todo
                     /\ job'[b].pc \notin {"idle", "reading"} =>
                          job[b].pc \notin {"idle", "reading"} /\ job'[b].snap[p] = job[b].snap[p]
    PROVE  ScreenInv'
<1>1. RequestsKnown'
  BY DEF ScreenInv, RequestsKnown
<1>2. EntriesKnown'
  BY DEF ScreenInv, EntriesKnown
<1>3. PurgesSettled'
  BY DEF ScreenInv, PurgesSettled, At
<1>4. ScreenFollowsVerdict'
  <2> SUFFICES ASSUME NEW p \in Proofs, stored[p], status[p] # "pending", p \notin strays'
               PROVE  Removing(p)'
    BY DEF ScreenInv, ScreenFollowsVerdict
  <2>1. Removing(p)
    BY DEF ScreenInv, ScreenFollowsVerdict
  <2> QED
    BY <2>1 DEF Removing, At
<1> QED
  BY <1>1, <1>2, <1>3, <1>4 DEF ScreenInv

\* A capture that gets its verdict goes on to the removal of its screen.
LEMMA ScreenSettled ==
    ASSUME CountInv, ScreenInv, NEW b \in Batches, NEW p \in job[b].todo,
           NEW v \in {"done", "failed"}, status[p] # "deleted",
           status' = [status EXCEPT ![p] = v], UNCHANGED <<stored, handler, strays>>,
           job[b].pc \notin {"idle", "reading", "purge"},
           \A c \in Batches \ {b} : job'[c] = job[c],
           job'[b].pc = "purge", job'[b].p = p,
           job'[b].todo = job[b].todo, job'[b].snap = job[b].snap
    PROVE  ScreenInv'
<1>1. /\ status \in [Proofs -> Statuses] /\ p \in Proofs
      /\ \A c \in Batches : job[c].todo \subseteq Proofs
      /\ \A c \in Batches : job[c].pc = "purge" => job[c].p \in Proofs
  BY DEF CountInv, TypeOK, Statuses, JobsOK, Jobs, Sound
<1>2. status[p] \notin {"absent", "deleted"}
  BY DEF ScreenInv, EntriesKnown
<1>3. RequestsKnown'
  BY <1>1, <1>2 DEF ScreenInv, RequestsKnown
<1>4. EntriesKnown'
  <2> SUFFICES ASSUME NEW c \in Batches, NEW q \in job'[c].todo
               PROVE  /\ status'[q] # "absent"
                      /\ job'[c].pc \notin {"idle", "reading"} /\ job'[c].snap[q].purged => ~stored[q]
    BY DEF EntriesKnown
  <2>1. /\ q \in job[c].todo /\ job'[c].snap = job[c].snap
        /\ job'[c].pc \notin {"idle", "reading"} => job[c].pc \notin {"idle", "reading"}
    BY <1>1
  <2> QED
    BY <1>1, <1>2, <2>1 DEF ScreenInv, EntriesKnown
<1>5. PurgesSettled'
  BY <1>1 DEF ScreenInv, PurgesSettled, At
<1>6. ScreenFollowsVerdict'
  <2>1. Removing(p)'
    BY DEF Removing, At
  <2>2. \A q \in Proofs \ {p} : status'[q] = status[q] /\ (Removing(q) => Removing(q)')
    BY <1>1 DEF Removing, At
  <2>3. status'[p] # "pending"
    BY <1>1
  <2> QED
    BY <2>1, <2>2, <2>3 DEF ScreenInv, ScreenFollowsVerdict
<1> QED
  BY <1>3, <1>4, <1>5, <1>6 DEF ScreenInv

LEMMA ScreenFail ==
    ASSUME CountInv, ScreenInv, NEW b \in Batches, NEW p \in job[b].todo,
           job[b].pc \notin {"idle", "reading", "purge"}, Fail(b, p),
           UNCHANGED <<stored, handler, strays>>
    PROVE  ScreenInv'
<1>1. CASE status[p] = "deleted"
  <2>1. job'[b] = Idle /\ UNCHANGED status /\ \A c \in Batches \ {b} : job'[c] = job[c]
    BY <1>1, FailSound DEF CountInv
  <2>2. \A c \in Batches :
          /\ At(c, "purge") \/ At(c, "purge")' => job'[c] = job[c]
          /\ \A q \in job'[c].todo : job'[c] = job[c]
    BY <2>1, IdleReadsNothing DEF At
  <2> QED
    BY <2>1, <2>2, ScreenKept
<1>2. CASE status[p] # "deleted"
  BY <1>2, FailSound, ScreenSettled DEF CountInv
<1> QED
  BY <1>1, <1>2

\* The removal itself: gone, found gone, or on the list of those cut short.
LEMMA ScreenPurge ==
    ASSUME CountInv, ScreenInv, NEW b \in Batches, Purge(b)
    PROVE  ScreenInv'
<1> DEFINE p == job[b].p
<1>1. /\ p \in job[b].todo /\ p \in Proofs /\ job[b].pc = "purge"
      /\ \A c \in Batches : job[c].todo \subseteq Proofs
      /\ stored \in [Proofs -> BOOLEAN]
  BY DEF CountInv, TypeOK, JobsOK, Jobs, Sound, Purge, At
<1>2. /\ \A c \in Batches \ {b} : job'[c] = job[c]
      /\ job'[b].todo = job[b].todo \ {p}
      /\ job'[b].pc \in {"idle", "entry"}
      /\ \A q \in job'[b].todo : job'[b].snap[q] = job[b].snap[q]
  BY <1>1, ProceedSound DEF Purge, CountInv
<1>3. /\ stored' = stored \/ stored' = [stored EXCEPT ![p] = FALSE]
      /\ strays \subseteq strays'
      /\ UNCHANGED <<status, handler>>
      /\ ~stored'[p] \/ p \in strays'
  <2>1. NothingToPurge(b, p) => ~stored[p]
    BY <1>1 DEF ScreenInv, EntriesKnown, NothingToPurge, Seen
  <2> QED
    BY <1>1, <2>1 DEF Purge
<1>4. \A q \in Proofs : stored'[q] => stored[q]
  BY <1>1, <1>3
<1>5. status[p] \in {"done", "failed", "deleted"}
  BY <1>1 DEF ScreenInv, PurgesSettled, At
<1> HIDE DEF p
<1>6. RequestsKnown'
  BY <1>1, <1>3, <1>5 DEF ScreenInv, RequestsKnown
<1>7. EntriesKnown'
  <2> SUFFICES ASSUME NEW c \in Batches, NEW q \in job'[c].todo
               PROVE  /\ status[q] # "absent"
                      /\ job'[c].pc \notin {"idle", "reading"} /\ job'[c].snap[q].purged => ~stored'[q]
    BY <1>3 DEF EntriesKnown
  <2>1. /\ q \in job[c].todo /\ q \in Proofs /\ job'[c].snap[q] = job[c].snap[q]
        /\ job'[c].pc \notin {"idle", "reading"} => job[c].pc \notin {"idle", "reading"}
    BY <1>1, <1>2
  <2> QED
    BY <1>4, <2>1 DEF ScreenInv, EntriesKnown
<1>8. PurgesSettled'
  BY <1>2, <1>3 DEF ScreenInv, PurgesSettled, At
<1>9. ScreenFollowsVerdict'
  <2>1. \A q \in Proofs \ {p} : Removing(q) => Removing(q)'
    BY <1>1, <1>2, <1>3 DEF Removing, At, p
  <2>2. \A q \in Proofs : status[q] = "pending" => stored'[q]
    BY <1>1, <1>3, <1>5 DEF ScreenInv, ScreenFollowsVerdict
  <2> QED
    BY <1>3, <1>4, <2>1, <2>2 DEF ScreenInv, ScreenFollowsVerdict
<1> QED
  BY <1>6, <1>7, <1>8, <1>9 DEF ScreenInv

LEMMA ScreenPull ==
    ASSUME CountInv, ScreenInv, NEW b \in Batches, Pull(b)
    PROVE  ScreenInv'
<1>1. /\ \A c \in Batches \ {b} : job'[c] = job[c]
      /\ job'[b].pc = "reading" /\ job'[b].todo = Pending
  BY PullSound DEF CountInv
<1>2. job[b].pc = "idle" /\ UNCHANGED <<status, stored, handler, strays>>
  BY DEF Pull, At, uploads
<1>3. RequestsKnown' /\ PurgesSettled'
  BY <1>1, <1>2 DEF ScreenInv, RequestsKnown, PurgesSettled, At
<1>4. EntriesKnown'
  BY <1>1, <1>2 DEF ScreenInv, EntriesKnown, Pending
<1>5. \A p \in Proofs : Removing(p) => Removing(p)'
  BY <1>1, <1>2 DEF Removing, At
<1> QED
  BY <1>2, <1>3, <1>4, <1>5 DEF ScreenInv, ScreenFollowsVerdict

LEMMA ScreenPost ==
    ASSUME CountInv, ScreenInv, NEW b \in Batches, Post(b)
    PROVE  ScreenInv'
<1>1. /\ \A c \in Batches \ {b} : job'[c] = job[c]
      /\ job'[b].todo = job[b].todo
      /\ job'[b].pc \in {"idle", "entry"}
      /\ \A p \in job'[b].todo : job'[b].snap[p] = Snapshot[p]
  BY PostSound DEF CountInv
<1>2. job[b].pc = "reading" /\ UNCHANGED <<status, stored, handler, strays>>
  BY DEF Post, At, uploads
<1>3. RequestsKnown' /\ PurgesSettled'
  BY <1>1, <1>2 DEF ScreenInv, RequestsKnown, PurgesSettled, At
<1>4. EntriesKnown'
  <2>1. \A p \in job[b].todo : Snapshot[p].purged => ~stored[p]
    BY DEF CountInv, JobsOK, Jobs, Snapshot, Purged
  <2> QED
    BY <1>1, <1>2, <2>1 DEF ScreenInv, EntriesKnown
<1>5. \A p \in Proofs : Removing(p) => Removing(p)'
  BY <1>1, <1>2 DEF Removing, At
<1> QED
  BY <1>2, <1>3, <1>5, <1>4 DEF ScreenInv, ScreenFollowsVerdict

\* The process is replaced: every screen it left behind is known.
LEMMA ScreenCrash ==
    ASSUME CountInv, ScreenInv, Crash
    PROVE  ScreenInv'
<1>1. \A b \in Batches : (job'[b] = job[b] /\ job[b].pc = "reading") \/ job'[b] = Idle
  BY CrashSound DEF CountInv, At
<1>2. /\ UNCHANGED <<status, stored>>
      /\ handler' = [p \in Proofs |-> "none"]
      /\ strays' = strays \cup {p \in Proofs : stored[p] /\ status[p] # "pending"}
  BY DEF Crash
<1>3. RequestsKnown'
  BY <1>2 DEF RequestsKnown
<1>4. EntriesKnown' /\ PurgesSettled'
  BY <1>1, <1>2, IdleReadsNothing DEF ScreenInv, EntriesKnown, PurgesSettled, At
<1>5. ScreenFollowsVerdict'
  BY <1>2 DEF ScreenInv, ScreenFollowsVerdict
<1> QED
  BY <1>3, <1>4, <1>5 DEF ScreenInv

LEMMA ScreenEntry ==
    ASSUME CountInv, ScreenInv, NEW b \in Batches, EntryStep(b)
    PROVE  ScreenInv'
<1> USE DEF CountInv
<1>1. ASSUME NEW p \in Proofs, Skip(b, p) PROVE ScreenInv'
  <2>1. UNCHANGED <<status, stored, handler, strays>> /\ job[b].pc = "entry"
    BY <1>1 DEF Skip, At, uploads
  <2> QED
    BY <1>1, <2>1, SkipSound, ScreenKept DEF At
<1>2. ASSUME NEW p \in Proofs, Unreadable(b, p) PROVE ScreenInv'
  BY <1>2, ScreenFail DEF Unreadable, At
<1>3. ASSUME NEW p \in Proofs, Invalid(b, p) PROVE ScreenInv'
  <2>1. UNCHANGED <<status, stored, handler, strays>> /\ job[b].pc = "entry"
    BY <1>3 DEF Invalid, At, uploads
  <2> QED
    BY <1>3, <2>1, ReadingSound, ScreenKept DEF At
<1>4. ASSUME NEW p \in Proofs, Extraction(b, p) PROVE ScreenInv'
  <2>1. UNCHANGED <<status, stored, handler, strays>> /\ job[b].pc = "entry"
    BY <1>4 DEF Extraction, At, uploads
  <2> QED
    BY <1>4, <2>1, ExtractionSound, ScreenKept DEF At
<1>5. CASE LogInvalid(b)
  <2>1. UNCHANGED <<status, stored, handler, strays>> /\ job[b].pc = "log"
    BY <1>5 DEF LogInvalid, At, uploads
  <2>2. CASE job' = [job EXCEPT ![b].pc = "flip", ![b].n = 0]
    BY <2>1, <2>2, FlipSound, ScreenKept DEF At
  <2>3. CASE Proceed(b)
    BY <2>1, <2>3, ProceedSound, ScreenKept DEF At
  <2> QED
    BY <1>5, <2>2, <2>3 DEF LogInvalid
<1>6. CASE GiveUp(b)
  BY <1>6, ScreenFail DEF GiveUp, At, JobsOK, Sound
<1>7. CASE Purge(b)
  BY <1>7, ScreenPurge
<1> QED
  BY <1>1, <1>2, <1>3, <1>4, <1>5, <1>6, <1>7 DEF EntryStep

LEMMA ScreenMaterialise ==
    ASSUME CountInv, ScreenInv, NEW b \in Batches, MaterialiseStep(b)
    PROVE  ScreenInv'
<1> USE DEF CountInv
<1>1. CASE ReadDeclared(b)
  <2>1. UNCHANGED <<status, stored, handler, strays>> /\ job[b].pc = "declared"
    BY <1>1 DEF ReadDeclared, At, uploads
  <2> QED
    BY <1>1, <2>1, DeclaredSound, ScreenKept DEF At
<1>2. CASE Backfill(b) \/ CreateAccount(b)
  <2>1. UNCHANGED <<status, stored, handler, strays>> /\ job[b].pc \in {"backfill", "create"}
    BY <1>2 DEF Backfill, CreateAccount, At, uploads
  <2>2. PICK row \in Rows : Assign(b, row, LoginOf[job[b].p])
    BY <1>2, RowsWritten DEF Backfill, CreateAccount, At, Rows
  <2>3. LoginOf[job[b].p] \in Logins
    BY <2>1, RowsWritten
  <2>4. /\ \A c \in Batches \ {b} : job'[c] = job[c]
        /\ job'[b].pc = "lookup"
        /\ job'[b].todo = job[b].todo /\ job'[b].snap = job[b].snap
    BY <2>1, <2>2, <2>3, AssignSound
  <2> QED
    BY <2>1, <2>4, ScreenKept DEF At
<1>3. CASE Lookup(b)
  <2>1. UNCHANGED <<status, stored, handler, strays>> /\ job[b].pc = "lookup"
    BY <1>3 DEF Lookup, At, uploads
  <2> QED
    BY <1>3, <2>1, LookupSound, ScreenKept DEF At
<1>4. CASE Insert(b)
  <2>1. UNCHANGED <<stored, handler, strays>> /\ job[b].pc = "insert"
    BY <1>4 DEF Insert, At
  <2>2. job[b].p \in job[b].todo
    BY <2>1 DEF JobsOK, Sound
  <2>3. CASE status[job[b].p] = "deleted"
    <3>1. Proceed(b) /\ UNCHANGED status
      BY <1>4, <2>3 DEF Insert
    <3> QED
      BY <2>1, <3>1, ProceedSound, ScreenKept DEF At
  <2>4. CASE status[job[b].p] # "deleted"
    <3>1. /\ status' = [status EXCEPT ![job[b].p] = "done"]
          /\ job' = [job EXCEPT ![b].pc = "purge", ![b].row = None, ![b].seen = {}]
      BY <1>4, <2>4 DEF Insert
    <3>2. /\ \A c \in Batches \ {b} : job'[c] = job[c]
          /\ job'[b].pc = "purge" /\ job'[b].p = job[b].p
          /\ job'[b].todo = job[b].todo /\ job'[b].snap = job[b].snap
      BY <1>4, <3>1, CommitSound DEF Insert
    <3> QED
      BY <2>1, <2>2, <2>4, <3>1, <3>2, ScreenSettled
  <2> QED
    BY <2>3, <2>4
<1> QED
  BY <1>1, <1>2, <1>3, <1>4 DEF MaterialiseStep

LEMMA ScreenStep == CountInv /\ ScreenInv /\ [Next]_vars => ScreenInv'
<1> SUFFICES ASSUME CountInv, ScreenInv, [Next]_vars PROVE ScreenInv'
  OBVIOUS
<1>1. CASE Moderate
  BY <1>1, ScreenKept DEF Moderate, uploads
<1>2. ASSUME NEW b \in Batches, MaterialiseFails(b) PROVE ScreenInv'
  <2>1. UNCHANGED <<status, stored, handler, strays>> /\ job[b].pc \notin {"idle", "reading", "purge"}
    BY <1>2 DEF MaterialiseFails, uploads
  <2> QED
    BY <1>2, <2>1, ProceedSound, ScreenKept DEF At, CountInv, MaterialiseFails
<1>3. ASSUME NEW b \in Batches, FlipFails(b) PROVE ScreenInv'
  <2>1. /\ UNCHANGED <<status, stored, handler, strays>> /\ job[b].pc = "flip"
        /\ job' = [job EXCEPT ![b] = Idle]
    BY <1>3 DEF FlipFails, At, uploads
  <2> QED
    BY <2>1, StopSound, IdleReadsNothing, ScreenKept DEF At, CountInv
<1>4. CASE UNCHANGED vars
  BY <1>4, ScreenKept DEF vars, uploads
<1> QED
  BY <1>1, <1>2, <1>3, <1>4, MemberScreen, ScreenPull, ScreenPost, ScreenEntry, ScreenMaterialise, ScreenCrash
  DEF Next, BatchStep

\* A capture that waits to be read has its screen; one that is settled loses
\* it, unless the step that removes it was cut short.
THEOREM ScreenFollows == Spec => []ScreenFollowsVerdict
<1>1. Spec => []ScreenInv
  BY CountAlways, ScreenInit, ScreenStep, PTL DEF Spec
<1>2. ScreenInv => ScreenFollowsVerdict
  BY DEF ScreenInv
<1> QED
  BY <1>1, <1>2, PTL

-----------------------------------------------------------------------------
(* The alerts a batch raises once it has read a proof (RepetitionAlerts).   *)

(* ------------------------------------------------------------------ *)
(* What a scan may count on                                            *)
(* ------------------------------------------------------------------ *)
\* A scan at the dispatch of an alert, and a scan that still has rules.
OnRule(s) == scan[s].pc \in {"pick", "deliver", "mark"}
HasRules(s) == ScanAt(s, "rules") \/ OnRule(s)

\* The alert it dispatches, and those it found open, exist.
ScanRows ==
    \A s \in Scans :
        /\ OnRule(s) => alert[scan[s].rule] # NoAlert
        /\ HasRules(s) => \A w \in scan[s].todo : w.seen = "open" => alert[w.rule] # NoAlert

\* A scan that looks at alerts began today or yesterday; no alert and no gap
\* is of a day to come.
ScanDays ==
    /\ \A s \in Scans : scan[s].pc \notin {"idle", "gaps"} =>
                          scan[s].now <= today /\ today <= scan[s].now + 1
    /\ \A r \in Rules : alert[r] # NoAlert => alert[r].day <= today
    /\ \A g \in DOMAIN gaps : gaps[g].day <= today

\* The member has had a card of the rule's category on that day.
HasCard(r, day) == \E c \in sent : c.card \in ToSet(CardsOf[r]) /\ c.day = day

\* The card in hand is one of the rule's; before the alert is marked the
\* member has one.
ScanCards ==
    \A s \in Scans :
        /\ ScanAt(s, "deliver") => scan[s].card \in ToSet(CardsOf[scan[s].rule])
        /\ ScanAt(s, "mark") => HasCard(scan[s].rule, scan[s].now)

\* The pattern of a rule repeats, or has repeated, within a window.
Lapsed(r, d) == {g \in DOMAIN gaps : /\ gaps[g].rule = r
                                     /\ gaps[g].day \in (d - Window)..d}
Repeats(r) == \E d \in Days : Cardinality(Lapsed(r, d)) >= Threshold[r]

\* Every rule a scan still looks at repeats.
OnlyRepeated ==
    \A s \in Scans :
        /\ ScanAt(s, "alerts") => \A r \in scan[s].over : Repeats(r)
        /\ HasRules(s) => \A w \in scan[s].todo : Repeats(w.rule)
        /\ OnRule(s) => Repeats(scan[s].rule)

(* ------------------------------------------------------------------ *)
(* The records of the scans                                            *)
(* ------------------------------------------------------------------ *)
\* What a scan has in hand, by where it is.
LEMMA ScanRecords ==
  ASSUME ScansAssumption, AlertTypeOK, NEW s \in Scans
  PROVE  /\ scan[s] \in AlertScans \cup NudgeScans
         /\ scan[s].pc \notin {"idle", "gaps"} => scan[s].now \in Days
         /\ ScanAt(s, "alerts") => scan[s].over \in SUBSET Rules
         /\ scan[s].pc \in {"rules", "pick", "deliver", "mark"} => scan[s].todo \in Works
         /\ scan[s].pc \in {"pick", "deliver", "mark"} => scan[s].rule \in Rules
         /\ ScanAt(s, "deliver") => scan[s].card \in Cards
         /\ ScanAt(s, "count") => scan[s].fresh \in SUBSET (1..MaxGaps)
         /\ ScanAt(s, "gaps") => scan[s].todo \in SUBSET (1..MaxGaps)
         /\ scan[s].pc \in {"nudge", "count", "gaps"} => s = Cron
<1>1. scan[s] \in AlertScans \cup NudgeScans /\ (s # Cron => scan[s] \in AlertScans)
  BY DEF AlertTypeOK, Scans
<1>2. CASE scan[s] \in AlertScans
  BY <1>2 DEF AlertScans, ScanAt, NoScan
<1>3. CASE scan[s] \notin AlertScans
  BY <1>1, <1>3 DEF NudgeScans, ScanAt
<1>4. QED  BY <1>2, <1>3

\* What is left after a rule is again a place of that scan.
LEMMA RulesAhead ==
  ASSUME ScansAssumption, NEW s \in Scans, scan[s].now \in Days, NEW todo \in Works
  PROVE  /\ WithRules(s, todo) \in AlertScans \cup NudgeScans
         /\ s \in BatchScans => WithRules(s, todo) \in AlertScans
         /\ AfterRules(s) \in AlertScans \cup NudgeScans
         /\ s \in BatchScans => AfterRules(s) \in AlertScans
  BY DEF WithRules, AfterRules, AlertScans, NudgeScans, NoScan, ScansAssumption

LEMMA GapsAhead ==
  ASSUME NEW gs \in SUBSET (1..MaxGaps)
  PROVE  WithGaps(gs) \in AlertScans \cup NudgeScans
  BY DEF WithGaps, AlertScans, NudgeScans, NoScan

\* One scan moves to another place.
LEMMA OneScanMoves ==
  ASSUME AlertTypeOK, NEW s \in Scans, NEW x \in AlertScans \cup NudgeScans,
         s \in BatchScans => x \in AlertScans,
         scan' = [scan EXCEPT ![s] = x]
  PROVE  /\ scan' \in [Scans -> AlertScans \cup NudgeScans]
         /\ \A b \in BatchScans : scan'[b] \in AlertScans
  BY DEF AlertTypeOK, Scans

\* A gap changes in place.
LEMMA GapChanges ==
  ASSUME NEW S, NEW q \in Seq(S), NEW g \in DOMAIN q, NEW x \in S
  PROVE  /\ [q EXCEPT ![g] = x] \in Seq(S)
         /\ Len([q EXCEPT ![g] = x]) = Len(q)
         /\ DOMAIN [q EXCEPT ![g] = x] = DOMAIN q
  OBVIOUS

\* The least of a set of naturals.
LEMMA LeastExists ==
  ASSUME NEW S \in SUBSET Nat, S # {}
  PROVE  \E i \in S : \A j \in S : i <= j
<1>1. PICK i \in S : \A j \in S : <<j, i>> \notin OpToRel(<, Nat)
  BY NatLessThanWellFounded, WFMin, Zenon
<1>2. i \in Nat /\ \A j \in S : j \in Nat /\ ~(j < i)
  BY <1>1, Zenon DEF OpToRel
<1>3. QED  BY <1>2

\* The chosen card is one of the rule's cards.
LEMMA ChoiceIsACard ==
  ASSUME RulesAssumption, NEW r \in Rules, CardsOf[r] # <<>>, NEW now
  PROVE  Choice(CardsOf[r], now) \in ToSet(CardsOf[r]) /\ Choice(CardsOf[r], now) \in Cards
<1> DEFINE cards == CardsOf[r]
           fresh == {i \in DOMAIN cards : \A d \in Recent(now) : d.card # cards[i]}
<1>1. cards \in Seq(Cards)
  BY DEF RulesAssumption
<1>2. DOMAIN cards = 1..Len(cards) /\ Len(cards) \in Nat /\ 1 \in DOMAIN cards
  BY <1>1
<1>3. fresh # {} => (CHOOSE i \in fresh : \A j \in fresh : i <= j) \in DOMAIN cards
  <2>1. SUFFICES ASSUME fresh # {}
                 PROVE  \E i \in fresh : \A j \in fresh : i <= j
    OBVIOUS
  <2>2. fresh \in SUBSET Nat
    BY <1>2
  <2>3. QED  BY <2>1, <2>2, LeastExists
<1>4. PICK i \in DOMAIN cards : Choice(cards, now) = cards[i]
  BY <1>2, <1>3 DEF Choice
<1>5. Choice(cards, now) \in ToSet(cards)
  BY <1>4 DEF ToSet
<1>6. ToSet(cards) \subseteq Cards
  BY DEF Cards
<1>7. QED  BY <1>5, <1>6

(* ------------------------------------------------------------------ *)
(* Types                                                               *)
(* ------------------------------------------------------------------ *)
LEMMA AlertTypeStep ==
  ASSUME RulesAssumption, ScansAssumption, AlertBoundsAssumption, AlertTypeOK, ScanRows,
         [AlertNext]_alertVars
  PROVE  AlertTypeOK'
<1> USE DEF AlertTypeOK
<1> DEFINE Places == AlertScans \cup NudgeScans
<1>1. ASSUME NEW s \in Scans, Start(s)  PROVE AlertTypeOK'
  <2>1. today \in Days /\ Repeated(today) \in SUBSET Rules
    BY DEF Repeated
  <2>2. [pc |-> "alerts", now |-> today, over |-> Repeated(today)] \in AlertScans
    BY <2>1 DEF AlertScans
  <2>3. scan' = [scan EXCEPT ![s] = [pc |-> "alerts", now |-> today, over |-> Repeated(today)]]
    BY <1>1 DEF Start
  <2>4. scan' \in [Scans -> Places] /\ \A b \in BatchScans : scan'[b] \in AlertScans
    BY <2>2, <2>3, OneScanMoves
  <2>5. QED  BY <2>4, <1>1 DEF Start
<1>2. ASSUME NEW s \in Scans, ReadAlerts(s)  PROVE AlertTypeOK'
  <2> DEFINE now == scan[s].now
             todo == {[rule |-> r, seen |-> SeenAs(r, now)] :
                         r \in {q \in scan[s].over : SeenAs(q, now) \in {"none", "open"}}}
  <2>1. todo \in Works
    BY <1>2, ScanRecords DEF Works, ReadAlerts
  <2>2. scan' = [scan EXCEPT ![s] = WithRules(s, todo)]
    BY <1>2 DEF ReadAlerts
  <2>3. now \in Days
    BY <1>2, ScanRecords DEF ReadAlerts, ScanAt
  <2> HIDE DEF todo
  <2>4. WithRules(s, todo) \in Places /\ (s \in BatchScans => WithRules(s, todo) \in AlertScans)
    BY <2>1, <2>3, RulesAhead
  <2>5. scan' \in [Scans -> Places] /\ \A b \in BatchScans : scan'[b] \in AlertScans
    BY <2>2, <2>4, OneScanMoves
  <2>6. QED  BY <2>5, <1>2 DEF ReadAlerts
<1>3. ASSUME NEW s \in Scans, Raise(s)  PROVE AlertTypeOK'
  <2>1. PICK w \in scan[s].todo :
          /\ IsNext(s, w)
          /\ \/ /\ w.seen = "open"
                /\ scan' = [scan EXCEPT ![s] = Dispatching(s, w)]
                /\ UNCHANGED alert
             \/ /\ w.seen = "none" /\ alert[w.rule] = NoAlert
                /\ alert' = [alert EXCEPT ![w.rule] = [day |-> today, status |-> "open"]]
                /\ scan' = [scan EXCEPT ![s] = Dispatching(s, w)]
             \/ /\ w.seen = "none" /\ alert[w.rule] # NoAlert
                /\ scan' = [scan EXCEPT ![s] = WithRules(s, scan[s].todo \ {w})]
                /\ UNCHANGED alert
    BY <1>3 DEF Raise
  <2>2. scan[s].todo \in Works /\ scan[s].now \in Days
    BY <1>3, ScanRecords DEF Raise, ScanAt
  <2>3. w.rule \in Rules /\ scan[s].todo \ {w} \in Works
    BY <2>2 DEF Works
  <2>4. Dispatching(s, w) \in AlertScans
    BY <2>2, <2>3 DEF Dispatching, AlertScans
  <2>5. WithRules(s, scan[s].todo \ {w}) \in Places
        /\ (s \in BatchScans => WithRules(s, scan[s].todo \ {w}) \in AlertScans)
    BY <2>2, <2>3, RulesAhead
  <2>6. scan' \in [Scans -> Places] /\ \A b \in BatchScans : scan'[b] \in AlertScans
    BY <2>1, <2>4, <2>5, OneScanMoves
  <2>7. alert' \in [Rules -> AlertRows \cup {NoAlert}]
    BY <2>1, <2>3 DEF AlertRows
  <2>8. QED  BY <2>6, <2>7, <1>3 DEF Raise
<1>4. ASSUME NEW s \in Scans, Pick(s)  PROVE AlertTypeOK'
  <2> DEFINE now == scan[s].now
             cards == CardsOf[scan[s].rule]
             x == IF Capped(now) \/ cards = <<>> THEN NextRule(s)
                  ELSE [pc |-> "deliver", now |-> now, rule |-> scan[s].rule,
                        todo |-> scan[s].todo, card |-> Choice(cards, now)]
  <2>1. scan[s].todo \in Works /\ scan[s].now \in Days /\ scan[s].rule \in Rules
    BY <1>4, ScanRecords DEF Pick, ScanAt
  <2>2. NextRule(s) \in Places /\ (s \in BatchScans => NextRule(s) \in AlertScans)
    BY <2>1, RulesAhead DEF NextRule
  <2>3. cards # <<>> => Choice(cards, now) \in Cards
    BY <2>1, ChoiceIsACard
  <2>4. x \in Places /\ (s \in BatchScans => x \in AlertScans)
    BY <2>1, <2>2, <2>3 DEF AlertScans
  <2>5. scan' = [scan EXCEPT ![s] = x]
    BY <1>4 DEF Pick
  <2> HIDE DEF x
  <2>6. scan' \in [Scans -> Places] /\ \A b \in BatchScans : scan'[b] \in AlertScans
    BY <2>4, <2>5, OneScanMoves
  <2>7. QED  BY <2>6, <1>4 DEF Pick
<1>5. ASSUME NEW s \in Scans, Deliver(s)  PROVE AlertTypeOK'
  <2> DEFINE d == [day |-> scan[s].now, card |-> scan[s].card, alert |-> scan[s].rule]
             x == [pc |-> "mark", now |-> scan[s].now, rule |-> scan[s].rule, todo |-> scan[s].todo]
  <2>1. /\ scan[s].todo \in Works /\ scan[s].now \in Days
        /\ scan[s].rule \in Rules /\ scan[s].card \in Cards
    BY <1>5, ScanRecords DEF Deliver, ScanAt
  <2>2. x \in AlertScans
    BY <2>1 DEF AlertScans
  <2>3. d \in [day : Days, card : Cards, alert : Rules \cup {NoAlert}]
    BY <2>1
  <2>4. scan' = [scan EXCEPT ![s] = x] /\ (sent' = sent \/ sent' = sent \cup {d})
    BY <1>5 DEF Deliver
  <2> HIDE DEF d, x
  <2>5. scan' \in [Scans -> Places] /\ \A b \in BatchScans : scan'[b] \in AlertScans
    BY <2>2, <2>4, OneScanMoves
  <2>6. QED  BY <2>3, <2>4, <2>5, <1>5 DEF Deliver
<1>6. ASSUME NEW s \in Scans, DeliverFails(s)  PROVE AlertTypeOK'
  <2>1. scan[s].todo \in Works /\ scan[s].now \in Days
    BY <1>6, ScanRecords DEF DeliverFails, ScanAt
  <2>2. NextRule(s) \in Places /\ (s \in BatchScans => NextRule(s) \in AlertScans)
    BY <2>1, RulesAhead DEF NextRule
  <2>3. scan' = [scan EXCEPT ![s] = NextRule(s)]
    BY <1>6 DEF DeliverFails
  <2>4. scan' \in [Scans -> Places] /\ \A b \in BatchScans : scan'[b] \in AlertScans
    BY <2>2, <2>3, OneScanMoves
  <2>5. QED  BY <2>4, <1>6 DEF DeliverFails, AlertBoundsAssumption
<1>7. ASSUME NEW s \in Scans, Mark(s)  PROVE AlertTypeOK'
  <2>1. scan[s].todo \in Works /\ scan[s].now \in Days /\ scan[s].rule \in Rules
    BY <1>7, ScanRecords DEF Mark, ScanAt
  <2>2. NextRule(s) \in Places /\ (s \in BatchScans => NextRule(s) \in AlertScans)
    BY <2>1, RulesAhead DEF NextRule
  <2>3. scan' = [scan EXCEPT ![s] = NextRule(s)]
    BY <1>7 DEF Mark
  <2>4. scan' \in [Scans -> Places] /\ \A b \in BatchScans : scan'[b] \in AlertScans
    BY <2>2, <2>3, OneScanMoves
  <2>5. alert' \in [Rules -> AlertRows \cup {NoAlert}]
    <3>1. alert[scan[s].rule] \in AlertRows
      BY <1>7, <2>1 DEF Mark, ScanAt, ScanRows, OnRule
    <3>2. [alert[scan[s].rule] EXCEPT !.status = "delivered"] \in AlertRows
      BY <3>1 DEF AlertRows
    <3>3. alert' = [alert EXCEPT ![scan[s].rule] =
                      [alert[scan[s].rule] EXCEPT !.status = "delivered"]]
      BY <1>7 DEF Mark
    <3>4. QED  BY <3>2, <3>3
  <2>6. QED  BY <2>4, <2>5, <1>7 DEF Mark

<1>8. ASSUME ReadFresh  PROVE AlertTypeOK'
  <2> DEFINE new == {g \in Unexcused(scan[Cron].now) : ~gaps[g].nudged}
             x == IF new = {} THEN NoScan ELSE [pc |-> "count", now |-> scan[Cron].now, fresh |-> new]
  <2>1. Cron \in Scans /\ Cron \notin BatchScans /\ scan[Cron].now \in Days
    BY <1>8, ScanRecords DEF ReadFresh, ScanAt, Scans, ScansAssumption
  <2>2. new \in SUBSET (1..MaxGaps)
    BY DEF Unexcused, AlertBoundsAssumption
  <2>3. scan' = [scan EXCEPT ![Cron] = x]
    BY <1>8 DEF ReadFresh
  <2> HIDE DEF new
  <2>4. x \in Places
    BY <2>1, <2>2 DEF AlertScans, NudgeScans, NoScan
  <2> HIDE DEF x
  <2>5. scan' \in [Scans -> Places] /\ \A b \in BatchScans : scan'[b] \in AlertScans
    BY <2>1, <2>3, <2>4, OneScanMoves
  <2>6. QED  BY <2>5, <1>8 DEF ReadFresh
<1>9. ASSUME CountAll  PROVE AlertTypeOK'
  <2> DEFINE isolated == {g \in scan[Cron].fresh : gaps[g].rule \notin Repeated(scan[Cron].now)}
  <2>1. Cron \in Scans /\ Cron \notin BatchScans /\ scan[Cron].fresh \in SUBSET (1..MaxGaps)
    BY <1>9, ScanRecords DEF CountAll, Scans, ScansAssumption
  <2>2. isolated \in SUBSET (1..MaxGaps)
    BY <2>1
  <2>3. scan' = [scan EXCEPT ![Cron] = WithGaps(isolated)]
    BY <1>9 DEF CountAll
  <2> HIDE DEF isolated
  <2>4. WithGaps(isolated) \in Places
    BY <2>2, GapsAhead
  <2>5. scan' \in [Scans -> Places] /\ \A b \in BatchScans : scan'[b] \in AlertScans
    BY <2>1, <2>3, <2>4, OneScanMoves
  <2>6. QED  BY <2>5, <1>9 DEF CountAll
<1>10. ASSUME Nudge  PROVE AlertTypeOK'
  <2>1. PICK g \in DOMAIN gaps :
          /\ IsOldest(g)
          /\ gaps' = [gaps EXCEPT ![g].nudged = TRUE]
          /\ scan' = [scan EXCEPT ![Cron] = WithGaps(scan[Cron].todo \ {g})]
    BY <1>10 DEF Nudge
  <2>2. Cron \in Scans /\ Cron \notin BatchScans /\ scan[Cron].todo \in SUBSET (1..MaxGaps)
    BY <2>1, ScanRecords DEF IsOldest, Scans, ScansAssumption
  <2>3. WithGaps(scan[Cron].todo \ {g}) \in Places
    BY <2>2, GapsAhead
  <2>4. scan' \in [Scans -> Places] /\ \A b \in BatchScans : scan'[b] \in AlertScans
    BY <2>1, <2>2, <2>3, OneScanMoves
  <2>5. gaps[g] \in Lapses
    OBVIOUS
  <2>6. [gaps[g] EXCEPT !.nudged = TRUE] \in Lapses
    BY <2>5 DEF Lapses
  <2>7. gaps' = [gaps EXCEPT ![g] = [gaps[g] EXCEPT !.nudged = TRUE]]
    BY <2>1
  <2>8. gaps' \in Seq(Lapses) /\ Len(gaps') = Len(gaps)
    BY <2>6, <2>7, GapChanges
  <2>9. QED  BY <2>4, <2>8, <1>10 DEF Nudge
<1>11. ASSUME NudgeFails  PROVE AlertTypeOK'
  <2>1. PICK g \in DOMAIN gaps :
          IsOldest(g) /\ scan' = [scan EXCEPT ![Cron] = WithGaps(scan[Cron].todo \ {g})]
    BY <1>11 DEF NudgeFails
  <2>2. Cron \in Scans /\ Cron \notin BatchScans /\ scan[Cron].todo \in SUBSET (1..MaxGaps)
    BY <2>1, ScanRecords DEF IsOldest, Scans, ScansAssumption
  <2>3. WithGaps(scan[Cron].todo \ {g}) \in Places
    BY <2>2, GapsAhead
  <2>4. scan' \in [Scans -> Places] /\ \A b \in BatchScans : scan'[b] \in AlertScans
    BY <2>1, <2>2, <2>3, OneScanMoves
  <2>5. QED  BY <2>4, <1>11 DEF NudgeFails, AlertBoundsAssumption
<1>12. ASSUME NEW s \in Scans, Abort(s)  PROVE AlertTypeOK'
  <2>1. CASE scan' = [scan EXCEPT ![s] = NoScan]
    <3>1. NoScan \in AlertScans
      BY DEF AlertScans
    <3>2. scan' \in [Scans -> Places] /\ \A b \in BatchScans : scan'[b] \in AlertScans
      BY <2>1, <3>1, OneScanMoves
    <3>3. QED  BY <3>2, <1>12 DEF Abort, AlertBoundsAssumption
  <2>2. CASE /\ scan[s].pc \in {"alerts", "rules", "pick", "deliver", "mark"}
             /\ scan' = [scan EXCEPT ![s] = AfterRules(s)]
    <3>1. scan[s].now \in Days
      BY <2>2, ScanRecords
    <3>2. AfterRules(s) \in Places /\ (s \in BatchScans => AfterRules(s) \in AlertScans)
      BY <3>1, RulesAhead DEF Works
    <3>3. scan' \in [Scans -> Places] /\ \A b \in BatchScans : scan'[b] \in AlertScans
      BY <2>2, <3>2, OneScanMoves
    <3>4. QED  BY <3>3, <1>12 DEF Abort, AlertBoundsAssumption
  <2>3. QED  BY <1>12, <2>1, <2>2 DEF Abort
<1>13. ASSUME NEW r \in Rules, Detect(r)  PROVE AlertTypeOK'
  <2> DEFINE x == [rule |-> r, day |-> today, settled |-> FALSE, nudged |-> FALSE]
  <2>1. x \in Lapses
    BY DEF Lapses
  <2>2. gaps' = Append(gaps, x)
    BY <1>13 DEF Detect
  <2> HIDE DEF x
  <2>3. gaps' \in Seq(Lapses) /\ Len(gaps') = Len(gaps) + 1
    BY <2>1, <2>2
  <2>4. QED  BY <2>3, <1>13 DEF Detect, AlertBoundsAssumption
<1>14. ASSUME NEW g \in DOMAIN gaps, Settle(g)  PROVE AlertTypeOK'
  <2>1. gaps[g] \in Lapses
    OBVIOUS
  <2>2. [gaps[g] EXCEPT !.settled = TRUE] \in Lapses
    BY <2>1 DEF Lapses
  <2>3. gaps' = [gaps EXCEPT ![g] = [gaps[g] EXCEPT !.settled = TRUE]]
    BY <1>14 DEF Settle
  <2>4. gaps' \in Seq(Lapses) /\ Len(gaps') = Len(gaps)
    BY <2>2, <2>3, GapChanges
  <2>5. QED  BY <2>4, <1>14 DEF Settle
<1>15. ASSUME NEW c \in Cards, Routine(c)  PROVE AlertTypeOK'
  BY <1>15 DEF Routine
<1>16. ASSUME Tick  PROVE AlertTypeOK'
  BY <1>16 DEF Tick, Days, AlertBoundsAssumption
<1>17. ASSUME UNCHANGED alertVars  PROVE AlertTypeOK'
  BY <1>17 DEF alertVars
<1>18. Cron \in Scans /\ BatchScans \subseteq Scans
  BY DEF Scans
<1>19. QED
  BY <1>1, <1>2, <1>3, <1>4, <1>5, <1>6, <1>7, <1>8, <1>9, <1>10, <1>11, <1>12,
     <1>13, <1>14, <1>15, <1>16, <1>17, <1>18 DEF AlertNext, CronStep, AlertStep

\* No alert ever goes, so what a scan has found stays found.
LEMMA AlertsStand ==
  ASSUME RulesAssumption, ScansAssumption, AlertBoundsAssumption, AlertTypeOK, ScanRows,
         [AlertNext]_alertVars,
         NEW r \in Rules, alert[r] # NoAlert
  PROVE  alert'[r] # NoAlert
<1>1. alert \in [Rules -> AlertRows \cup {NoAlert}] /\ alert[r] \in AlertRows
  BY DEF AlertTypeOK
<1>2. CASE UNCHANGED alert
  BY <1>2
<1>3. ASSUME NEW s \in Scans, Raise(s)  PROVE alert'[r] # NoAlert
  BY <1>1, <1>3 DEF Raise
<1>4. ASSUME NEW s \in Scans, Mark(s)  PROVE alert'[r] # NoAlert
  <2>1. alert' = [alert EXCEPT ![scan[s].rule] =
                    [alert[scan[s].rule] EXCEPT !.status = "delivered"]]
    BY <1>4 DEF Mark
  <2>2. [alert[r] EXCEPT !.status = "delivered"] \in AlertRows
    BY <1>1 DEF AlertRows
  <2>3. NoAlert \notin AlertRows
    BY DEF ScansAssumption
  <2>4. QED  BY <1>1, <2>1, <2>2, <2>3
<1>5. QED
  BY <1>2, <1>3, <1>4 DEF AlertNext, CronStep, AlertStep, Start, ReadAlerts, Pick,
     Deliver, DeliverFails, ReadFresh, CountAll, Nudge, NudgeFails, Abort, Detect,
     Settle, Routine, Tick, alertVars, Scans

\* How a scan gets on in one step: it stays where it is, has done with the
\* alerts, starts, or has rules before it that it had, or has just found.
Proceeds(s) ==
    \/ scan'[s] = scan[s]
    \/ scan'[s].pc \in {"idle", "gaps"}
    \/ /\ scan'[s].pc \in {"nudge", "count"}
       /\ scan[s].pc \notin {"idle", "gaps"} /\ scan'[s].now = scan[s].now
    \/ /\ scan'[s] = [pc |-> "alerts", now |-> today, over |-> Repeated(today)]
       /\ UNCHANGED <<today, gaps>>
    \/ /\ scan'[s].pc = "rules" /\ scan'[s].now = scan[s].now
       /\ \/ /\ ScanAt(s, "alerts")
             /\ \A w \in scan'[s].todo : w.rule \in scan[s].over
                                         /\ w.seen = SeenAs(w.rule, scan[s].now)
          \/ HasRules(s) /\ scan'[s].todo \subseteq scan[s].todo
    \/ /\ scan'[s].pc \in {"pick", "deliver", "mark"} /\ scan'[s].now = scan[s].now
       /\ HasRules(s) /\ scan'[s].todo \subseteq scan[s].todo
       /\ \/ OnRule(s) /\ scan'[s].rule = scan[s].rule
          \/ \E w \in scan[s].todo :
                ScanAt(s, "rules") /\ scan'[s].rule = w.rule /\ alert'[w.rule] # NoAlert

LEMMA WithRulesIs ==
  ASSUME NEW s, NEW todo
  PROVE  \/ WithRules(s, todo) = NoScan
         \/ WithRules(s, todo) = [pc |-> "nudge", now |-> scan[s].now]
         \/ WithRules(s, todo) = [pc |-> "rules", now |-> scan[s].now, todo |-> todo]
  BY DEF WithRules, AfterRules

LEMMA ScanStep ==
  ASSUME RulesAssumption, ScansAssumption, AlertBoundsAssumption, AlertTypeOK, ScanRows,
         [AlertNext]_alertVars,
         NEW s \in Scans
  PROVE  Proceeds(s)
<1>0. scan \in [Scans -> AlertScans \cup NudgeScans] /\ Cron \in Scans
  BY DEF AlertTypeOK, Scans
<1>1. ASSUME NEW t \in Scans, NEW x, scan' = [scan EXCEPT ![t] = x]
      PROVE  scan'[t] = x /\ (t # s => Proceeds(s))
  BY <1>0, <1>1 DEF Proceeds
<1>2. ASSUME Start(s)  PROVE Proceeds(s)
  <2>1. scan'[s] = [pc |-> "alerts", now |-> today, over |-> Repeated(today)]
    BY <1>0, <1>2 DEF Start
  <2>2. QED  BY <2>1, <1>2 DEF Start, Proceeds
<1>3. ASSUME ReadAlerts(s)  PROVE Proceeds(s)
  <2> DEFINE now == scan[s].now
             todo == {[rule |-> r, seen |-> SeenAs(r, now)] :
                         r \in {q \in scan[s].over : SeenAs(q, now) \in {"none", "open"}}}
  <2>1. scan' = [scan EXCEPT ![s] = WithRules(s, todo)]
    BY <1>3 DEF ReadAlerts
  <2>2. \A w \in todo : w.rule \in scan[s].over /\ w.seen = SeenAs(w.rule, now)
    OBVIOUS
  <2> HIDE DEF todo
  <2>3. scan'[s] = WithRules(s, todo)
    BY <1>0, <2>1
  <2>4. \/ scan'[s].pc \in {"idle", "nudge"} /\ (scan'[s].pc = "nudge" => scan'[s].now = now)
        \/ scan'[s].pc = "rules" /\ scan'[s].now = now /\ scan'[s].todo = todo
    <3>1. \/ WithRules(s, todo) = NoScan
          \/ WithRules(s, todo) = [pc |-> "nudge", now |-> now]
          \/ WithRules(s, todo) = [pc |-> "rules", now |-> now, todo |-> todo]
      BY WithRulesIs
    <3>2. QED  BY <2>3, <3>1 DEF NoScan
  <2>5. ScanAt(s, "alerts")
    BY <1>3 DEF ReadAlerts
  <2>6. QED  BY <2>2, <2>4, <2>5 DEF Proceeds, ScanAt
<1>4. ASSUME Raise(s)  PROVE Proceeds(s)
  <2>1. PICK w \in scan[s].todo :
          /\ IsNext(s, w)
          /\ \/ /\ w.seen = "open"
                /\ scan' = [scan EXCEPT ![s] = Dispatching(s, w)]
                /\ UNCHANGED alert
             \/ /\ w.seen = "none" /\ alert[w.rule] = NoAlert
                /\ alert' = [alert EXCEPT ![w.rule] = [day |-> today, status |-> "open"]]
                /\ scan' = [scan EXCEPT ![s] = Dispatching(s, w)]
             \/ /\ w.seen = "none" /\ alert[w.rule] # NoAlert
                /\ scan' = [scan EXCEPT ![s] = WithRules(s, scan[s].todo \ {w})]
                /\ UNCHANGED alert
    BY <1>4 DEF Raise
  <2>2. ScanAt(s, "rules") /\ HasRules(s) /\ w.rule \in Rules
    BY <2>1, ScanRecords DEF IsNext, HasRules, Works, ScanAt
  <2>3. scan'[s] = Dispatching(s, w) => alert'[w.rule] # NoAlert
    <3>1. [day |-> today, status |-> "open"] \in AlertRows
      BY DEF AlertTypeOK, AlertRows
    <3>2. [day |-> today, status |-> "open"] # NoAlert
      BY <3>1 DEF ScansAssumption
    <3>3. w.seen = "open" => alert[w.rule] # NoAlert
      BY <2>2 DEF ScanRows
    <3>4. scan'[s] = Dispatching(s, w) \/ (w.seen = "none" /\ alert[w.rule] # NoAlert)
      BY <1>0, <2>1
    <3>5. QED  BY <2>1, <2>2, <3>2, <3>3, <3>4 DEF AlertTypeOK
  <2>4. scan'[s] = Dispatching(s, w) \/ scan'[s] = WithRules(s, scan[s].todo \ {w})
    BY <1>0, <2>1
  <2>5. CASE scan'[s] = Dispatching(s, w)
    <3>1. /\ scan'[s].pc = "pick" /\ scan'[s].now = scan[s].now /\ scan'[s].rule = w.rule
          /\ scan'[s].todo = scan[s].todo \ {w}
      BY <2>5 DEF Dispatching
    <3>2. QED  BY <2>2, <2>3, <2>5, <3>1 DEF Proceeds
  <2>6. CASE scan'[s] = WithRules(s, scan[s].todo \ {w})
    <3> DEFINE rest == scan[s].todo \ {w}
    <3>0. \/ WithRules(s, rest) = NoScan
          \/ WithRules(s, rest) = [pc |-> "nudge", now |-> scan[s].now]
          \/ WithRules(s, rest) = [pc |-> "rules", now |-> scan[s].now, todo |-> rest]
      BY WithRulesIs
    <3>1. scan'[s] = WithRules(s, rest)
      BY <2>6
    <3> HIDE DEF rest
    <3>2. \/ scan'[s].pc = "idle"
          \/ scan'[s].pc = "nudge" /\ scan'[s].now = scan[s].now
          \/ /\ scan'[s].pc = "rules" /\ scan'[s].now = scan[s].now
             /\ scan'[s].todo = rest
      BY <3>0, <3>1 DEF NoScan
    <3>3. QED  BY <2>2, <3>2 DEF Proceeds, ScanAt, rest
  <2>7. QED  BY <2>4, <2>5, <2>6
<1>5. ASSUME HasRules(s), scan' = [scan EXCEPT ![s] = NextRule(s)]  PROVE Proceeds(s)
  <2>1. scan'[s] = WithRules(s, scan[s].todo)
    BY <1>0, <1>5 DEF NextRule
  <2>2. QED  BY <1>5, <2>1, WithRulesIs DEF Proceeds, NoScan, HasRules, OnRule, ScanAt
<1>6. ASSUME NEW x, scan' = [scan EXCEPT ![s] = x], OnRule(s), x.pc \in {"deliver",
             "mark"},
             x.now = scan[s].now, x.rule = scan[s].rule, x.todo = scan[s].todo
      PROVE  Proceeds(s)
  <2>1. scan'[s] = x
    BY <1>0, <1>6
  <2>2. QED  BY <1>6, <2>1 DEF Proceeds, HasRules
<1>7. ASSUME Pick(s)  PROVE Proceeds(s)
  <2>1. OnRule(s) /\ HasRules(s)
    BY <1>7 DEF Pick, ScanAt, OnRule, HasRules
  <2>2. CASE scan' = [scan EXCEPT ![s] = NextRule(s)]
    BY <1>5, <2>1, <2>2
  <2>3. CASE scan' = [scan EXCEPT ![s] =
                        [pc |-> "deliver", now |-> scan[s].now, rule |-> scan[s].rule,
                         todo |-> scan[s].todo,
                         card |-> Choice(CardsOf[scan[s].rule], scan[s].now)]]
    BY <1>6, <2>1, <2>3
  <2>4. QED  BY <1>7, <2>2, <2>3 DEF Pick
<1>8. ASSUME Deliver(s)  PROVE Proceeds(s)
  BY <1>6, <1>8 DEF Deliver, ScanAt, OnRule
<1>9. ASSUME DeliverFails(s) \/ Mark(s)  PROVE Proceeds(s)
  BY <1>5, <1>9 DEF DeliverFails, Mark, ScanAt, OnRule, HasRules
<1>10. ASSUME ReadFresh \/ CountAll \/ Nudge \/ NudgeFails, s = Cron  PROVE Proceeds(s)
  <2>1. \/ \E gs : scan' = [scan EXCEPT ![s] = WithGaps(gs)]
        \/ scan' = [scan EXCEPT ![s] = NoScan]
        \/ \E new : ScanAt(s, "nudge")
                    /\ scan' = [scan EXCEPT ![s] = [pc |-> "count", now |-> scan[s].now, fresh |-> new]]
    BY <1>10 DEF ReadFresh, CountAll, Nudge, NudgeFails
  <2>2. QED  BY <1>0, <2>1 DEF WithGaps, NoScan, Proceeds, ScanAt
<1>11. ASSUME Abort(s)  PROVE Proceeds(s)
  <2>1. scan'[s] = NoScan
        \/ (scan[s].pc \in {"alerts", "rules", "pick", "deliver", "mark"} /\ scan'[s] = AfterRules(s))
    BY <1>0, <1>11 DEF Abort
  <2>2. QED  BY <2>1 DEF AfterRules, NoScan, Proceeds
<1>12. CASE UNCHANGED scan
  BY <1>12 DEF Proceeds
<1>13. ASSUME NEW t \in Scans, AlertStep(t) \/ DeliverFails(t) \/ Abort(t) 
       PROVE  Proceeds(s)
  <2>1. CASE t = s
    BY <1>2, <1>3, <1>4, <1>7, <1>8, <1>9, <1>11, <1>13, <2>1 DEF AlertStep
  <2>2. CASE t # s
    <3>1. \E x : scan' = [scan EXCEPT ![t] = x]
      BY <1>13 DEF AlertStep, Start, ReadAlerts, Raise, Pick, Deliver, DeliverFails,
         Mark, Abort
    <3>2. QED  BY <1>1, <2>2, <3>1
  <2>3. QED  BY <2>1, <2>2
<1>14. ASSUME ReadFresh \/ CountAll \/ Nudge \/ NudgeFails, s # Cron  PROVE Proceeds(s)
  <2>1. \E x : scan' = [scan EXCEPT ![Cron] = x]
    BY <1>14 DEF ReadFresh, CountAll, Nudge, NudgeFails
  <2>2. QED  BY <1>0, <1>1, <1>14, <2>1
<1>15. QED
  BY <1>0, <1>10, <1>12, <1>13, <1>14 DEF AlertNext, CronStep, Detect, Settle, Routine,
     Tick, alertVars, Scans

\* An alert appears open, of today, for a rule a scan has before it, and
\* keeps its day.
LEMMA AlertComes ==
  ASSUME RulesAssumption, ScansAssumption, AlertBoundsAssumption, AlertTypeOK, ScanRows,
         [AlertNext]_alertVars,
         NEW r \in Rules, alert[r] = NoAlert, alert'[r] # NoAlert
  PROVE  /\ alert'[r] = [day |-> today, status |-> "open"]
         /\ \E s \in Scans : HasRules(s) /\ \E w \in scan[s].todo : w.rule = r
<1>1. alert \in [Rules -> AlertRows \cup {NoAlert}]
  BY DEF AlertTypeOK
<1>2. CASE UNCHANGED alert
  BY <1>2
<1>3. ASSUME NEW s \in Scans, Raise(s)
      PROVE  /\ alert'[r] = [day |-> today, status |-> "open"]
             /\ HasRules(s) /\ \E w \in scan[s].todo : w.rule = r
  <2>1. PICK w \in scan[s].todo :
          /\ IsNext(s, w)
          /\ alert' \in {alert, [alert EXCEPT ![w.rule] = [day |-> today, status |-> "open"]]}
    BY <1>3 DEF Raise
  <2>2. w.rule = r /\ alert'[r] = [day |-> today, status |-> "open"]
    BY <1>1, <2>1
  <2>3. HasRules(s)
    BY <2>1 DEF IsNext, HasRules
  <2>4. QED  BY <2>2, <2>3
<1>4. ASSUME NEW s \in Scans, Mark(s)  PROVE FALSE
  <2>1. scan[s].rule # r
    BY <1>4 DEF Mark, ScanAt, OnRule, ScanRows
  <2>2. alert'[r] = alert[r]
    BY <1>1, <1>4, <2>1 DEF Mark
  <2>3. QED  BY <2>2
<1>5. QED
  BY <1>2, <1>3, <1>4 DEF AlertNext, CronStep, AlertStep, Start, ReadAlerts, Pick,
     Deliver, DeliverFails, ReadFresh, CountAll, Nudge, NudgeFails, Abort, Detect,
     Settle, Routine, Tick, alertVars, Scans

LEMMA AlertKeepsDay ==
  ASSUME RulesAssumption, ScansAssumption, AlertBoundsAssumption, AlertTypeOK, ScanRows,
         [AlertNext]_alertVars,
         NEW r \in Rules, alert[r] # NoAlert
  PROVE  /\ alert'[r].day = alert[r].day
         /\ alert'[r].status = alert[r].status \/ \E s \in Scans : Mark(s) /\ scan[s].rule = r
<1>1. alert \in [Rules -> AlertRows \cup {NoAlert}] /\ alert[r] \in AlertRows
  BY DEF AlertTypeOK
<1>2. CASE UNCHANGED alert
  BY <1>2
<1>3. ASSUME NEW s \in Scans, Raise(s)  PROVE alert'[r] = alert[r]
  <2>1. PICK w \in scan[s].todo :
          \/ alert' = alert
          \/ /\ alert[w.rule] = NoAlert
             /\ alert' = [alert EXCEPT ![w.rule] = [day |-> today, status |-> "open"]]
    BY <1>3 DEF Raise
  <2>2. QED  BY <1>1, <2>1
<1>4. ASSUME NEW s \in Scans, Mark(s)
      PROVE  alert'[r].day = alert[r].day /\ (scan[s].rule = r \/ alert'[r] = alert[r])
  <2>1. alert' = [alert EXCEPT ![scan[s].rule] =
                    [alert[scan[s].rule] EXCEPT !.status = "delivered"]]
    BY <1>4 DEF Mark
  <2>2. [alert[r] EXCEPT !.status = "delivered"].day = alert[r].day
    BY <1>1 DEF AlertRows
  <2>3. QED  BY <1>1, <2>1, <2>2
<1>5. QED
  BY <1>2, <1>3, <1>4 DEF AlertNext, CronStep, AlertStep, Start, ReadAlerts, Pick,
     Deliver, DeliverFails, ReadFresh, CountAll, Nudge, NudgeFails, Abort, Detect,
     Settle, Routine, Tick, alertVars, Scans

LEMMA RowsStep ==
  ASSUME RulesAssumption, ScansAssumption, AlertBoundsAssumption, AlertTypeOK, ScanRows,
         [AlertNext]_alertVars
  PROVE  ScanRows'
<1> SUFFICES ASSUME NEW s \in Scans
             PROVE  /\ OnRule(s)' => alert'[scan'[s].rule] # NoAlert
                    /\ HasRules(s)' =>
                         \A w \in scan'[s].todo : w.seen = "open" => alert'[w.rule] # NoAlert
  BY DEF ScanRows
<1>1. AlertTypeOK'
  BY AlertTypeStep
<1>2. \A r \in Rules : alert[r] # NoAlert => alert'[r] # NoAlert
  BY AlertsStand
<1>3. Proceeds(s)
  BY ScanStep
<1>4. OnRule(s) => alert[scan[s].rule] # NoAlert /\ scan[s].rule \in Rules
  BY ScanRecords DEF ScanRows, OnRule
<1>5. HasRules(s) => \A w \in scan[s].todo : /\ w.rule \in Rules
                                             /\ w.seen = "open" => alert[w.rule] # NoAlert
  BY ScanRecords DEF ScanRows, HasRules, OnRule, ScanAt, Works
<1>6. OnRule(s)' => alert'[scan'[s].rule] # NoAlert
  <2>1. OnRule(s)' => \/ OnRule(s) /\ scan'[s].rule = scan[s].rule
                      \/ alert'[scan'[s].rule] # NoAlert
    BY <1>3 DEF Proceeds, OnRule
  <2>2. QED  BY <1>2, <1>4, <2>1
<1>7. HasRules(s)' => \A w \in scan'[s].todo : w.seen = "open" => alert'[w.rule] # NoAlert
  <2>1. ASSUME ScanAt(s, "alerts"), NEW w, w.rule \in scan[s].over, w.seen = "open",
               w.seen = SeenAs(w.rule, scan[s].now)
        PROVE  alert'[w.rule] # NoAlert
    <3>1. w.rule \in Rules
      BY <2>1, ScanRecords
    <3>2. QED  BY <1>2, <2>1, <3>1 DEF SeenAs
  <2>2. HasRules(s)' =>
           \/ HasRules(s) /\ scan'[s].todo \subseteq scan[s].todo
           \/ /\ ScanAt(s, "alerts")
              /\ \A w \in scan'[s].todo : w.rule \in scan[s].over
                                          /\ w.seen = SeenAs(w.rule, scan[s].now)
    BY <1>3 DEF Proceeds, HasRules, OnRule, ScanAt
  <2>3. QED  BY <1>2, <1>5, <2>1, <2>2
<1>8. QED  BY <1>6, <1>7

\* A gap on record keeps its rule and its day.
LEMMA GapsStand ==
  ASSUME AlertTypeOK, [AlertNext]_alertVars
  PROVE  /\ DOMAIN gaps \subseteq DOMAIN gaps'
         /\ \A g \in DOMAIN gaps : gaps'[g].rule = gaps[g].rule /\ gaps'[g].day = gaps[g].day
         /\ \A g \in DOMAIN gaps' : g \in DOMAIN gaps \/ gaps'[g].day = today
<1>1. gaps \in Seq(Lapses)
  BY DEF AlertTypeOK
<1>2. CASE UNCHANGED gaps
  BY <1>2
<1>3. ASSUME NEW r \in Rules, Detect(r)
      PROVE  /\ DOMAIN gaps \subseteq DOMAIN gaps'
             /\ \A g \in DOMAIN gaps : gaps'[g] = gaps[g]
             /\ \A g \in DOMAIN gaps' : g \in DOMAIN gaps \/ gaps'[g].day = today
  <2> DEFINE x == [rule |-> r, day |-> today, settled |-> FALSE, nudged |-> FALSE]
  <2>1. gaps' = Append(gaps, x) /\ x.day = today
    BY <1>3 DEF Detect
  <2> HIDE DEF x
  <2>2. QED  BY <1>1, <2>1
<1>4. ASSUME NEW g \in DOMAIN gaps, Settle(g) \/ gaps' = [gaps EXCEPT ![g].nudged = TRUE]
      PROVE  /\ DOMAIN gaps = DOMAIN gaps'
             /\ \A h \in DOMAIN gaps : gaps'[h].rule = gaps[h].rule /\ gaps'[h].day = gaps[h].day
  <2>1. gaps[g] \in Lapses
    BY <1>1
  <2>2. PICK x : /\ gaps' = [gaps EXCEPT ![g] = x]
                 /\ x \in {[gaps[g] EXCEPT !.nudged = TRUE], [gaps[g] EXCEPT !.settled = TRUE]}
    BY <1>4 DEF Settle
  <2>3. x.rule = gaps[g].rule /\ x.day = gaps[g].day
    BY <2>1, <2>2 DEF Lapses
  <2>4. QED  BY <1>1, <2>2, <2>3
<1>5. QED
  BY <1>2, <1>3, <1>4 DEF AlertNext, CronStep, AlertStep, Start, ReadAlerts, Raise,
     Pick, Deliver, DeliverFails, Mark, ReadFresh, CountAll, Nudge, NudgeFails, Abort,
     Routine, Tick, alertVars

\* A part of a finite set is no larger.
LEMMA NoLarger ==
  ASSUME NEW S, IsFiniteSet(S), NEW T \in SUBSET S
  PROVE  Cardinality(T) \in Nat /\ Cardinality(S) \in Nat /\ Cardinality(T) <= Cardinality(S)
  BY FS_Subset, FS_CardinalityType

\* What has repeated has: gaps only come.
LEMMA RepeatsStand ==
  ASSUME RulesAssumption, AlertTypeOK, AlertTypeOK', [AlertNext]_alertVars,
         NEW r \in Rules, Repeats(r)
  PROVE  Repeats(r)'
<1>1. PICK d \in Days : Cardinality(Lapsed(r, d)) >= Threshold[r]
  BY DEF Repeats
<1>2. Lapsed(r, d) \subseteq Lapsed(r, d)'
  BY GapsStand DEF Lapsed
<1>3. Lapsed(r, d)' \subseteq 1..Len(gaps') /\ Len(gaps') \in Nat
  BY DEF Lapsed, AlertTypeOK
<1>4. IsFiniteSet(Lapsed(r, d)')
  <2>1. IsFiniteSet(1..Len(gaps'))
    BY <1>3, FS_Interval
  <2>2. QED  BY <1>3, <2>1, FS_Subset
<1>5. Cardinality(Lapsed(r, d)') >= Threshold[r]
  BY <1>1, <1>2, <1>4, NoLarger DEF RulesAssumption
<1>6. QED  BY <1>5 DEF Repeats

\* What a scan finds repeated repeats: a gap within the window of today, and
\* of no later day, is of the days the pattern is about.
LEMMA FoundRepeats ==
  ASSUME RulesAssumption, AlertBoundsAssumption, AlertTypeOK, ScanDays,
         NEW r \in Repeated(today)
  PROVE  Repeats(r)
<1> DEFINE found == {g \in Unexcused(today) : gaps[g].rule = r}
<1>1. r \in Rules /\ Cardinality(found) >= Threshold[r]
  BY DEF Repeated
<1>2. today \in Nat /\ \A g \in DOMAIN gaps : gaps[g].day \in Nat
  <2>1. \A g \in DOMAIN gaps : gaps[g] \in Lapses
    BY DEF AlertTypeOK
  <2>2. QED  BY <2>1 DEF AlertTypeOK, Days, Lapses
<1>3. found \subseteq Lapsed(r, today)
  BY <1>2 DEF Unexcused, InWindow, Lapsed, ScanDays, AlertBoundsAssumption
<1>4. Lapsed(r, today) \subseteq 1..Len(gaps) /\ Len(gaps) \in Nat
  BY DEF Lapsed, AlertTypeOK
<1>5. IsFiniteSet(Lapsed(r, today))
  <2>1. IsFiniteSet(1..Len(gaps))
    BY <1>4, FS_Interval
  <2>2. QED  BY <1>4, <2>1, FS_Subset
<1> HIDE DEF found
<1>6. Cardinality(Lapsed(r, today)) >= Threshold[r]
  BY <1>1, <1>3, <1>5, NoLarger DEF RulesAssumption
<1>7. QED  BY <1>6 DEF Repeats, AlertTypeOK

LEMMA DaysStep ==
  ASSUME RulesAssumption, ScansAssumption, AlertBoundsAssumption, AlertTypeOK, ScanRows,
         ScanDays,
         [AlertNext]_alertVars
  PROVE  ScanDays'
<1>1. AlertTypeOK' /\ today \in Nat /\ today' \in Nat
  BY AlertTypeStep DEF AlertTypeOK, Days
<1>2. today' = today \/ Tick
  BY DEF AlertNext, CronStep, AlertStep, Start, ReadAlerts, Raise, Pick, Deliver,
     DeliverFails, Mark, ReadFresh, CountAll, Nudge, NudgeFails, Abort, Detect, Settle,
     Routine, alertVars
<1>3. today' >= today
  BY <1>1, <1>2 DEF Tick
<1>4. ASSUME NEW s \in Scans, scan'[s].pc \notin {"idle", "gaps"}
      PROVE  scan'[s].now <= today' /\ today' <= scan'[s].now + 1
  <2>1. Proceeds(s)
    BY ScanStep
  <2>2. CASE Tick
    <3>1. scan'[s] = scan[s] /\ today' = today + 1 /\ scan[s].now = today
      BY <1>4, <2>2 DEF Tick
    <3>2. QED  BY <1>1, <3>1
  <2>3. CASE today' = today /\ scan'[s] = [pc |-> "alerts", now |-> today, over |-> Repeated(today)]
    BY <1>1, <2>3
  <2>4. CASE /\ today' = today /\ scan[s].pc \notin {"idle", "gaps"}
             /\ scan'[s].now = scan[s].now
    BY <2>4 DEF ScanDays
  <2>5. QED
    BY <1>2, <1>4, <2>1, <2>2, <2>3, <2>4 DEF Proceeds, HasRules, OnRule, ScanAt
<1>5. ASSUME NEW r \in Rules, alert'[r] # NoAlert  PROVE alert'[r].day <= today'
  <2>1. CASE alert[r] = NoAlert
    <3>1. alert'[r] = [day |-> today, status |-> "open"]
      BY <1>5, <2>1, AlertComes
    <3>2. QED  BY <1>1, <1>3, <3>1
  <2>2. CASE alert[r] # NoAlert
    <3>1. alert'[r].day = alert[r].day /\ alert[r].day \in Nat
      BY <2>2, AlertKeepsDay DEF AlertTypeOK, AlertRows, Days
    <3>2. alert[r].day <= today
      BY <2>2 DEF ScanDays
    <3>3. QED  BY <1>1, <1>3, <3>1, <3>2
  <2>3. QED  BY <2>1, <2>2
<1>6. ASSUME NEW g \in DOMAIN gaps'  PROVE gaps'[g].day <= today'
  <2>1. CASE g \in DOMAIN gaps
    <3>1. gaps[g].day <= today /\ gaps'[g].day = gaps[g].day
      BY <2>1, GapsStand DEF ScanDays
    <3>2. gaps[g] \in Lapses
      BY <2>1 DEF AlertTypeOK
    <3>3. gaps[g].day \in Nat
      BY <3>2 DEF Lapses, Days
    <3>4. QED  BY <1>1, <1>3, <3>1, <3>3
  <2>2. CASE gaps'[g].day = today
    BY <1>1, <1>3, <2>2
  <2>3. QED  BY <2>1, <2>2, GapsStand
<1>7. QED  BY <1>4, <1>5, <1>6 DEF ScanDays

\* Deliveries stay on record.
LEMMA SentGrows ==
  ASSUME [AlertNext]_alertVars
  PROVE  sent \subseteq sent'
  BY DEF AlertNext, CronStep, AlertStep, Start, ReadAlerts, Raise, Pick, Deliver,
     DeliverFails, Mark, ReadFresh, CountAll, Nudge, NudgeFails, Abort, Detect, Settle,
     Routine, Tick, alertVars

LEMMA CardsStep ==
  ASSUME RulesAssumption, ScansAssumption, AlertBoundsAssumption, AlertTypeOK, ScanRows,
         ScanCards,
         [AlertNext]_alertVars
  PROVE  ScanCards'
<1>0. scan \in [Scans -> AlertScans \cup NudgeScans]
  BY DEF AlertTypeOK
<1>1. \A r, day : HasCard(r, day) => HasCard(r, day)'
  BY SentGrows DEF HasCard
<1> SUFFICES ASSUME NEW s \in Scans
             PROVE  /\ ScanAt(s, "deliver")' => scan'[s].card \in ToSet(CardsOf[scan'[s].rule])
                    /\ ScanAt(s, "mark")' => HasCard(scan[s].rule, scan[s].now)'
  BY DEF ScanCards
<1>2. CASE scan'[s] = scan[s]
  BY <1>1, <1>2 DEF ScanCards, ScanAt
<1>3. CASE scan'[s].pc \notin {"deliver", "mark"}
  BY <1>3 DEF ScanAt
<1>4. CASE Pick(s)
  <2>1. scan[s].rule \in Rules
    BY <1>4, ScanRecords DEF Pick, ScanAt
  <2>2. CASE CardsOf[scan[s].rule] # <<>>
             /\ scan'[s] = [pc |-> "deliver", now |-> scan[s].now, rule |-> scan[s].rule,
                            todo |-> scan[s].todo,
                            card |-> Choice(CardsOf[scan[s].rule], scan[s].now)]
    <3>1. Choice(CardsOf[scan[s].rule], scan[s].now) \in ToSet(CardsOf[scan[s].rule])
      BY <2>1, <2>2, ChoiceIsACard
    <3>2. /\ scan'[s].pc = "deliver" /\ scan'[s].rule = scan[s].rule
          /\ scan'[s].card = Choice(CardsOf[scan[s].rule], scan[s].now)
      BY <2>2
    <3>3. QED  BY <3>1, <3>2 DEF ScanAt
  <2>3. CASE scan'[s] = WithRules(s, scan[s].todo)
    <3>1. scan'[s].pc \notin {"deliver", "mark"}
      BY <2>3, WithRulesIs DEF NoScan
    <3>2. QED  BY <1>3, <3>1
  <2>4. QED  BY <1>0, <1>4, <2>2, <2>3 DEF Pick, NextRule
<1>5. CASE Deliver(s)
  <2> DEFINE d == [day |-> scan[s].now, card |-> scan[s].card, alert |-> scan[s].rule]
  <2>1. scan'[s] = [pc |-> "mark", now |-> scan[s].now, rule |-> scan[s].rule,
                    todo |-> scan[s].todo]
    BY <1>0, <1>5 DEF Deliver
  <2>2. \E c \in sent' : c.day = scan[s].now /\ c.card = scan[s].card
    <3>1. d.day = scan[s].now /\ d.card = scan[s].card
      OBVIOUS
    <3>2. sent' = IF \E c \in sent : c.day = d.day /\ c.card = d.card
                    THEN sent ELSE sent \cup {d}
      BY <1>5 DEF Deliver
    <3> HIDE DEF d
    <3>3. QED  BY <3>1, <3>2
  <2>3. scan[s].card \in ToSet(CardsOf[scan[s].rule])
    BY <1>5 DEF Deliver, ScanCards
  <2>4. QED  BY <2>1, <2>2, <2>3 DEF HasCard, ScanAt
<1>6. CASE scan'[s] # scan[s] /\ ~Pick(s) /\ ~Deliver(s)
  <2>1. ASSUME NEW t \in Scans, NEW x, scan' = [scan EXCEPT ![t] = x]
        PROVE  t = s /\ scan'[s] = x
    BY <1>0, <1>6, <2>1
  <2>2. \/ scan'[s].pc \in {"alerts", "count"}
        \/ \E todo : scan'[s] = WithRules(s, todo)
        \/ \E w : scan'[s] = Dispatching(s, w)
        \/ \E gs : scan'[s] = WithGaps(gs)
        \/ scan'[s] = NoScan \/ scan'[s] = AfterRules(s)
    <3>1. ASSUME NEW t \in Scans, Start(t)  PROVE scan'[s].pc \in {"alerts", "count"}
      <4>1. scan'[s] = [pc |-> "alerts", now |-> today, over |-> Repeated(today)]
        BY <2>1, <3>1 DEF Start
      <4>2. QED  BY <4>1
    <3>2. ASSUME NEW t \in Scans, ReadAlerts(t) \/ DeliverFails(t) \/ Mark(t)
          PROVE  \E todo : scan'[s] = WithRules(s, todo)
      <4>1. \E todo : scan' = [scan EXCEPT ![t] = WithRules(t, todo)]
        BY <3>2 DEF ReadAlerts, DeliverFails, Mark, NextRule
      <4>2. QED  BY <2>1, <4>1
    <3>3. ASSUME NEW t \in Scans, Raise(t)
          PROVE  (\E todo : scan'[s] = WithRules(s, todo)) \/ \E w : scan'[s] = Dispatching(s, w)
      <4>1. \/ \E todo : scan' = [scan EXCEPT ![t] = WithRules(t, todo)]
            \/ \E w : scan' = [scan EXCEPT ![t] = Dispatching(t, w)]
        BY <3>3 DEF Raise
      <4>2. QED  BY <2>1, <4>1
    <3>4. ASSUME NEW t \in Scans, Pick(t) \/ Deliver(t)  PROVE FALSE
      <4>1. \E x : scan' = [scan EXCEPT ![t] = x]
        BY <3>4 DEF Pick, Deliver
      <4>2. QED  BY <1>6, <2>1, <3>4, <4>1
    <3>5. ASSUME NEW t \in Scans, Abort(t) 
          PROVE  scan'[s] = NoScan \/ scan'[s] = AfterRules(s)
      BY <2>1, <3>5 DEF Abort
    <3>6. ASSUME ReadFresh
          PROVE  scan'[s] = NoScan \/ scan'[s].pc \in {"alerts", "count"}
      <4> DEFINE new == {g \in Unexcused(scan[Cron].now) : ~gaps[g].nudged}
                 x == [pc |-> "count", now |-> scan[Cron].now, fresh |-> new]
      <4>1. scan' = [scan EXCEPT ![Cron] = NoScan] \/ scan' = [scan EXCEPT ![Cron] = x]
        BY <3>6 DEF ReadFresh
      <4>2. x.pc = "count"
        OBVIOUS
      <4> HIDE DEF x
      <4>3. scan'[s] = NoScan \/ scan'[s] = x
        BY <2>1, <4>1 DEF Scans
      <4>4. QED  BY <4>2, <4>3
    <3>7. ASSUME CountAll \/ Nudge \/ NudgeFails  PROVE \E gs : scan'[s] = WithGaps(gs)
      <4>1. \E gs : scan' = [scan EXCEPT ![Cron] = WithGaps(gs)]
        BY <3>7 DEF CountAll, Nudge, NudgeFails
      <4>2. QED  BY <2>1, <4>1 DEF Scans
    <3>8. CASE UNCHANGED scan
      BY <1>6, <3>8
    <3>9. QED
      BY <3>1, <3>2, <3>3, <3>4, <3>5, <3>6, <3>7, <3>8
         DEF AlertNext, CronStep, AlertStep, Detect, Settle, Routine, Tick, alertVars,
         Scans
  <2>3. scan'[s].pc # "deliver" /\ scan'[s].pc # "mark"
    <3>1. \A todo : WithRules(s, todo).pc \in {"idle", "nudge", "rules"}
      BY DEF WithRules, AfterRules, NoScan
    <3>2. \A w : Dispatching(s, w).pc = "pick"
      BY DEF Dispatching
    <3>3. \A gs : WithGaps(gs).pc \in {"idle", "gaps"}
      BY DEF WithGaps, NoScan
    <3>4. NoScan.pc = "idle" /\ AfterRules(s).pc \in {"idle", "nudge"}
      BY DEF NoScan, AfterRules
    <3>5. QED  BY <2>2, <3>1, <3>2, <3>3, <3>4
  <2>4. QED  BY <2>3 DEF ScanAt
<1>7. QED  BY <1>2, <1>4, <1>5, <1>6

LEMMA DeliveredStep ==
  ASSUME RulesAssumption, ScansAssumption, AlertBoundsAssumption, AlertTypeOK, ScanRows,
         ScanDays,
         ScanCards, DeliveredMeansCard, [AlertNext]_alertVars
  PROVE  DeliveredMeansCard'
<1> SUFFICES ASSUME NEW r \in Rules, alert'[r] # NoAlert, alert'[r].status = "delivered"
             PROVE  \E c \in sent' : c.card \in ToSet(CardsOf[r]) /\ c.day >= alert'[r].day - 1
  BY DEF DeliveredMeansCard
<1>1. alert[r] # NoAlert
  BY AlertComes
<1>2. alert'[r].day = alert[r].day /\ alert[r].day \in Nat
  BY <1>1, AlertKeepsDay DEF AlertTypeOK, AlertRows, Days
<1>3. CASE alert[r].status = "delivered"
  BY <1>1, <1>2, <1>3, SentGrows DEF DeliveredMeansCard
<1>4. CASE \E s \in Scans : Mark(s) /\ scan[s].rule = r
  <2>1. PICK s \in Scans : Mark(s) /\ scan[s].rule = r
    BY <1>4
  <2>2. PICK c \in sent : c.card \in ToSet(CardsOf[r]) /\ c.day = scan[s].now
    BY <2>1 DEF Mark, ScanCards, HasCard
  <2>3. alert[r].day <= today /\ today <= scan[s].now + 1
    BY <1>1, <2>1 DEF ScanDays, Mark, ScanAt
  <2>4. scan[s].now \in Nat /\ today \in Nat
    <3>1. scan[s].now \in Days
      BY <2>1, ScanRecords DEF Mark, ScanAt
    <3>2. QED  BY <3>1 DEF Days, AlertTypeOK
  <2>5. c.day >= alert'[r].day - 1
    BY <1>2, <2>2, <2>3, <2>4
  <2>6. QED  BY <2>2, <2>5, SentGrows
<1>5. QED  BY <1>1, <1>3, <1>4, AlertKeepsDay

\* Rules, days and cards as a scan may count on them, and what they give.
AlertInv ==
    AlertTypeOK /\ ScanRows /\ ScanDays /\ ScanCards /\ DeliveredMeansCard

LEMMA AlertInvInit ==
  ASSUME RulesAssumption, ScansAssumption, AlertBoundsAssumption, AlertInit
  PROVE  AlertInv
<1>1. today \in Days /\ faults \in 0..MaxFaults
  BY DEF AlertInit, Days, AlertBoundsAssumption
<1>2. gaps \in Seq(Lapses) /\ Len(gaps) <= MaxGaps /\ DOMAIN gaps = {}
  BY DEF AlertInit, AlertBoundsAssumption
<1>3. /\ alert \in [Rules -> AlertRows \cup {NoAlert}]
      /\ sent \subseteq [day : Days, card : Cards, alert : Rules \cup {NoAlert}]
  BY DEF AlertInit
<1>4. /\ scan \in [Scans -> AlertScans \cup NudgeScans]
      /\ \A s \in BatchScans : scan[s] \in AlertScans
  BY DEF AlertInit, AlertScans, NoScan, Scans
<1>5. AlertTypeOK
  BY <1>1, <1>2, <1>3, <1>4 DEF AlertTypeOK
<1>6. (\A r \in Rules : alert[r] = NoAlert) /\ \A s \in Scans : scan[s].pc = "idle"
  BY DEF AlertInit, NoScan
<1>7. ScanRows /\ ScanDays /\ ScanCards /\ DeliveredMeansCard
  BY <1>2, <1>6 DEF ScanRows, ScanDays, ScanCards, DeliveredMeansCard, HasRules,
     OnRule, ScanAt
<1>8. QED  BY <1>5, <1>7 DEF AlertInv

LEMMA AlertInvStep ==
  ASSUME RulesAssumption, ScansAssumption, AlertBoundsAssumption, AlertInv,
         [AlertNext]_alertVars
  PROVE  AlertInv'
  BY AlertTypeStep, RowsStep, DaysStep, CardsStep, DeliveredStep DEF AlertInv

\* Only patterns: what a scan has before it repeats, and so does every rule
\* with an alert.
LEMMA RepeatedStep ==
  ASSUME RulesAssumption, ScansAssumption, AlertBoundsAssumption, AlertInv, OnlyRepeated,
         RepetitionOnly, [AlertNext]_alertVars
  PROVE  OnlyRepeated' /\ RepetitionOnly'
<1> USE DEF AlertInv
<1>1. AlertTypeOK'
  BY AlertInvStep
<1>2. \A r \in Rules : Repeats(r) => Repeats(r)'
  BY <1>1, RepeatsStand
<1>3. ASSUME NEW s \in Scans
      PROVE  /\ ScanAt(s, "alerts") => \A r \in scan[s].over : r \in Rules /\ Repeats(r)
             /\ HasRules(s) => \A w \in scan[s].todo : w.rule \in Rules /\ Repeats(w.rule)
             /\ OnRule(s) => scan[s].rule \in Rules /\ Repeats(scan[s].rule)
  BY ScanRecords DEF OnlyRepeated, HasRules, OnRule, ScanAt, Works
<1>4. ASSUME NEW s \in Scans
      PROVE  /\ ScanAt(s, "alerts")' => \A r \in scan'[s].over : Repeats(r)'
             /\ HasRules(s)' => \A w \in scan'[s].todo : Repeats(w.rule)'
             /\ OnRule(s)' => Repeats(scan[s].rule)'
  <2>1. Proceeds(s)
    BY ScanStep
  <2>2. ScanAt(s, "alerts")' => \A r \in scan'[s].over : Repeats(r)'
    <3>1. ScanAt(s, "alerts")' => \/ ScanAt(s, "alerts") /\ scan'[s].over = scan[s].over
                              \/ scan'[s].over = Repeated(today)
      BY <2>1 DEF Proceeds, ScanAt
    <3>2. \A r \in Repeated(today) : r \in Rules /\ Repeats(r)
      BY FoundRepeats DEF Repeated
    <3>3. QED  BY <1>2, <1>3, <3>1, <3>2
  <2>3. HasRules(s)' => \A w \in scan'[s].todo : Repeats(w.rule)'
    <3>1. HasRules(s)' =>
             \/ HasRules(s) /\ scan'[s].todo \subseteq scan[s].todo
             \/ ScanAt(s, "alerts") /\ \A w \in scan'[s].todo : w.rule \in scan[s].over
      BY <2>1 DEF Proceeds, HasRules, OnRule, ScanAt
    <3>2. QED  BY <1>2, <1>3, <3>1
  <2>4. OnRule(s)' => Repeats(scan[s].rule)'
    <3>1. OnRule(s)' =>
             \/ OnRule(s) /\ scan'[s].rule = scan[s].rule
             \/ HasRules(s) /\ \E w \in scan[s].todo : scan'[s].rule = w.rule
      BY <2>1 DEF Proceeds, HasRules, OnRule
    <3>2. QED  BY <1>2, <1>3, <3>1
  <2>5. QED  BY <2>2, <2>3, <2>4
<1>5. OnlyRepeated'
  BY <1>4 DEF OnlyRepeated
<1>6. ASSUME NEW r \in Rules, alert'[r] # NoAlert  PROVE Repeats(r)'
  <2>1. Repeats(r)
    <3>1. CASE alert[r] # NoAlert
      BY <3>1 DEF RepetitionOnly, Repeats, Lapsed
    <3>2. CASE alert[r] = NoAlert
      BY <1>3, <1>6, <3>2, AlertComes
    <3>3. QED  BY <3>1, <3>2
  <2>2. QED  BY <1>2, <2>1
<1>7. RepetitionOnly'
  BY <1>6 DEF RepetitionOnly, Repeats, Lapsed
<1>8. QED  BY <1>5, <1>7

\* Whatever the scans read and write, in whatever order, each finds what it
\* reads of a kind it knows: gaps, alerts, deliveries and its own place.
THEOREM AlertsTypeCorrect == AlertSpec => []AlertTypeOK
<1>1. AlertInit => AlertInv
  BY AlertInvInit, RulesAssumption, ScansAssumption, AlertBoundsAssumption
<1>2. AlertInv /\ [AlertNext]_alertVars => AlertInv'
  BY AlertInvStep, RulesAssumption, ScansAssumption, AlertBoundsAssumption
<1>3. AlertInv => AlertTypeOK
  BY DEF AlertInv
<1>4. QED  BY <1>1, <1>2, <1>3, PTL DEF AlertSpec

\* dispatchDouglasForAlert marks an alert delivered only after the member has
\* a card of the rule's category of that time, also when the write it makes
\* finds the card already had, fails, or crosses midnight and other scans.
THEOREM DeliveredAlertsHaveACard == AlertSpec => []DeliveredMeansCard
<1>1. AlertInit => AlertInv
  BY AlertInvInit, RulesAssumption, ScansAssumption, AlertBoundsAssumption
<1>2. AlertInv /\ [AlertNext]_alertVars => AlertInv'
  BY AlertInvStep, RulesAssumption, ScansAssumption, AlertBoundsAssumption
<1>3. AlertInv => DeliveredMeansCard
  BY DEF AlertInv
<1>4. QED  BY <1>1, <1>2, <1>3, PTL DEF AlertSpec

\* The blocking invariant of alerts.ts: no alert without a pattern that
\* repeated within a window, whatever is settled, detected or scanned between
\* the count of the gaps and the row that is written from it.
THEOREM NoAlertWithoutAPattern == AlertSpec => []RepetitionOnly
<1>1. AlertInit => AlertInv /\ OnlyRepeated /\ RepetitionOnly
  <2>1. AlertInit => AlertInv
    BY AlertInvInit, RulesAssumption, ScansAssumption, AlertBoundsAssumption
  <2>2. AlertInit => OnlyRepeated /\ RepetitionOnly
    BY DEF AlertInit, NoScan, OnlyRepeated, RepetitionOnly, HasRules, OnRule, ScanAt
  <2>3. QED  BY <2>1, <2>2
<1>2. AlertInv /\ OnlyRepeated /\ RepetitionOnly /\ [AlertNext]_alertVars
      => AlertInv' /\ OnlyRepeated' /\ RepetitionOnly'
  BY AlertInvStep, RepeatedStep, RulesAssumption, ScansAssumption, AlertBoundsAssumption
<1>3. QED  BY <1>1, <1>2, PTL DEF AlertSpec

================================================================================

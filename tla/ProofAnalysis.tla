---------------------------- MODULE ProofAnalysis ----------------------------
(* The analysis of MT5 captures (lib/verification/batch.ts): one member     *)
(* uploads captures and removes them; batches on the operator's machines    *)
(* pull the pending ones, have them read, and post the answers; the server  *)
(* settles each capture, and removes the stored screen.  Nothing keeps two  *)
(* posts from overlapping.                                                  *)
EXTENDS Integers, FiniteSets

CONSTANTS
    Proofs,               \* captures, one per hash of the normalised image
    Logins,               \* MT5 account numbers
    Deals, Ticketed,      \* positions the captures show, those with a ticket
    LoginOf, DealsOf,     \* what is on each capture
    DeclaredAccounts,     \* accounts the member declared, login unknown
    Garbled,              \* captures whose answers may fail their schema
    AttachedTo,           \* the declared account a capture is uploaded for, or None
    Batches,
    MaxAttempts,          \* INVALID_OUTPUT_MAX_ATTEMPTS
    MaxMishaps,           \* bound on failures, and on what the member and the admin undo
    None

\* The account the vision creates for a login is named by that login.  A login
\* once written stays, so where a capture is re-attached is never read again.
Rows == DeclaredAccounts \cup Logins

ASSUME CapturesAssumption ==
    /\ LoginOf \in [Proofs -> Logins]
    /\ DealsOf \in [Proofs -> SUBSET Deals] /\ Ticketed \subseteq Deals
    /\ Garbled \subseteq Proofs
    /\ AttachedTo \in [Proofs -> DeclaredAccounts \cup {None}]
    /\ DeclaredAccounts \cap Logins = {}
    /\ None \notin Rows \cup Proofs /\ "absent" \notin Logins
ASSUME BoundsAssumption ==
    MaxAttempts \in Nat \ {0} /\ MaxMishaps \in Nat

VARIABLES
    active,        \* the member's status is active
    status,        \* ocrStatus of a capture's row, "absent" or "deleted"
    stored,        \* its screen is on the volume
    handler,       \* the member's request on a capture between two awaits
    login,         \* accountLogin of a row, None, or "absent"
    positions,     \* rows extracted_positions per account, deal and provenance
    invalid,       \* invalid_output rows of the last seven days, up to the cap
    job,           \* one run of a batch
    strays,        \* captures whose removal was cut short (ghost)
    mishaps        \* failures and churn so far

uploads == <<status, stored, handler>>
accounts == <<login, positions>>
vars == <<active, uploads, accounts, invalid, job, strays, mishaps>>

\* What a batch has in hand: the entries left and the rows read for them, then
\* of one entry its capture, the account, what was found there, a count.
Idle == [pc |-> "idle", todo |-> {}, snap |-> <<>>, p |-> None, row |-> None, seen |-> {}, n |-> 0]
Entries(todo, snap) ==
    IF todo = {} THEN Idle
    ELSE [Idle EXCEPT !.pc = "entry", !.todo = todo, !.snap = [p \in todo |-> snap[p]]]
At(b, pc) == job[b].pc = pc
Goto(b, pc) == job' = [job EXCEPT ![b].pc = pc]

\* The loop goes on with the next entry.  After the last come reconciliation,
\* alerts and the push of the verdicts, which have modules of their own.
Rest(b) == Entries(job[b].todo \ {job[b].p}, job[b].snap)
Proceed(b) == job' = [job EXCEPT ![b] = Rest(b)]

Mishap == mishaps < MaxMishaps /\ mishaps' = mishaps + 1

(* ------------------------------------------------------------------ *)
(* The member: POST /api/uploads, deleteProof                          *)
(* ------------------------------------------------------------------ *)
\* The screen is stored first, then the row is created.
Store(p) ==
    /\ status[p] = "absent" /\ handler[p] = "none" /\ ~stored[p] /\ active
    /\ stored' = [stored EXCEPT ![p] = TRUE]
    /\ handler' = [handler EXCEPT ![p] = "storing"]
    /\ UNCHANGED <<active, status, accounts, invalid, job, strays, mishaps>>

CreateProof(p) ==
    /\ handler[p] = "storing"
    /\ status' = [status EXCEPT ![p] = "pending"]
    /\ handler' = [handler EXCEPT ![p] = "none"]
    /\ UNCHANGED <<active, stored, accounts, invalid, job, strays, mishaps>>

\* The row is refused; the screen just stored is removed, if that works.
CreateFails(p) ==
    /\ handler[p] = "storing"
    /\ Mishap
    /\ handler' = [handler EXCEPT ![p] = "none"]
    /\ \/ stored' = [stored EXCEPT ![p] = FALSE] /\ UNCHANGED strays
       \/ strays' = strays \cup {p} /\ UNCHANGED stored
    /\ UNCHANGED <<active, status, accounts, invalid, job>>

\* The row goes first; what was extracted from it stays.  The removal of the
\* screen may be refused.
DeleteRow(p) ==
    /\ status[p] \in {"pending", "done", "failed"} /\ handler[p] = "none"
    /\ Mishap
    /\ status' = [status EXCEPT ![p] = "deleted"]
    /\ handler' = [handler EXCEPT ![p] = "removing"]
    /\ UNCHANGED <<active, stored, accounts, invalid, job, strays>>

DeleteScreen(p) ==
    /\ handler[p] = "removing"
    /\ handler' = [handler EXCEPT ![p] = "none"]
    /\ \/ stored' = [stored EXCEPT ![p] = FALSE] /\ UNCHANGED strays
       \/ stored[p] /\ strays' = strays \cup {p} /\ UNCHANGED stored
    /\ UNCHANGED <<active, status, accounts, invalid, job, mishaps>>

\* Suspended and reinstated by an admin.
Moderate ==
    /\ Mishap
    /\ active' = ~active
    /\ UNCHANGED <<uploads, accounts, invalid, job, strays>>

\* An invalid answer leaves the window of seven days.
Forget(p) ==
    /\ invalid[p] > 0
    /\ Mishap
    /\ invalid' = [invalid EXCEPT ![p] = @ - 1]
    /\ UNCHANGED <<active, uploads, accounts, job, strays>>

(* ------------------------------------------------------------------ *)
(* A batch: loadPendingProofsEnvelope, then the reading                *)
(* ------------------------------------------------------------------ *)
Pending == {p \in Proofs : status[p] = "pending"}

Pull(b) ==
    /\ At(b, "idle")
    /\ active /\ Pending # {}
    /\ job' = [job EXCEPT ![b] = [Idle EXCEPT !.pc = "reading", !.todo = Pending]]
    /\ UNCHANGED <<active, uploads, accounts, invalid, strays, mishaps>>

\* filePurgedAt is stamped with the removal of a settled capture's screen.
Purged(p) == status[p] \in {"done", "failed"} /\ ~stored[p]

\* What a post reads before its loop: the row of each capture, if any.
Snapshot ==
    [p \in Proofs |-> [active |-> active, status |-> status[p], purged |-> Purged(p)]]

\* An entry left out of a run that halts early is one skipped below.
Post(b) ==
    /\ At(b, "reading")
    /\ job' = [job EXCEPT ![b] = Entries(@.todo, Snapshot)]
    /\ UNCHANGED <<active, uploads, accounts, invalid, strays, mishaps>>

(* ------------------------------------------------------------------ *)
(* persistVisionResults: the gates of one entry                        *)
(* ------------------------------------------------------------------ *)
Seen(b, p) == job[b].snap[p]

\* Turned away without a trace on the capture: its reading failed or its text
\* is unsafe; the member or the row is not there; there is nothing left to say.
Skip(b, p) ==
    /\ At(b, "entry") /\ p \in job[b].todo
    /\ \/ Mishap
       \/ /\ ~Seen(b, p).active \/ Seen(b, p).status # "pending"
          /\ UNCHANGED mishaps
    /\ job' = [job EXCEPT ![b] = Entries(@.todo \ {p}, @.snap)]
    /\ UNCHANGED <<active, uploads, accounts, invalid, strays>>

\* flipProofToFailedAndPurge writes the row by its id; if it is gone, the whole
\* post ends there.
Fail(b, p) ==
    IF status[p] = "deleted"
    THEN job' = [job EXCEPT ![b] = Idle] /\ UNCHANGED status
    ELSE /\ status' = [status EXCEPT ![p] = "failed"]
         /\ job' = [job EXCEPT ![b].pc = "purge", ![b].p = p, ![b].n = 0]

\* Not a history, or no account number on it.
Unreadable(b, p) ==
    /\ At(b, "entry") /\ p \in job[b].todo
    /\ Seen(b, p).active /\ Seen(b, p).status = "pending"
    /\ Fail(b, p)
    /\ UNCHANGED <<active, stored, handler, accounts, invalid, strays, mishaps>>

\* The answer fails its schema: its attempts are counted, then it is logged.
\* A count that fails is taken for a first attempt.
Invalid(b, p) ==
    /\ At(b, "entry") /\ p \in job[b].todo \cap Garbled
    /\ \/ /\ job' = [job EXCEPT ![b].pc = "log", ![b].p = p, ![b].n = invalid[p] + 1]
          /\ UNCHANGED mishaps
       \/ /\ Mishap
          /\ job' = [job EXCEPT ![b].pc = "log", ![b].p = p, ![b].n = 1]
    /\ UNCHANGED <<active, uploads, accounts, invalid, strays>>

\* Mutant: a capture is never given up, as before 2026-07-10.
ExhaustedNever(n) == FALSE

Exhausted(n) == n >= MaxAttempts

\* The log swallows its own errors.
LogInvalid(b) ==
    /\ At(b, "log")
    /\ LET p == job[b].p
       IN /\ \/ /\ invalid' = [invalid EXCEPT ![p] = IF @ < MaxAttempts THEN @ + 1 ELSE @]
                /\ UNCHANGED mishaps
             \/ Mishap /\ UNCHANGED invalid
          /\ IF Exhausted(job[b].n) /\ Seen(b, p).status = "pending"
             THEN job' = [job EXCEPT ![b].pc = "flip", ![b].n = 0]
             ELSE Proceed(b)
    /\ UNCHANGED <<active, uploads, accounts, strays>>

GiveUp(b) ==
    /\ At(b, "flip")
    /\ Fail(b, job[b].p)
    /\ UNCHANGED <<active, stored, handler, accounts, invalid, strays, mishaps>>

(* ------------------------------------------------------------------ *)
(* purgeProofFile                                                      *)
(* ------------------------------------------------------------------ *)
\* Mutant: a capture that was refused keeps its screen.
NothingToPurgeUnlessDone(b, p) == status[p] # "done"

NothingToPurge(b, p) == Seen(b, p).purged

\* Removal and stamp in one step: the stamp is read only to leave out a removal
\* that would find nothing.  A refused removal is caught; so is
\* an error in the count of the member's accounts, written before it.
Purge(b) ==
    /\ At(b, "purge")
    /\ LET p == job[b].p
       IN \/ /\ NothingToPurge(b, p)
             /\ UNCHANGED <<stored, strays, mishaps>>
          \/ /\ ~NothingToPurge(b, p)
             /\ stored' = [stored EXCEPT ![p] = FALSE]
             /\ UNCHANGED <<strays, mishaps>>
          \/ /\ ~NothingToPurge(b, p) /\ stored[p] /\ Mishap
             /\ strays' = strays \cup {p}
             /\ UNCHANGED stored
    /\ Proceed(b)
    /\ UNCHANGED <<active, status, handler, accounts, invalid>>

(* ------------------------------------------------------------------ *)
(* materialiseProofExtraction                                          *)
(* ------------------------------------------------------------------ *)
WithLogin(l) == {a \in Rows : login[a] = l}

\* An extraction, of a capture not done when the post began.  It goes to the
\* row of its login, if there is one.
Extraction(b, p) ==
    /\ At(b, "entry") /\ p \in job[b].todo
    /\ Seen(b, p).active /\ Seen(b, p).status \in {"pending", "failed"}
    /\ LET known == WithLogin(LoginOf[p])
       IN job' = IF known # {}
                 THEN [job EXCEPT ![b].pc = "lookup", ![b].p = p, ![b].row = CHOOSE a \in known : TRUE]
                 ELSE [job EXCEPT ![b].pc = IF AttachedTo[p] = None THEN "create" ELSE "declared",
                                  ![b].p = p]
    /\ UNCHANGED <<active, uploads, accounts, invalid, strays, mishaps>>

ReadDeclared(b) ==
    /\ At(b, "declared")
    /\ Goto(b, IF login[AttachedTo[job[b].p]] = None THEN "backfill" ELSE "create")
    /\ UNCHANGED <<active, uploads, accounts, invalid, strays, mishaps>>

\* Mutant: whoever lost the index goes on with the declared row.
WinnerDeclared(row, l) == row

\* P2002: the row that holds the login by now.
Winner(row, l) == CHOOSE a \in WithLogin(l) : TRUE

\* Both write the login by the row's id; the unique index refuses a second
\* row of one login.
Assign(b, row, l) ==
    IF WithLogin(l) \ {row} # {}
    THEN /\ job' = [job EXCEPT ![b].pc = "lookup", ![b].row = Winner(row, l)]
         /\ UNCHANGED login
    ELSE /\ login' = [login EXCEPT ![row] = l]
         /\ job' = [job EXCEPT ![b].pc = "lookup", ![b].row = row]

Backfill(b) ==
    /\ At(b, "backfill")
    /\ Assign(b, AttachedTo[job[b].p], LoginOf[job[b].p])
    /\ UNCHANGED <<active, uploads, positions, invalid, strays, mishaps>>

CreateAccount(b) ==
    /\ At(b, "create")
    /\ Assign(b, LoginOf[job[b].p], LoginOf[job[b].p])
    /\ UNCHANGED <<active, uploads, positions, invalid, strays, mishaps>>

\* Mutant: the transaction takes no lock.
LockFreeAlways(b, p) == TRUE

\* The advisory lock is keyed on the capture and held to the commit.
LockFree(b, p) == \A c \in Batches \ {b} : ~(At(c, "insert") /\ job[c].p = p)

On(row) == {d \in Deals : \E p \in Proofs : positions[row, d, p] > 0}

Lookup(b) ==
    /\ At(b, "lookup")
    /\ LockFree(b, job[b].p)
    /\ job' = [job EXCEPT ![b].pc = "insert", ![b].seen = On(job[b].row)]
    /\ UNCHANGED <<active, uploads, accounts, invalid, strays, mishaps>>

\* Not found by the look-up; a ticket found by now is skipped by its index.
ToInsert(b) ==
    {d \in DealsOf[job[b].p] \ job[b].seen : d \notin Ticketed \cap On(job[b].row)}

\* Positions and verdict in one commit, refused when the row is gone.
Insert(b) ==
    /\ At(b, "insert")
    /\ LET p == job[b].p  row == job[b].row
       IN IF status[p] = "deleted"
          THEN Proceed(b) /\ UNCHANGED <<status, positions>>
          ELSE /\ positions' = [k \in DOMAIN positions |->
                                  IF k[1] = row /\ k[2] \in ToInsert(b) /\ k[3] = p
                                  THEN positions[k] + 1 ELSE positions[k]]
               /\ status' = [status EXCEPT ![p] = "done"]
               /\ job' = [job EXCEPT ![b].pc = "purge", ![b].row = None, ![b].seen = {}]
    /\ UNCHANGED <<active, stored, handler, login, invalid, strays, mishaps>>

(* ------------------------------------------------------------------ *)
(* Ends and failures of a post                                         *)
(* ------------------------------------------------------------------ *)
\* A database error while materialising is caught, and the loop goes on.
MaterialiseFails(b) ==
    /\ job[b].pc \in {"declared", "backfill", "create", "lookup", "insert"}
    /\ Mishap
    /\ Proceed(b)
    /\ UNCHANGED <<active, uploads, accounts, invalid, strays>>

\* One that the loop does not catch ends the post.
FlipFails(b) ==
    /\ At(b, "flip")
    /\ Mishap
    /\ job' = [job EXCEPT ![b] = Idle]
    /\ UNCHANGED <<active, uploads, accounts, invalid, strays>>

\* The process is replaced: requests and posts die, readings go on.
Crash ==
    /\ \/ \E p \in Proofs : handler[p] # "none"
       \/ \E b \in Batches : job[b].pc \notin {"idle", "reading"}
    /\ Mishap
    /\ job' = [b \in Batches |-> IF At(b, "reading") THEN job[b] ELSE Idle]
    /\ handler' = [p \in Proofs |-> "none"]
    /\ strays' = strays \cup {p \in Proofs : stored[p] /\ status[p] # "pending"}
    /\ UNCHANGED <<active, status, stored, accounts, invalid>>

(* ------------------------------------------------------------------ *)
(* The specification                                                   *)
(* ------------------------------------------------------------------ *)
Init ==
    /\ active = TRUE
    /\ status = [p \in Proofs |-> "absent"]
    /\ stored = [p \in Proofs |-> FALSE]
    /\ handler = [p \in Proofs |-> "none"]
    /\ login = [a \in Rows |-> IF a \in DeclaredAccounts THEN None ELSE "absent"]
    /\ positions = [k \in Rows \X Deals \X Proofs |-> 0]
    /\ invalid = [p \in Proofs |-> 0]
    /\ job = [b \in Batches |-> Idle]
    /\ strays = {} /\ mishaps = 0

EntryStep(b) ==
    \/ \E p \in Proofs : Skip(b, p) \/ Unreadable(b, p) \/ Invalid(b, p) \/ Extraction(b, p)
    \/ LogInvalid(b) \/ GiveUp(b) \/ Purge(b)

MaterialiseStep(b) ==
    \/ ReadDeclared(b) \/ Backfill(b) \/ CreateAccount(b)
    \/ Lookup(b) \/ Insert(b)

BatchStep(b) == Post(b) \/ EntryStep(b) \/ MaterialiseStep(b)

MemberStep(p) ==
    Store(p) \/ CreateProof(p) \/ CreateFails(p) \/ DeleteRow(p) \/ DeleteScreen(p) \/ Forget(p)

Next ==
    \/ \E p \in Proofs : MemberStep(p)
    \/ Moderate
    \/ \E b \in Batches : Pull(b) \/ BatchStep(b) \/ MaterialiseFails(b) \/ FlipFails(b)
    \/ Crash

Spec == Init /\ [][Next]_vars

\* The worker comes back as long as captures are pending, and every batch
\* begun goes on.
FairSpec ==
    /\ Spec
    /\ \A b \in Batches : WF_vars(Pull(b)) /\ WF_vars(BatchStep(b))

(* ------------------------------------------------------------------ *)
(* Properties                                                          *)
(* ------------------------------------------------------------------ *)
TypeOK ==
    /\ active \in BOOLEAN
    /\ status \in [Proofs -> {"absent", "pending", "done", "failed", "deleted"}]
    /\ stored \in [Proofs -> BOOLEAN]
    /\ handler \in [Proofs -> {"none", "storing", "removing"}]
    /\ login \in [Rows -> Logins \cup {None, "absent"}]
    /\ positions \in [Rows \X Deals \X Proofs -> 0..2]
    /\ invalid \in [Proofs -> 0..MaxAttempts]
    /\ strays \subseteq Proofs

\* Two posts of one capture may overlap, yet what it shows is recorded once; a
\* ticket is recorded once per account, whichever captures show it.
RealityCountedOnce ==
    \A a \in Rows, d \in Deals :
        /\ \A p \in Proofs : positions[a, d, p] <= 1
        /\ d \in Ticketed => Cardinality({p \in Proofs : positions[a, d, p] > 0}) <= 1

\* A position read on a capture stands under the account whose login the
\* capture shows, although accounts are declared, created and backfilled by
\* overlapping posts (for captures attached to the account they show).
PositionsUnderTheirLogin ==
    \A a \in Rows, p \in Proofs :
        (\E d \in Deals : positions[a, d, p] > 0) => login[a] = LoginOf[p]

Removing(p) ==
    \/ handler[p] # "none"
    \/ \E b \in Batches : job[b].p = p /\ At(b, "purge")

\* A screen is kept for as long as its capture waits to be read, and no longer:
\* whatever it may fail on, a settled capture loses its screen unless the very
\* step that removes it was cut short.
ScreenFollowsVerdict ==
    \A p \in Proofs :
        /\ status[p] = "pending" => stored[p]
        /\ stored[p] => status[p] = "pending" \/ Removing(p) \/ p \in strays

\* A verdict is final: a late or contradictory answer never fails a capture
\* whose positions are on record.
DoneStaysDone ==
    [][\A p \in Proofs : status[p] = "done" => status'[p] # "failed"]_vars

\* Every capture of an active member is settled in the end, also one whose
\* answers never pass their schema.
EveryProofSettles ==
    \A p \in Proofs : status[p] = "pending" ~> status[p] # "pending" \/ ~active
=============================================================================

----------------------------- MODULE ExportJobs -----------------------------
(***************************************************************************)
(* The asynchronous personal-data export of one member                     *)
(* (lib/account/export-archive.ts, app/account/data/actions.ts).           *)
(*                                                                         *)
(* A request reaps dead jobs, reuses a running or a fresh one, or creates  *)
(* a row and leaves the build to after(), which runs in the same process   *)
(* and dies with it.  A build writes the archive, flips its row to ready   *)
(* and prunes the archives it supersedes.  Rows are in the database, the   *)
(* archives on a volume: no transaction spans the two, and every await     *)
(* between them is a step here.                                            *)
(***************************************************************************)
EXTENDS Integers, FiniteSets

CONSTANTS
    Requests,         \* browser tabs in which the member may ask for an export
    MaxJobs,          \* bound: rows ever created
    StaleAge,         \* STALE_EXPORT_JOB_MS, in ticks
    Cooldown,         \* EXPORT_REBUILD_COOLDOWN_MS, in ticks
    MaxExportFaults,  \* bound: crashes, throwing calls, refused removals
    Timely            \* builds are shorter than StaleAge: see TimeMayPass

ASSUME ExportAssumption ==
    /\ MaxJobs \in Nat \ {0} /\ MaxExportFaults \in Nat
    /\ StaleAge \in Nat \ {0} /\ Cooldown \in Nat \ {0} /\ Timely \in BOOLEAN

Jobs == 1..MaxJobs

VARIABLES
    row,        \* row[j]: DataExportStatus, "absent" before, "deleted" after
    zip,        \* zip[j]: the archive file of job j
    age,        \* age[j]: ticks since createdAt, saturating
    fresh,      \* fresh[j]: ticks left of the cooldown after completedAt
    req,        \* req[r]: a requestDataExportAction at work
    build,      \* build[j]: the runDataExportJob of j
    member,     \* the account still exists
    served,     \* some build has run to its end
    stranded,   \* archives the erasure could not remove
    exportFaults

exportVars == <<row, zip, age, fresh, req, build, member, served, stranded, exportFaults>>

\* todo: listed zombies left; flipped: the one just marked failed.
NoReq == [pc |-> "idle", todo |-> {}, flipped |-> {}]

\* todo: rows the prune has listed and not yet handled; removed: those whose
\* archive is confirmed gone.
NoBuild == [pc |-> "idle", todo |-> {}, removed |-> {}]

ExportInit ==
    /\ row = [j \in Jobs |-> "absent"]
    /\ zip = [j \in Jobs |-> "none"]
    /\ age = [j \in Jobs |-> 0]
    /\ fresh = [j \in Jobs |-> 0]
    /\ req = [r \in Requests |-> NoReq]
    /\ build = [j \in Jobs |-> NoBuild]
    /\ member = TRUE
    /\ served = FALSE
    /\ stranded = {}
    /\ exportFaults = 0

Running == {j \in Jobs : row[j] \in {"pending", "processing"}}

\* One more fault happens here.
Fails == exportFaults < MaxExportFaults /\ exportFaults' = exportFaults + 1

\* removeExportZip(j): "gone" when it returns true.
Remove(j) ==
    \/ zip' = [zip EXCEPT ![j] = "none"] /\ UNCHANGED exportFaults
    \/ zip[j] # "none" /\ Fails /\ UNCHANGED zip

SetReq(r, pc, todo) ==
    req' = [req EXCEPT ![r] = [pc |-> pc, todo |-> todo, flipped |-> {}]]

SetBuild(j, pc) == build' = [build EXCEPT ![j].pc = pc]

-----------------------------------------------------------------------------
(* requestDataExportAction.                                                *)

\* Mutants: a job that died before it started is overlooked; a live one is not
\* told from a dead one.
ZombiesStarted == {j \in Jobs : row[j] = "processing" /\ age[j] > StaleAge}
ZombiesYoung == {j \in Running : age[j] > 0}

Zombies == {j \in Running : age[j] > StaleAge}

RequestReap(r) ==
    /\ member
    /\ req[r].pc = "idle"
    /\ \/ SetReq(r, IF Zombies = {} THEN "dedup" ELSE "reap", Zombies) /\ UNCHANGED exportFaults
       \/ SetReq(r, "dedup", {}) /\ Fails        \* a reap failure falls through
    /\ UNCHANGED <<row, zip, age, fresh, build, member, served, stranded>>

\* The conditional flip of one listed job; only a flipped job loses its file.
ReapFlip(r, j) ==
    /\ req[r].pc = "reap"
    /\ req[r].flipped = {}
    /\ j \in req[r].todo
    /\ IF j \in Running
         THEN /\ row' = [row EXCEPT ![j] = "failed"]
              /\ req' = [req EXCEPT ![r].flipped = {j}]
         ELSE /\ SetReq(r, "reap", req[r].todo \ {j})
              /\ UNCHANGED row
    /\ UNCHANGED <<zip, age, fresh, build, member, served, stranded, exportFaults>>

\* The file of the job just flipped is removed before the next one is looked at.
ReapReclaim(r, j) ==
    /\ j \in req[r].flipped
    /\ Remove(j)
    /\ SetReq(r, "reap", req[r].todo \ {j})
    /\ UNCHANGED <<row, age, fresh, build, member, served, stranded>>

ReapDone(r) ==
    /\ req[r].pc = "reap"
    /\ req[r].todo = {}
    /\ SetReq(r, "dedup", {})
    /\ UNCHANGED <<row, zip, age, fresh, build, member, served, stranded, exportFaults>>

\* The next flip throws: the reap gives up, the request goes on.
ReapThrows(r) ==
    /\ req[r].pc = "reap"
    /\ req[r].flipped = {}
    /\ req[r].todo # {}
    /\ Fails
    /\ SetReq(r, "dedup", {})
    /\ UNCHANGED <<row, zip, age, fresh, build, member, served, stranded>>

\* Any other call of the request throws: the action answers "failed".
RequestThrows(r) ==
    /\ req[r].pc \in {"dedup", "cooldown", "create"}
    /\ Fails
    /\ SetReq(r, "idle", {})
    /\ UNCHANGED <<row, zip, age, fresh, build, member, served, stranded>>

Reusable == Running

Dedup(r) ==
    /\ req[r].pc = "dedup"
    /\ SetReq(r, IF Reusable # {} THEN "idle" ELSE "cooldown", {})
    /\ UNCHANGED <<row, zip, age, fresh, build, member, served, stranded, exportFaults>>

RecentlyReady == {j \in Jobs : row[j] = "ready" /\ fresh[j] > 0}

CoolDown(r) ==
    /\ req[r].pc = "cooldown"
    /\ SetReq(r, IF RecentlyReady # {} THEN "idle" ELSE "create", {})
    /\ UNCHANGED <<row, zip, age, fresh, build, member, served, stranded, exportFaults>>

Create(r, j) ==
    /\ req[r].pc = "create"
    /\ row[j] = "absent"
    /\ \A i \in Jobs : i < j => row[i] # "absent"
    /\ row' = [row EXCEPT ![j] = "pending"]
    /\ SetBuild(j, "mark")
    /\ SetReq(r, "idle", {})
    /\ UNCHANGED <<zip, age, fresh, member, served, stranded, exportFaults>>

-----------------------------------------------------------------------------
(* runDataExportJob.                                                       *)

BuildMark(j) ==
    /\ build[j].pc = "mark"
    /\ row' = [row EXCEPT ![j] = "processing"]
    /\ SetBuild(j, "open")
    /\ UNCHANGED <<zip, age, fresh, req, member, served, stranded, exportFaults>>

BuildOpen(j) ==
    /\ build[j].pc = "open"
    /\ zip' = [zip EXCEPT ![j] = "partial"]
    /\ SetBuild(j, "flush")
    /\ UNCHANGED <<row, age, fresh, req, member, served, stranded, exportFaults>>

\* The stream closes and stat looks at the file: one that was unlinked in the
\* meantime is not there.
BuildFlush(j) ==
    /\ build[j].pc = "flush"
    /\ IF zip[j] = "partial"
         THEN zip' = [zip EXCEPT ![j] = "full"] /\ SetBuild(j, "flip")
         ELSE SetBuild(j, "clean") /\ UNCHANGED zip
    /\ UNCHANGED <<row, age, fresh, req, member, served, stranded, exportFaults>>

\* What is left of the cooldown when completedAt is now.
CooldownFromNow == Cooldown

\* The row becomes ready, by id, whatever it was.
BuildFlip(j) ==
    /\ build[j].pc = "flip"
    /\ row' = [row EXCEPT ![j] = "ready"]
    /\ fresh' = [fresh EXCEPT ![j] = CooldownFromNow]
    /\ SetBuild(j, "list")
    /\ UNCHANGED <<zip, age, req, member, served, stranded, exportFaults>>

\* A call throws before the row is ready.
BuildThrows(j) ==
    /\ build[j].pc \in {"mark", "open", "flush", "flip"}
    /\ Fails
    /\ SetBuild(j, "clean")
    /\ UNCHANGED <<row, zip, age, fresh, req, member, served, stranded>>

\* The catch: the file goes first, then the row says failed.
BuildClean(j) ==
    /\ build[j].pc = "clean"
    /\ Remove(j)
    /\ SetBuild(j, "fail")
    /\ UNCHANGED <<row, age, fresh, req, member, served, stranded>>

BuildFail(j) ==
    /\ build[j].pc = "fail"
    /\ SetBuild(j, "idle")
    /\ \/ row' = [row EXCEPT ![j] = "failed"] /\ UNCHANGED exportFaults
       \/ Fails /\ UNCHANGED row        \* the failed write is swallowed
    /\ UNCHANGED <<zip, age, fresh, req, member, served, stranded>>

Superseded(j) == {i \in Jobs \ {j} : row[i] = "ready"}

PruneList(j) ==
    /\ build[j].pc = "list"
    /\ build' = [build EXCEPT ![j] = [pc |-> "prune", todo |-> Superseded(j), removed |-> {}]]
    /\ UNCHANGED <<row, zip, age, fresh, req, member, served, stranded, exportFaults>>

\* Mutant: the row is dropped although its archive is still there.
RemovedAnyway(i) == {i}

\* What one removal adds to the list of rows to drop.
Removed(i) == IF zip'[i] = "none" THEN {i} ELSE {}

PruneRemove(j, i) ==
    /\ build[j].pc = "prune"
    /\ i \in build[j].todo
    /\ Remove(i)
    /\ build' = [build EXCEPT ![j] = [pc |-> "prune", todo |-> @.todo \ {i},
                                     removed |-> @.removed \cup Removed(i)]]
    /\ UNCHANGED <<row, age, fresh, req, member, served, stranded>>

PruneDelete(j) ==
    /\ build[j].pc = "prune"
    /\ build[j].todo = {}
    /\ build' = [build EXCEPT ![j] = NoBuild]
    /\ served' = TRUE
    /\ \/ /\ row' = [i \in Jobs |-> IF i \in build[j].removed THEN "deleted" ELSE row[i]]
          /\ UNCHANGED exportFaults
       \/ Fails /\ UNCHANGED row        \* a prune failure is swallowed
    /\ UNCHANGED <<zip, age, fresh, req, member, stranded>>

-----------------------------------------------------------------------------
\* The process is replaced: requests and builds are gone, rows and files stay.
ProcessDies ==
    /\ Fails
    /\ req' = [r \in Requests |-> NoReq]
    /\ build' = [j \in Jobs |-> NoBuild]
    /\ UNCHANGED <<row, zip, age, fresh, member, served, stranded>>

Quiet == (\A r \in Requests : req[r].pc = "idle") /\ (\A j \in Jobs : build[j].pc = "idle")

Swept == {j \in Jobs : row[j] \notin {"absent", "deleted"}}

\* The account is purged, HARD_PURGE_DAYS after its last request: the archives
\* of its rows are swept, then the cascade takes the rows.
Erase ==
    /\ member
    /\ Quiet
    /\ member' = FALSE
    /\ \E kept \in SUBSET {j \in Swept : zip[j] # "none"} :
         /\ IF kept = {} THEN UNCHANGED exportFaults ELSE Fails
         /\ zip' = [j \in Jobs |-> IF j \in Swept \ kept THEN "none" ELSE zip[j]]
         /\ stranded' = kept
    /\ row' = [j \in Jobs |-> IF row[j] = "absent" THEN "absent" ELSE "deleted"]
    /\ UNCHANGED <<age, fresh, req, build, served>>

\* With Timely, no build is at work on a job as old as StaleAge, and what follows
\* the flip to ready takes less than the cooldown.
TimeMayPass ==
    Timely => \A j \in Jobs : /\ build[j].pc # "idle" => age[j] < StaleAge
                              /\ build[j].pc \notin {"list", "prune"}

JobsAge ==
    /\ TimeMayPass
    /\ age' = [j \in Jobs |-> IF row[j] # "absent" /\ age[j] <= StaleAge THEN age[j] + 1 ELSE age[j]]
    /\ fresh' = [j \in Jobs |-> IF fresh[j] > 0 THEN fresh[j] - 1 ELSE 0]
    /\ UNCHANGED <<row, zip, req, build, member, served, stranded, exportFaults>>

RequestStep(r) ==
    \/ ReapDone(r) \/ Dedup(r) \/ CoolDown(r)
    \/ \E j \in Jobs : ReapFlip(r, j) \/ ReapReclaim(r, j) \/ Create(r, j)

BuildStep(j) ==
    \/ BuildMark(j) \/ BuildOpen(j) \/ BuildFlush(j) \/ BuildFlip(j)
    \/ BuildClean(j) \/ BuildFail(j) \/ PruneList(j) \/ PruneDelete(j)
    \/ \E i \in Jobs : PruneRemove(j, i)

ExportNext ==
    \/ \E r \in Requests : RequestReap(r) \/ RequestStep(r) \/ ReapThrows(r) \/ RequestThrows(r)
    \/ \E j \in Jobs : BuildStep(j) \/ BuildThrows(j)
    \/ ProcessDies
    \/ Erase
    \/ JobsAge

ExportSpec == ExportInit /\ [][ExportNext]_exportVars

\* The member keeps asking, what has started goes on, and time passes.
FairExportSpec ==
    /\ ExportSpec
    /\ WF_exportVars(JobsAge)
    /\ \A r \in Requests : WF_exportVars(RequestReap(r)) /\ WF_exportVars(RequestStep(r))
    /\ \A j \in Jobs : WF_exportVars(BuildStep(j))

-----------------------------------------------------------------------------
(* Properties.                                                             *)

\* Every variable has its type.
ExportTypeOK ==
    /\ row \in [Jobs -> {"absent", "pending", "processing", "ready", "failed", "deleted"}]
    /\ zip \in [Jobs -> {"none", "partial", "full"}]
    /\ age \in [Jobs -> 0..(StaleAge + 1)]
    /\ fresh \in [Jobs -> 0..Cooldown]
    /\ req \in [Requests -> [pc : {"idle", "reap", "dedup", "cooldown", "create"},
                             todo : SUBSET Jobs, flipped : SUBSET Jobs]]
    /\ build \in [Jobs -> [pc : {"idle", "mark", "open", "flush", "flip", "clean", "fail",
                                 "list", "prune"},
                           todo : SUBSET Jobs, removed : SUBSET Jobs]]
    /\ member \in BOOLEAN
    /\ served \in BOOLEAN
    /\ stranded \subseteq Jobs
    /\ exportFaults \in 0..MaxExportFaults

\* Every archive on the volume is named by a row, so that the erasure of the
\* account finds it: no crash, refused removal, reap or prune leaves an archive
\* without a row, and after the erasure only what it failed to remove is left.
EveryArchiveHasItsRow ==
    \A j \in Jobs : zip[j] # "none" =>
        row[j] \notin {"absent", "deleted"} \/ j \in stranded

\* "keep only the LATEST ready export per member": once a build has run to its
\* end, the member has an archive to download until the account goes.
KeepsTheLatest ==
    served /\ member => \E j \in Jobs : row[j] = "ready" /\ zip[j] = "full"

\* A ready job can be downloaded, unless a later one has superseded it.
ReadyIsDownloadable ==
    \A j \in Jobs : row[j] = "ready" /\ zip[j] # "full" =>
        \E i \in Jobs : i > j /\ row[i] = "ready" /\ zip[i] = "full"

\* A job whose build died with the process never locks its member out: whoever
\* keeps asking gets an archive in the end.
NeverLockedOut ==
    \A j \in Jobs : row[j] = "pending" ~>
        ~member \/ \E i \in Jobs : row[i] = "ready" /\ zip[i] = "full"

=============================================================================

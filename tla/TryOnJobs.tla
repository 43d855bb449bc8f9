----------------------------- MODULE TryOnJobs -----------------------------
(***************************************************************************)
(* The life of a try-on job across the three places that write it:         *)
(*                                                                         *)
(*   - the API's event loop (one uvicorn worker, so one handler at a time):*)
(*     submit, cancel, save and delete-account;                            *)
(*   - the background task of each job, TryOnService.run_job, one thread   *)
(*     per job in the thread pool of the same process;                     *)
(*   - the sweeps: the stale-job recovery the server runs while it starts  *)
(*     and the hourly cleanup script, a process of its own.                *)
(*                                                                         *)
(* They share a database (one committed transaction is one step here) and  *)
(* a directory of files (one call of StorageService is one step).  Images, *)
(* prompts and error texts are abstracted away.  A failing disk and a      *)
(* dying process are steps of their own, bounded by MaxFaults and          *)
(* MaxCrashes.                                                             *)
(***************************************************************************)
EXTENDS Naturals, FiniteSets

CONSTANTS
    Jobs,        \* job ids (uuid4, never reused)
    Users,       \* accounts
    Anonymous,   \* the owner of a job submitted without an account
    Keys,        \* values of the Idempotency-Key header
    NoKey,       \* the header is absent
    NoJob,       \* the event loop is not working on a particular job
    PromptRuns,  \* TRUE: no run_job outlives stale_job_threshold_minutes
    TidyCleanup, \* TRUE: cleanup_temp removes everything it is asked to
    MaxCrashes,  \* bound: how often a process dies
    MaxFaults    \* bound: how often a file operation raises

ASSUME ParameterAssumption ==
    /\ Anonymous \notin Users
    /\ NoKey \notin Keys
    /\ NoJob \notin Jobs
    /\ PromptRuns \in BOOLEAN
    /\ TidyCleanup \in BOOLEAN
    /\ MaxCrashes \in Nat
    /\ MaxFaults \in Nat

VARIABLES
    \* The table jobs, a function per column.
    status,      \* "absent": not yet inserted; "deleted": the row is gone
    owner,       \* user_id
    key,         \* idempotency_key; the scope is the owner
    saved,       \* the owner asked to keep the result
    aged,        \* updated_at is older than the cutoff of the sweep concerned
    accounts,    \* the table users
    \* The storage directory.
    uploads,     \* tmp/<job>/: which of the two input images are there
    results,     \* results/<job>.png exists
    \* The processes.
    server,      \* the API process
    loop,        \* the handler the event loop is in the middle of
    runner,      \* where the background task of each job is
    sweep,       \* where each sweep is
    crashes,
    faults

rowVars  == <<status, owner, key, saved, aged>>
fileVars == <<uploads, results>>
vars     == <<status, owner, key, saved, aged, accounts, uploads, results,
              server, loop, runner, sweep, crashes, faults>>

-----------------------------------------------------------------------------
Statuses == {"absent", "pending", "processing", "completed", "failed",
             "cancelled", "deleted"}
Owners   == Users \cup {Anonymous}
Images   == {"person", "garment"}
Sweepers == {"startup", "hourly"}

HandlerSteps == {"idle", "insert", "person", "garment", "schedule",
                 "cleanCancelled", "markSaved", "deleteFiles", "deleteRows"}

\* Between the claim and the last write of the row.
Working     == {"loading", "generating", "storing", "completing", "failing"}
\* A thread of the server holds the job.
Live        == Working \cup {"queued", "claiming", "cleaning"}
RunnerSteps == Live \cup {"unscheduled", "done", "dead"}

Handler == [op : HandlerSteps, job : Jobs \cup {NoJob},
            owner : Owners, key : Keys \cup {NoKey}]

Idle == [op |-> "idle", job |-> NoJob, owner |-> Anonymous, key |-> NoKey]
Off  == [at |-> "off", batch |-> {}, todo |-> {}]

TypeOK ==
    /\ status \in [Jobs -> Statuses]
    /\ owner \in [Jobs -> Owners]
    /\ key \in [Jobs -> Keys \cup {NoKey}]
    /\ saved \in [Jobs -> BOOLEAN]
    /\ aged \in [Jobs -> BOOLEAN]
    /\ accounts \in SUBSET Users
    /\ uploads \in [Jobs -> SUBSET Images]
    /\ results \in SUBSET Jobs
    /\ server \in {"down", "starting", "up"}
    /\ loop \in Handler
    /\ runner \in [Jobs -> RunnerSteps]
    /\ sweep \in [Sweepers -> [at : {"off", "expiring", "recovering"},
                               batch : SUBSET Jobs, todo : SUBSET Jobs]]
    /\ crashes \in Nat
    /\ faults \in Nat

Init ==
    /\ status = [j \in Jobs |-> "absent"]
    /\ owner = [j \in Jobs |-> Anonymous]
    /\ key = [j \in Jobs |-> NoKey]
    /\ saved = [j \in Jobs |-> FALSE]
    /\ aged = [j \in Jobs |-> FALSE]
    /\ accounts = Users
    /\ uploads = [j \in Jobs |-> {}]
    /\ results = {}
    /\ server = "starting"
    /\ loop = Idle
    /\ runner = [j \in Jobs |-> "unscheduled"]
    /\ sweep = [s \in Sweepers |-> Off]
    /\ crashes = 0
    /\ faults = 0

-----------------------------------------------------------------------------
HasRow(j) == status[j] \notin {"absent", "deleted"}

\* What the partial unique index ix_jobs_idempotency_active covers.
Active(j) == HasRow(j) /\ key[j] # NoKey /\ status[j] # "failed"

ActiveFor(o, k) == {j \in Jobs : Active(j) /\ owner[j] = o /\ key[j] = k}

\* An UPDATE of the row: onupdate moves updated_at to now.
SetStatus(j, s) ==
    /\ status' = [status EXCEPT ![j] = s]
    /\ aged' = [aged EXCEPT ![j] = FALSE]

\* What cleanup_temp leaves of the uploads of a job: its rmtree ignores errors.
Leftovers(j) == IF TidyCleanup THEN {{}} ELSE SUBSET uploads[j]

CleanTemp(j) ==
    \E left \in Leftovers(j) : uploads' = [uploads EXCEPT ![j] = left]

Fault == faults < MaxFaults /\ faults' = faults + 1

HandlerIdle == server = "up" /\ loop = Idle
InHandler(op) == server = "up" /\ loop.op = op

-----------------------------------------------------------------------------
(* POST /api/try-on *)

(***************************************************************************)
(* Up to the insert.  A request whose key has an active job is answered    *)
(* with that job (or 409) and changes nothing; rejections by the rate      *)
(* limiter, quota, capacity or validation change nothing here either.      *)
(***************************************************************************)
BeginSubmit(o, k) ==
    /\ HandlerIdle
    /\ o \in accounts \cup {Anonymous}
    /\ \E j \in Jobs : status[j] = "absent"          \* bound: Jobs is finite
    /\ k # NoKey => ActiveFor(o, k) = {}
    /\ loop' = [Idle EXCEPT !.op = "insert", !.owner = o, !.key = k]
    /\ UNCHANGED <<rowVars, accounts, fileVars, server, runner, sweep,
                   crashes, faults>>

\* Mutant: the insert does not consult the unique index.
InsertRowUnindexed(j) ==
    /\ InHandler("insert")
    /\ status[j] = "absent"
    /\ status' = [status EXCEPT ![j] = "pending"]
    /\ owner' = [owner EXCEPT ![j] = loop.owner]
    /\ key' = [key EXCEPT ![j] = loop.key]
    /\ loop' = [loop EXCEPT !.op = "person", !.job = j]
    /\ UNCHANGED <<saved, aged, accounts, fileVars, server, runner, sweep,
                   crashes, faults>>

(***************************************************************************)
(* The INSERT.  The unique index is consulted again here: a job that came  *)
(* back to life since the lookup makes the insert fail, and the request is *)
(* answered with that job.                                                 *)
(***************************************************************************)
InsertRow(j) ==
    /\ InHandler("insert")
    /\ status[j] = "absent"
    /\ IF loop.key # NoKey /\ ActiveFor(loop.owner, loop.key) # {}
         THEN /\ loop' = Idle
              /\ UNCHANGED rowVars
         ELSE /\ status' = [status EXCEPT ![j] = "pending"]
              /\ owner' = [owner EXCEPT ![j] = loop.owner]
              /\ key' = [key EXCEPT ![j] = loop.key]
              /\ loop' = [loop EXCEPT !.op = "person", !.job = j]
              /\ UNCHANGED <<saved, aged>>
    /\ UNCHANGED <<accounts, fileVars, server, runner, sweep, crashes, faults>>

\* One save_temp_upload.  If it raises, the client gets a 500 and the row
\* stays as it is: pending, with nobody to run it.
StoreUpload(image, next) ==
    /\ InHandler(image)
    /\ \/ /\ uploads' = [uploads EXCEPT ![loop.job] = @ \cup {image}]
          /\ loop' = [loop EXCEPT !.op = next]
          /\ UNCHANGED faults
       \/ /\ Fault
          /\ loop' = Idle
          /\ UNCHANGED uploads
    /\ UNCHANGED <<rowVars, accounts, results, server, runner, sweep, crashes>>

\* Mutant: the background task is added only for requests with a key.
ScheduleKeyed ==
    /\ InHandler("schedule")
    /\ runner' = IF key[loop.job] # NoKey
                   THEN [runner EXCEPT ![loop.job] = "queued"] ELSE runner
    /\ loop' = Idle
    /\ UNCHANGED <<rowVars, accounts, fileVars, server, sweep, crashes, faults>>

Schedule ==
    /\ InHandler("schedule")
    /\ runner' = [runner EXCEPT ![loop.job] = "queued"]
    /\ loop' = Idle
    /\ UNCHANGED <<rowVars, accounts, fileVars, server, sweep, crashes, faults>>

-----------------------------------------------------------------------------
(* POST /api/try-on/{job_id}/cancel and /save, DELETE /api/auth/me *)

\* An anonymous job belongs to whoever holds its id.
MayCancel(viewer, j) == owner[j] \in {Anonymous, viewer}

\* Mutant: the expected status is not part of the UPDATE's WHERE clause.
CancelJobInAnyStatus(viewer, j) ==
    /\ HandlerIdle
    /\ viewer \in accounts \cup {Anonymous}
    /\ HasRow(j) /\ MayCancel(viewer, j)
    /\ SetStatus(j, "cancelled")
    /\ loop' = [Idle EXCEPT !.op = "cleanCancelled", !.job = j]
    /\ UNCHANGED <<owner, key, saved, accounts, fileVars, server, runner,
                   sweep, crashes, faults>>

\* A job that is not pending is refused with 409 and nothing changes.
CancelJob(viewer, j) ==
    /\ HandlerIdle
    /\ viewer \in accounts \cup {Anonymous}
    /\ HasRow(j) /\ MayCancel(viewer, j)
    /\ status[j] = "pending"
    /\ SetStatus(j, "cancelled")
    /\ loop' = [Idle EXCEPT !.op = "cleanCancelled", !.job = j]
    /\ UNCHANGED <<owner, key, saved, accounts, fileVars, server, runner,
                   sweep, crashes, faults>>

CleanCancelled ==
    /\ InHandler("cleanCancelled")
    /\ CleanTemp(loop.job)
    /\ loop' = Idle
    /\ UNCHANGED <<rowVars, accounts, results, server, runner, sweep,
                   crashes, faults>>

\* save_job reads the job in one transaction and marks it in another.
BeginSave(u, j) ==
    /\ HandlerIdle
    /\ u \in accounts
    /\ HasRow(j) /\ owner[j] = u
    /\ status[j] = "completed"
    /\ loop' = [Idle EXCEPT !.op = "markSaved", !.job = j]
    /\ UNCHANGED <<rowVars, accounts, fileVars, server, runner, sweep,
                   crashes, faults>>

\* mark_saved looks at nothing but whether the row is there.
MarkSaved ==
    /\ InHandler("markSaved")
    /\ saved' = [saved EXCEPT ![loop.job] = TRUE]
    /\ aged' = [aged EXCEPT ![loop.job] = FALSE]
    /\ loop' = Idle
    /\ UNCHANGED <<status, owner, key, accounts, fileVars, server, runner,
                   sweep, crashes, faults>>

BeginDeleteAccount(u) ==
    /\ HandlerIdle
    /\ u \in accounts
    /\ loop' = [Idle EXCEPT !.op = "deleteFiles", !.owner = u]
    /\ UNCHANGED <<rowVars, accounts, fileVars, server, runner, sweep,
                   crashes, faults>>

JobsOf(u) == {j \in Jobs : HasRow(j) /\ owner[j] = u}

\* The loop over db_user.jobs.  If a deletion raises, those before it have
\* happened, the transaction rolls back and the account stays.
DeleteAccountFiles ==
    /\ InHandler("deleteFiles")
    /\ \E gone \in SUBSET JobsOf(loop.owner) :
          /\ \/ /\ gone = JobsOf(loop.owner)
                /\ loop' = [loop EXCEPT !.op = "deleteRows"]
                /\ UNCHANGED faults
             \/ /\ gone # JobsOf(loop.owner)
                /\ Fault
                /\ loop' = Idle
          /\ results' = results \ gone
          /\ uploads' \in {left \in [Jobs -> SUBSET Images] :
                            \A j \in Jobs : left[j] \in IF j \in gone
                                                         THEN Leftovers(j)
                                                         ELSE {uploads[j]}}
    /\ UNCHANGED <<rowVars, accounts, server, runner, sweep, crashes>>

\* The commit: the user row and, by the cascade, its job rows.
DeleteAccountRows ==
    /\ InHandler("deleteRows")
    /\ accounts' = accounts \ {loop.owner}
    /\ status' = [j \in Jobs |-> IF j \in JobsOf(loop.owner)
                                   THEN "deleted" ELSE status[j]]
    /\ loop' = Idle
    /\ UNCHANGED <<owner, key, saved, aged, fileVars, server, runner, sweep,
                   crashes, faults>>

-----------------------------------------------------------------------------
(* TryOnService.run_job, one thread per scheduled job *)

Step(j, from, to) ==
    /\ server = "up"
    /\ runner[j] = from
    /\ runner' = [runner EXCEPT ![j] = to]

\* job_store.get: nothing to do for a row that is gone.
RunJob(j) ==
    /\ Step(j, "queued", IF HasRow(j) THEN "claiming" ELSE "done")
    /\ UNCHANGED <<rowVars, accounts, fileVars, server, loop, sweep, crashes,
                   faults>>

\* Mutant: the claim is an unconditional update.
ClaimBlindly(j) ==
    /\ Step(j, "claiming", "loading")
    /\ SetStatus(j, "processing")
    /\ UNCHANGED <<owner, key, saved, accounts, fileVars, server, loop, sweep,
                   crashes, faults>>

\* try_transition_status(PENDING -> PROCESSING), one conditional UPDATE.
Claim(j) ==
    /\ \/ /\ status[j] = "pending"
          /\ Step(j, "claiming", "loading")
          /\ SetStatus(j, "processing")
       \/ /\ status[j] # "pending"
          /\ Step(j, "claiming", "cleaning")
          /\ UNCHANGED <<status, aged>>
    /\ UNCHANGED <<owner, key, saved, accounts, fileVars, server, loop, sweep,
                   crashes, faults>>

LoadUploads(j) ==
    /\ Step(j, "loading",
            IF uploads[j] = Images THEN "generating" ELSE "failing")
    /\ UNCHANGED <<rowVars, accounts, fileVars, server, loop, sweep, crashes,
                   faults>>

\* Mutant: the row is completed without the result having been stored.
GenerateAndComplete(j) ==
    /\ \E outcome \in {"completing", "failing"} : Step(j, "generating", outcome)
    /\ UNCHANGED <<rowVars, accounts, fileVars, server, loop, sweep, crashes,
                   faults>>

\* provider.generate returns an image or raises (busy, timeout, any error).
Generate(j) ==
    /\ \E outcome \in {"storing", "failing"} : Step(j, "generating", outcome)
    /\ UNCHANGED <<rowVars, accounts, fileVars, server, loop, sweep, crashes,
                   faults>>

SaveResult(j) ==
    /\ \/ /\ Step(j, "storing", "completing")
          /\ results' = results \cup {j}
          /\ UNCHANGED faults
       \/ /\ Step(j, "storing", "failing")
          /\ Fault
          /\ UNCHANGED results
    /\ UNCHANGED <<rowVars, accounts, uploads, server, loop, sweep, crashes>>

(***************************************************************************)
(* update_status(COMPLETED) overwrites whatever the status is.  It is a    *)
(* no-op on a row that is gone, and it fails on the unique index when the  *)
(* job had been failed by a sweep and its key is in use again.             *)
(***************************************************************************)
Complete(j) ==
    /\ \/ /\ HasRow(j)
          /\ key[j] # NoKey => ActiveFor(owner[j], key[j]) \subseteq {j}
          /\ Step(j, "completing", "cleaning")
          /\ SetStatus(j, "completed")
       \/ /\ HasRow(j)
          /\ key[j] # NoKey /\ ~(ActiveFor(owner[j], key[j]) \subseteq {j})
          /\ Step(j, "completing", "failing")
          /\ UNCHANGED <<status, aged>>
       \/ /\ ~HasRow(j)
          /\ Step(j, "completing", "cleaning")
          /\ UNCHANGED <<status, aged>>
    /\ UNCHANGED <<owner, key, saved, accounts, fileVars, server, loop, sweep,
                   crashes, faults>>

\* cleanup_temp is not in a finally clause.
FailWithoutCleanup(j) ==
    /\ Step(j, "failing", "done")
    /\ IF HasRow(j) THEN SetStatus(j, "failed") ELSE UNCHANGED <<status, aged>>
    /\ UNCHANGED <<owner, key, saved, accounts, fileVars, server, loop, sweep,
                   crashes, faults>>

\* update_status(FAILED), in either except clause.
Fail(j) ==
    /\ Step(j, "failing", "cleaning")
    /\ IF HasRow(j) THEN SetStatus(j, "failed") ELSE UNCHANGED <<status, aged>>
    /\ UNCHANGED <<owner, key, saved, accounts, fileVars, server, loop, sweep,
                   crashes, faults>>

\* cleanup_temp, in the finally clause or after a lost claim.
CleanUploads(j) ==
    /\ Step(j, "cleaning", "done")
    /\ CleanTemp(j)
    /\ UNCHANGED <<rowVars, accounts, results, server, loop, sweep, crashes,
                   faults>>

RunnerNext(j) ==
    \/ RunJob(j) \/ Claim(j) \/ LoadUploads(j) \/ Generate(j)
    \/ SaveResult(j) \/ Complete(j) \/ Fail(j) \/ CleanUploads(j)

-----------------------------------------------------------------------------
(* scripts/cleanup_expired_results.py *)

\* Mutants: the cutoff on updated_at is dropped from the sweeps' queries.
ExpiredAtOnce(j) == status[j] = "completed" /\ ~saved[j]
StaleAtOnce(j)   == status[j] = "processing"

Expired(j) == status[j] = "completed" /\ ~saved[j] /\ aged[j]
Stale(j)   == status[j] = "processing" /\ aged[j]

\* cleanup_expired_results: the query ...
QueryExpired ==
    /\ sweep["hourly"].at = "off"
    /\ sweep' = [sweep EXCEPT !["hourly"] =
                   [at |-> "expiring", batch |-> {},
                    todo |-> {j \in Jobs : Expired(j)}]]
    /\ UNCHANGED <<rowVars, accounts, fileVars, server, loop, runner, crashes,
                   faults>>

\* Mutant: only the leftover uploads are deleted.
DeleteExpiredUploads(j) ==
    /\ sweep["hourly"].at = "expiring"
    /\ j \in sweep["hourly"].todo
    /\ sweep' = [sweep EXCEPT !["hourly"].todo = @ \ {j}]
    /\ CleanTemp(j)
    /\ UNCHANGED <<rowVars, accounts, results, server, loop, runner, crashes,
                   faults>>

\* ... and the deletion of the files of each job found.  The rows stay.
DeleteExpired(j) ==
    /\ sweep["hourly"].at = "expiring"
    /\ j \in sweep["hourly"].todo
    /\ sweep' = [sweep EXCEPT !["hourly"].todo = @ \ {j}]
    /\ \/ /\ results' = results \ {j}
          /\ CleanTemp(j)
          /\ UNCHANGED faults
       \/ /\ Fault
          /\ UNCHANGED fileVars
    /\ UNCHANGED <<rowVars, accounts, server, loop, runner, crashes>>

-----------------------------------------------------------------------------
(* services/job_recovery.py, called by the script and by main.py's lifespan *)

\* Mutant: recovery runs when the server starts and at no other time.
QueryStaleAtStartup(s) ==
    /\ \/ s = "hourly" /\ sweep[s].at = "expiring" /\ sweep[s].todo = {}
       \/ s = "startup" /\ sweep[s].at = "off" /\ server = "starting"
    /\ LET stale == {j \in Jobs : s = "startup" /\ Stale(j)}
       IN  sweep' = [sweep EXCEPT ![s] =
                       [at |-> "recovering", batch |-> stale, todo |-> stale]]
    /\ UNCHANGED <<rowVars, accounts, fileVars, server, loop, runner, crashes,
                   faults>>

QueryStale(s) ==
    /\ \/ s = "hourly" /\ sweep[s].at = "expiring" /\ sweep[s].todo = {}
       \/ s = "startup" /\ sweep[s].at = "off" /\ server = "starting"
    /\ LET stale == {j \in Jobs : Stale(j)}
       IN  sweep' = [sweep EXCEPT ![s] =
                       [at |-> "recovering", batch |-> stale, todo |-> stale]]
    /\ UNCHANGED <<rowVars, accounts, fileVars, server, loop, runner, crashes,
                   faults>>

\* Mutant: recovery leaves the result file of a run that died before its commit.
RecoverUploadsOnly(s, j) ==
    /\ sweep[s].at = "recovering"
    /\ j \in sweep[s].todo
    /\ sweep' = [sweep EXCEPT ![s].todo = @ \ {j}]
    /\ CleanTemp(j)
    /\ UNCHANGED <<rowVars, accounts, results, server, loop, runner, crashes,
                   faults>>

\* One turn of the loop.  The new status is set on the loaded object only.
\* Each of the two deletions has its own except clause.
RecoverFiles(s, j) ==
    /\ sweep[s].at = "recovering"
    /\ j \in sweep[s].todo
    /\ sweep' = [sweep EXCEPT ![s].todo = @ \ {j}]
    /\ CleanTemp(j)
    /\ \/ results' = results \ {j} /\ UNCHANGED faults
       \/ Fault /\ UNCHANGED results
    /\ UNCHANGED <<rowVars, accounts, server, loop, runner, crashes>>

(***************************************************************************)
(* The commit of the caller's session: every row loaded is failed, whatever*)
(* its status is by now.  If one of them was deleted in the meantime the   *)
(* flush raises (StaleDataError) and none is.  The server is up when its   *)
(* own sweep has committed.                                                *)
(***************************************************************************)
CommitRecovery(s) ==
    /\ sweep[s].at = "recovering"
    /\ sweep[s].todo = {}
    /\ LET batch == sweep[s].batch
       IN  IF \A j \in batch : HasRow(j)
             THEN /\ status' = [j \in Jobs |-> IF j \in batch THEN "failed"
                                                              ELSE status[j]]
                  /\ aged' = [j \in Jobs |-> aged[j] /\ j \notin batch]
             ELSE UNCHANGED <<status, aged>>
    /\ sweep' = [sweep EXCEPT ![s] = Off]
    /\ server' = IF s = "startup" THEN "up" ELSE server
    /\ UNCHANGED <<owner, key, saved, accounts, fileVars, loop, runner,
                   crashes, faults>>

-----------------------------------------------------------------------------
(* Time and failures *)

(***************************************************************************)
(* The row is not updated for stale_job_threshold_minutes (processing) or  *)
(* unsaved_result_ttl_hours (completed).  PromptRuns is the assumption the *)
(* threshold is chosen by: nothing is still working on a stale job.        *)
(***************************************************************************)
Age(j) ==
    /\ ~aged[j]
    /\ \/ status[j] = "completed" /\ ~saved[j]
       \/ status[j] = "processing" /\ (PromptRuns => runner[j] \notin Live)
    /\ aged' = [aged EXCEPT ![j] = TRUE]
    /\ UNCHANGED <<status, owner, key, saved, accounts, fileVars, server,
                   loop, runner, sweep, crashes, faults>>

\* The process dies: its threads, its handler and its open transaction go.
ServerCrash ==
    /\ server # "down"
    /\ crashes < MaxCrashes
    /\ crashes' = crashes + 1
    /\ server' = "down"
    /\ loop' = Idle
    /\ runner' = [j \in Jobs |-> IF runner[j] \in Live THEN "dead"
                                                       ELSE runner[j]]
    /\ sweep' = [sweep EXCEPT !["startup"] = Off]
    /\ UNCHANGED <<rowVars, accounts, fileVars, faults>>

Restart ==
    /\ server = "down"
    /\ server' = "starting"
    /\ UNCHANGED <<rowVars, accounts, fileVars, loop, runner, sweep, crashes,
                   faults>>

ScriptCrash ==
    /\ sweep["hourly"].at # "off"
    /\ crashes < MaxCrashes
    /\ crashes' = crashes + 1
    /\ sweep' = [sweep EXCEPT !["hourly"] = Off]
    /\ UNCHANGED <<rowVars, accounts, fileVars, server, loop, runner, faults>>

-----------------------------------------------------------------------------
HandlerNext ==
    \/ \E j \in Jobs : InsertRow(j)
    \/ StoreUpload("person", "garment") \/ StoreUpload("garment", "schedule")
    \/ Schedule \/ CleanCancelled \/ MarkSaved
    \/ DeleteAccountFiles \/ DeleteAccountRows

ClientNext ==
    \/ \E o \in Owners, k \in Keys \cup {NoKey} : BeginSubmit(o, k)
    \/ \E o \in Owners, j \in Jobs : CancelJob(o, j)
    \/ \E u \in Users : BeginDeleteAccount(u) \/ \E j \in Jobs : BeginSave(u, j)

SweepNext(s) ==
    \/ s = "hourly" /\ QueryExpired
    \/ s = "hourly" /\ \E j \in Jobs : DeleteExpired(j)
    \/ QueryStale(s)
    \/ \E j \in Jobs : RecoverFiles(s, j)
    \/ CommitRecovery(s)

Next ==
    \/ ClientNext
    \/ HandlerNext
    \/ \E j \in Jobs : RunnerNext(j) \/ Age(j)
    \/ \E s \in Sweepers : SweepNext(s)
    \/ ServerCrash \/ Restart \/ ScriptCrash

Spec == Init /\ [][Next]_vars

(***************************************************************************)
(* The event loop and the thread pool run what they have started, the      *)
(* supervisor restarts the server, the timer starts the script every hour, *)
(* and time passes.  Clients owe nothing and nothing has to break.         *)
(***************************************************************************)
Fairness ==
    /\ WF_vars(HandlerNext)
    /\ \A j \in Jobs : WF_vars(RunnerNext(j)) /\ WF_vars(Age(j))
    /\ \A s \in Sweepers : WF_vars(SweepNext(s))
    /\ WF_vars(Restart)

FairSpec == Spec /\ Fairness

-----------------------------------------------------------------------------
(* Properties *)

Terminal == {"completed", "failed", "cancelled"}

Undisturbed == crashes = 0 /\ faults = 0

BeingDeleted(j) == loop.op = "deleteRows" /\ loop.owner = owner[j]

(***************************************************************************)
(* At most one non-failed job per (scope, key): what the partial unique    *)
(* index is for.  It has to survive update_status, which moves rows back   *)
(* into the index, and not only the insert.                                *)
(***************************************************************************)
OneActivePerKey ==
    \A j, l \in Jobs :
        Active(j) /\ Active(l) /\ owner[j] = owner[l] /\ key[j] = key[l]
            => j = l

(***************************************************************************)
(* "A job is never both cancelled and processed" (job_store.py): whatever  *)
(* order cancel_job and run_job reach the row in, a cancelled job has no   *)
(* thread between its claim and its last write.                            *)
(***************************************************************************)
CancelledNeverRuns ==
    \A j \in Jobs : status[j] = "cancelled" => runner[j] \notin Working

(***************************************************************************)
(* What a client that polls a job was told at the end stays true: a        *)
(* completed, failed or cancelled job changes only by being deleted.  The  *)
(* update_status of a live run and the commit of a recovery are both       *)
(* unconditional, so this rests on the two never meeting.                  *)
(***************************************************************************)
TerminalIsFinal ==
    [][\A j \in Jobs :
         status[j] \in Terminal => status'[j] \in {status[j], "deleted"}]_vars

(***************************************************************************)
(* A completed job can be viewed: until its time to live is over, its      *)
(* result file is there.  It is about the order of save_result and         *)
(* update_status and about both sweeps, with crashes and disk errors.  The *)
(* jobs of an account lose their files before their rows when it is        *)
(* deleted, and keep the rows if that deletion breaks off.                 *)
(***************************************************************************)
FreshResultAvailable ==
    \A j \in Jobs :
        /\ status[j] = "completed" /\ ~saved[j] /\ ~aged[j]
        /\ owner[j] = Anonymous \/ (Undisturbed /\ ~BeingDeleted(j))
        => j \in results

(***************************************************************************)
(* No result file is left under a failed or cancelled job, where no sweep  *)
(* looks for it: a run that died between save_result and its commit is     *)
(* cleaned up after by the recovery.  A deletion that fails there is given *)
(* up for good, so this is about runs without disk errors.                 *)
(***************************************************************************)
NoStrayResult ==
    faults = 0 =>
        \A j \in results : status[j] \in {"processing", "completed", "deleted"}

(***************************************************************************)
(* "Permanently deletes the signed-in account and everything tied to it:   *)
(* every job's result image" (delete_account).                             *)
(***************************************************************************)
ResultGoneWithAccount == \A j \in results : status[j] # "deleted"

(***************************************************************************)
(* "Explicitly keep a result past the unsaved-result TTL" (save_try_on_    *)
(* result): once a save is answered, the result is there.                  *)
(***************************************************************************)
SavedResultKept ==
    \A j \in Jobs :
        status[j] = "completed" /\ saved[j] /\ ~BeingDeleted(j)
            => j \in results

(***************************************************************************)
(* "Temp uploads are always deleted once a job finishes" (storage.py):     *)
(* when a job is over and neither its thread nor a handler is still on its *)
(* way to cleanup_temp, its input photos are gone.  A process that dies on *)
(* that way leaves them, so this is about runs without crashes.  It needs  *)
(* TidyCleanup too: an error of the file system is ignored.                *)
(***************************************************************************)
UploadsGoneWhenOver ==
    \A j \in Jobs :
        /\ crashes = 0
        /\ status[j] \in Terminal \cup {"deleted"}
        /\ runner[j] \notin Live /\ loop.job # j
        => uploads[j] = {}

(***************************************************************************)
(* The reason for job_recovery.py: no job stays processing for ever, even  *)
(* if its process dies at any point and a disk error hits the sweep.       *)
(***************************************************************************)
ProcessingEnds ==
    \A j \in Jobs : status[j] = "processing" ~> status[j] # "processing"

(***************************************************************************)
(* The privacy requirement the script enforces: an expired result is       *)
(* deleted in the end unless it is saved first, even if one deletion       *)
(* fails, because the sweep leaves the row as it found it.                 *)
(***************************************************************************)
ExpiredResultDeleted ==
    \A j \in Jobs : Expired(j) ~> (j \notin results \/ saved[j])

(***************************************************************************)
(* Every accepted job is run or cancelled: a row is never left pending by  *)
(* the handler that inserted it, unless a crash or a disk error interrupts *)
(* that handler or the task.                                               *)
(***************************************************************************)
PendingEnds ==
    \A j \in Jobs :
        status[j] = "pending" ~> status[j] # "pending" \/ ~Undisturbed

-----------------------------------------------------------------------------
(* Why they hold: the inductive invariants *)

\* Nothing but the claim of run_job moves a row out of "pending" under a thread.
ClaimedBeforeWork ==
    \A j \in Jobs :
        runner[j] \in Working => status[j] \notin {"absent", "pending", "cancelled"}

\* While a submission is under way its row is pending and nobody runs it.
SubmittedIsPending ==
    /\ \A j \in Jobs : status[j] = "absent" => runner[j] = "unscheduled"
    /\ loop.op \in {"person", "garment", "schedule"} =>
         /\ loop.job \in Jobs
         /\ status[loop.job] = "pending"
         /\ runner[loop.job] = "unscheduled"

\* A thread between claim and last write has its row to itself.
WorkingIsProcessing ==
    \A j \in Jobs :
        runner[j] \in Working => status[j] \in {"processing", "deleted"}

\* A row is processing only while the run that claimed it works, or has died.
ProcessingIsClaimed ==
    \A j \in Jobs : status[j] = "processing" => runner[j] \in Working \cup {"dead"}

\* This is where PromptRuns enters.
StaleIsDead ==
    \A j \in Jobs : Stale(j) => runner[j] \notin Live

\* What a recovery has loaded stays as dead as it was when it was queried.
RecoveredIsDead ==
    \A s \in Sweepers : \A j \in sweep[s].batch :
        /\ runner[j] \notin Live
        /\ status[j] \in {"processing", "failed", "deleted"}

PromptInv ==
    /\ TypeOK
    /\ SubmittedIsPending
    /\ WorkingIsProcessing
    /\ ProcessingIsClaimed
    /\ StaleIsDead
    /\ RecoveredIsDead

\* A sweep turns to no job but those it has loaded, and what the expiry sweep
\* has loaded stays complete, and expired unless it is saved meanwhile.
SweepsKeepToBatch ==
    /\ \A s \in Sweepers :
          sweep[s].at = "recovering" => sweep[s].todo \subseteq sweep[s].batch
    /\ \A j \in sweep["hourly"].todo :
          sweep["hourly"].at = "expiring" =>
            \/ status[j] = "deleted"
            \/ status[j] = "completed" /\ (saved[j] \/ aged[j])

\* What a thread has stored is still there when it completes the row.
StoredUntilCompleted ==
    /\ loop.op \in {"deleteFiles", "deleteRows"} => loop.owner \in Users
    /\ \A j \in Jobs :
          /\ runner[j] = "completing" /\ status[j] = "processing"
          /\ owner[j] = Anonymous \/ (Undisturbed /\ ~BeingDeleted(j))
          => j \in results

\* Before save_result there is no result, and a recovery deletes those it finds.
NothingStoredYet ==
    faults = 0 =>
        /\ \A j \in Jobs :
              runner[j] \in {"unscheduled", "queued", "claiming", "loading",
                            "generating", "storing", "failing"}
                => j \notin results
        /\ \A s \in Sweepers :
              sweep[s].at = "recovering" =>
                  sweep[s].batch \cap results \subseteq sweep[s].todo

\* The rows of an account go after its uploads; without a crash a processing
\* job has its thread, and a job that is over has been cleaned up after.
UploadsFollowRows ==
    /\ loop.op = "deleteRows" => \A j \in JobsOf(loop.owner) : uploads[j] = {}
    /\ \A j \in Jobs : status[j] = "deleted" => uploads[j] = {}
    /\ crashes = 0 => \A j \in Jobs :
          /\ runner[j] # "dead"
          /\ status[j] = "processing" => runner[j] \in Working
          /\ /\ status[j] \in Terminal /\ runner[j] \notin Live
             /\ ~(loop.op = "cleanCancelled" /\ loop.job = j)
             => uploads[j] = {}

-----------------------------------------------------------------------------
(* The refinement *)

Lifecycle == INSTANCE JobLifecycle WITH
    Requests  <- Owners \X Keys,
    NoRequest <- NoKey,
    request   <- [j \in Jobs |-> IF key[j] = NoKey THEN NoKey
                                                   ELSE <<owner[j], key[j]>>]

(***************************************************************************)
(* With threads, sweeps, crashes and disk errors, a client still sees no   *)
(* more than the lifecycle the docstrings promise: no job is claimed twice,*)
(* leaves a final state, or is created for a request that has one.         *)
(***************************************************************************)
ImplementsLifecycle == Lifecycle!Spec

=============================================================================

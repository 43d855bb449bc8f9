# Virtual try-on: a TLA+ model

The repository is a virtual try-on service. A person's photo and a garment's
photo go to `POST /api/try-on`, a diffusion model generates an image for minutes
or hours in a background thread, and the client polls until the job is over.
This directory models the parts of it where ordering, crashes and time matter:
who may write a job's row and files, when; which requests become jobs; what the
timeouts around the model add up to; accounts, reset links and administrators;
the extraction of garments from foreign pages; and the browser's side of a job.

Paths below are relative to `src/`; `services/` is short for
`backend/app/services/`, `api/` for `backend/app/api/`, `hooks/` for
`frontend/src/hooks/`.

## 1. Inventory

### Components, their state and operations

| Component | State | Operations | Correct when |
|---|---|---|---|
| Try-on job service (`services/tryon_service.py`, `db_job_store.py`, `api/tryon.py`) | table `jobs`: status, owner, idempotency scope and key, saved, updated_at | submit, cancel, save, `run_job` | one writer at a time owns a row; a final status is final; one active job per key |
| File storage (`services/storage.py`) | `tmp/<job>/` with two inputs, `results/<job>.png` | save/load/cleanup of uploads, save/delete of results | files agree with rows: inputs go when a job is over, a result exists while it is promised, none without a job |
| Stale-job recovery (`services/job_recovery.py`) | the rows loaded by its query | query, delete files per job, commit; at startup and hourly | gives up dead jobs only, and every one of them |
| Cleanup script (`backend/scripts/cleanup_expired_results.py`) | the list its query returned | delete expired results, then recovery, then purge of reset tokens | every expired unsaved result goes; nothing else does |
| Account deletion (`api/auth.py`) | table `users` | delete the files of all jobs, then the rows by cascade | nothing of the account remains |
| Self-hosted provider (`backend/app/providers/selfhosted.py`) | a lock, a daemon thread per inference | `generate` under two timeouts | one inference at a time; every caller comes back; the lock comes back |
| Admission (`api/tryon.py`, `services/quota_service.py`, `capacity_service.py`) | the job rows | key lookup, quota, capacity, insert, clash | a retry gets the same job; limits hold as far as the code says |
| Rate limiter (`services/rate_limiter.py`) | recent hits per client | `check` | at most `max_requests` in any window; an honest Retry-After |
| Signup, login, sessions (`api/auth.py`, `backend/app/auth/`) | table `users`, tokens at the clients, requests between authentication and handler | sign up, sign in, authenticate, delete | a token of an older version, a disabled or a deleted account is turned away |
| Password reset (`services/password_reset_service.py`) | table `password_reset_tokens`, `auth_version` | issue, mail, commit or roll back, consume, expire, purge | a link is used once; one valid link per account; old sessions end |
| Administration (`services/admin_service.py`, `backend/scripts/promote_admin.py`) | plan limits, `is_active`, `is_admin`, audit log | disable, enable, edit a plan, promote | flags and log agree; an administrator remains |
| Product extraction (`product-extractor/`, `api/extraction.py`) | the fetch the loop is busy with | look up, check, connect, redirect, robots.txt | no connection into the internal network; a page is asked for as its robots.txt allows; a bounded number of requests |
| Frontend flow (`hooks/useTryOnFlow.ts`) | selection, screen, calls under way, timer, remembered key | submit, poll, cancel, start over | what the screen says is true, and it never hangs |
| Frontend session (`frontend/src/api/http.ts`) | stored token | restore, store, clear | not modelled |
| Body-size limit (`backend/app/core/body_size_limit.py`) | bytes counted | count, abort | not modelled |

The rest (human parsing, the text of e-mails, validation, the browser extension,
the look of the screens) is stateless or pure input and output.

### How they interact

The API is one uvicorn process (`docs/DEPLOYMENT.md:103`). Its route handlers
are coroutines that call the database and the disk without awaiting, so between
two awaits a handler has the event loop to itself. `run_job` is a
`BackgroundTask` and runs in a thread of the same process, so it interleaves
with handlers at every database or file call. The cleanup script is another
process, started hourly by `deploy/systemd/aitryon-cleanup.timer`; it interleaves
with everything. All share the database and the storage directory, which no
common transaction covers. The provider's lock is shared by the job threads
and by the daemon threads they start.

The authentication of a request is a FastAPI dependency and runs in a thread,
before its handler gets the loop: an account can change in between. The browser
talks to all of this over requests that may be late, lost or overtaken, and
nothing in it aborts a request it no longer needs.

### What is hard

* A thread finishing a job while a sweep gives it up, or while its account is
  deleted.
* Crashes between a file operation and the commit it belongs to, in both orders.
* Data read in one transaction and relied on in the next (save, both sweeps).
* Unconditional updates of a status beside conditional ones, and a partial
  unique index that rows enter again when their status changes.
* Three timeouts that are meant to backstop each other.
* Checks and the insert they guard with an await between them.
* Two transactions that each see only what the other has committed: two reset
  links at once, two administrators at once.
* A name service that answers a check and the connection after it differently.
* Answers that reach the browser after the user has moved on.

`PROJECT.json` lists each of these hazards at its line with the properties that
would show it going wrong.

## 2. Modules

| Module | Models |
|---|---|
| `TryOnJobs` | the life of a job across handlers, threads, both sweeps, account deletion, crashes and disk errors |
| `JobLifecycle` | the abstract specification: what a client may see of a job |
| `Provider` | `generate` with its lock and timeouts, and the age of the row meanwhile |
| `TimedJobs` | `TryOnJobs` and `Provider` in one system: each job's thread goes through the provider, and its row ages by the provider's clock |
| `Admission` | a request from its arrival to its answer, in one worker or several |
| `RateLimiter` | `RateLimiter.check` (a library: variables and actions without a next-state relation) |
| `Extraction` | the three extraction routes behind their limiters; extends `RateLimiter` |
| `Accounts` | signup, login, reset links, account deletion, on one or more workers (actions only) |
| `Administration` | what administrators do to the same tables; extends `Accounts` and composes both |
| `TryOnFlow` | one tab of the browser, with `JobLifecycle` as its server |
| `MCTryOnJobs`, `MCAdmission`, `MCAdministration` | the symmetry sets of the larger models |
| `TryOnJobs_proofs`, `Provider_proofs`, `TimedJobs_proofs`, `JobLifecycle_proofs`, `Admission_proofs`, `Administration_proofs`, `Extraction_proofs`, `TryOnFlow_proofs` | theorems |

`JobLifecycle` joins the sides: `TryOnJobs`, `TimedJobs` and `Admission` are proved
to implement it, each with its own view of the same rows, and `TryOnFlow` relies on
nothing else of the server. It leaves out one step, `Erase`: the account of the tab
is not deleted from elsewhere while the tab is at work.

### TryOnJobs

*State.* `status`, `owner`, `key` and `saved` are columns of `jobs`, `aged`
says whether `updated_at` has passed the cutoff of the sweep concerned. The
idempotency scope is the owner: for anonymous callers, in truth, the client
address, of which the module has one. `uploads` and `results` are the directory.
`server`, `loop`, `runner` and `sweep` are program counters: of the process,
of the handler the event loop is in, of each job's thread, of each sweep.

*Actions.* A committed transaction is one step and a call of `StorageService`
is one step. A handler is a chain of steps: `BeginSubmit`, `InsertRow`, two
`StoreUpload`, `Schedule`; `CancelJob`, `CleanCancelled`; `BeginSave`,
`MarkSaved`; `BeginDeleteAccount`, `DeleteAccountFiles`, `DeleteAccountRows`.
`loop` holds the handler under way, which is how "one handler at a time"
enters. `RunnerNext(j)` is `run_job` in program order, including a `get` that
finds no row, a lost claim, missing uploads, a failing provider, a failing
`save_result`, and an `update_status` that breaks the unique index.
`DeleteAccountFiles` lets the whole loop over the jobs happen in one step: the
threads of the other jobs are not excluded between two turns of that loop in
the program, but they touch their own files only, and so does each turn.

*Failures.* `ServerCrash` ends handler, threads and the startup sweep; rows and
files stay. `ScriptCrash` ends the script, its uncommitted recovery with it. A
`Fault` makes one storage call raise. `cleanup_temp` never raises: it uses
`rmtree(ignore_errors=True)`, so with `TidyCleanup = FALSE` it may leave any
part of what was there.

*Parameters that stand for an assumption.*

* `PromptRuns`: no live `run_job` has a row old enough to be stale. This is what
  `stale_job_threshold_minutes` is chosen for. `TimedJobs` does without it: there it
  is a theorem, from the settings. Every property that needs it is
  checked with it, and the two that do not (`OneActivePerKey`,
  `CancelledNeverRuns`) are checked and proved without.
* `TidyCleanup`: see above. Only `UploadsGoneWhenOver` needs it.

*The abstraction.* `JobLifecycle` has two variables, the status of each job and
the request it was made for, and moves only along the documented edges.
`ImplementsLifecycle` maps the rows to it; files, threads, sweeps and crashes
stutter.

### Provider

`phase` is where a job's thread is in `run_job`/`generate`, `thread` is the
daemon thread of its inference. The lock is taken by one and released by the
other (`FinishInference`). `Tick` advances every clock at once and may not pass a
wait that has reached its limit, so a timeout is exact; all the time a run spends
outside the two waits (loading and saving images, scheduling) is at most
`Overhead`. `StartFails` is `worker.start()` raising, `LoadFails` a run whose uploads
are missing, which never calls `generate`. `Crash` ends every thread; the next
process has a lock of its own.

### TimedJobs

The variables of both modules side by side. A step of `run_job` from the claim to
the final write is one step of both (`TimedClaim`, `TimedLoad`, `TimedGenerate`,
`TimedEnd`): `Generate` with an outcome is `JoinReturns`, and failing is also giving up the
lock, a thread that does not start, or a join that times out. What `generate` and
the daemon threads do in between moves `Provider` only, what handlers and sweeps do
moves `TryOnJobs` only, and the death of the server is a `Crash` of both.
`TimedAge` replaces `Age`: a row with a live thread turns stale when the provider's
clock says it is older than `StaleThreshold`, and not before. `PromptRuns` does not
occur in any step of it. A claim that is lost changes no row and so does not touch
`updated_at`; a `COMPLETED` that fails on the index leaves the job to the write of
`FAILED`, during which it still counts as live.

### Admission

A request is at one step of the handler; `busy` says which request has a
worker's event loop. With a key nothing is awaited from the lookup to the insert;
without one the images are awaited after the checks, and `Await` gives the loop
away there. `Insert` consults the unique index, `Reuse` is the lookup after an
`IntegrityError`. `Advance` moves jobs on, as threads, cancels and sweeps do.
`ImplementsLifecycle` maps a row to a job of `JobLifecycle` whose request is its
scope and key, or none without a key; handlers before their insert stutter.
Days pass within one month; the start of a month is not modelled, since it
only empties the counts. A job is named by the request that made it.

### RateLimiter and Extraction

`Allow` and `Deny` are the two outcomes of `check`, which is one step since it
never awaits. `RetryAfter` truncates to whole seconds as the code does, with a
clock finer than a second. `granted` and `comeBack` are history variables.
`Recent` drops the hits from before the window; times are appended in order, so
they are a prefix.

`Extraction` runs one fetch at a time, because the handlers fetch without
awaiting: `task` is that fetch, with its step, the page it started from and the
redirects so far. `AssertSafe` is a lookup whose addresses are checked and
forgotten; `Hop` is one round of `_request`: a new lookup, its check, the
connection to one of the very addresses checked, and any of the answers with all of
its body. A hop takes as long as the server likes: the timeout is for each read and
the loop over the body has no deadline, so no fairness is assumed of it.
`Lookups` gives every set of addresses to every lookup, so nothing is assumed of
the name service. `Disallowed` keeps the order of the code's two tests, which
matters for addresses of NAT64. An unreadable robots.txt rules nothing out
(`Failed`, `GiveUp`), one that was read and refuses ends the task (`RobotsRead`).
`RuledOut` are the URLs that the robots.txt of their own site rules out, whether or
not it is ever read; `asked` records what was asked for as the page and whether a
redirect led there, `unread` that the robots.txt could not be read. All three
history variables are of the fetch under way.

### Accounts and Administration

*State.* The columns of `users` and `password_reset_tokens`, the tokens clients
hold (`sessions`, by version), the links in mailboxes. `txn` is the transaction
of each worker's handler: what it has read and will write, visible to the others
after its commit only. `held` are the requests that were authenticated and whose
handler has not run. `deployed` is the set of workers in use, chosen at the start.

*Actions.* A handler of one statement is one step (`Signup`, `Login`,
`DeleteAccount`). `forgot-password` is `BeginForgot` (which outstanding links its
DELETE sees), `LockOldLinks` (the DELETE gets their locks), `MailAccepted` or
`MailFails`, `CommitForgot`; `reset-password` is `BeginReset` (the conditional
UPDATE and the reads after it) and `CommitReset`. `Locks` are the rows a
transaction has changed and not committed: `LockedByOthers` makes another worker,
and `Purge`, wait for them, as the database does. `Pinned` are the accounts a
transaction has a foreign key to. `Abort` is any exception, a failing commit or
the death of the process. `BeginSetActive`/`CommitSetActive` and
`BeginUpdatePlan`/`CommitUpdatePlan` split the administrators' handlers where
another worker can come between read and commit; a flag that already had the
value when it was loaded is not part of the UPDATE, which is what SQLAlchemy does.
`Unlink` is `ON DELETE SET NULL` on the log.

### TryOnFlow

`call` holds the asynchronous functions under way: a `submit`, a `cancel`, or a
loop of `poll`, which asks or waits for its timer. A call is served by the server
at one moment (`ServeSubmit`, `ServePoll`, `ServeCancel`), answered at a later one,
and `Break` loses the request or the answer. What the function does with the
answer (`SubmitAnswered`, `PollAnswered`, `CancelAnswered`) happens whatever the
user did meanwhile. `timer` is `pollTimeoutRef`, which still names a timer that
another loop has overwritten: `StopPolling` clears that one only. `IdempotencyKey`
is the one-entry cache, so a choice needs no more than the values `"cached"` and
`"new"`. The buttons that can be hit follow the screens of `App.tsx`, with several
hits on one button before React renders (`MaxTaps`). `Overdue` is
`MAX_POLL_DURATION_MS`, per loop.

## 3. Runs

| Run | Asks | Bounds, and why they are enough |
|---|---|---|
| `jobs_races` | do the index and the conditional claim hold when sweeps may give up live jobs? | three jobs under one key: one to be given up and come back, one that took its key meanwhile, one more that wants it; one crash of either process |
| `jobs_prompt` | does the system implement `JobLifecycle`, and do files agree with rows? | two jobs, an account and an anonymous owner, one key and none, one crash, one fault: a sweep, a thread and a handler on the same job, and a bystander |
| `jobs_live` | does every job end and every expired result go? | two jobs without keys or accounts (neither blocks another job there), one crash, one fault, leftovers |
| `jobs_saved`, `jobs_deleted` | *violations*, see section 5 | one job suffices |
| `provider` | mutual exclusion, lock, ages, termination | three callers: one computing after its caller left, one waiting, one that overtakes it; threshold = both timeouts + overhead; one thread that cannot start; the process may die |
| `timed` | is the service on its provider what `TryOnJobs` describes under `PromptRuns`? | two jobs of one anonymous owner, without keys: one thread that computes or hangs, one that waits for its lock; one crash, one fault, one thread that cannot start; threshold = both timeouts + overhead, each 1 (with a threshold of one less the property fails) |
| `admission` | duplicates, quota, capacity, retries, `JobLifecycle` | three requests, with every choice of caller, key, body and worker; limits of 1 and 2, so each is reached |
| `accounts` | reset links, sessions, mail | two accounts (one stands by), three links (two at once and a successor), two workers, three versions (two resets), one request between authentication and handler |
| `administration` | flags and limits against the log, the last administrator | the same without links; two values of the limits, a log of four (two administrators and two changes) |
| `flow` | is a screen ever stuck or untrue? | two jobs, two calls, two keys, two hits on a button, one on Cancel: a loop of an earlier submission beside a newer one, with the timer of either |
| `extraction` | window, Retry-After, no early denial, addresses, robots.txt, a bounded fetch | two clients, three URLs (one refused unseen, one that a robots.txt rules out), two redirects; two requests per window of three half-second ticks, and more than a window of time |

The largest are `extraction` and `timed` (1.7 million distinct states each),
`admission` (1.5 million), `administration` (1,060,388), `jobs_prompt` (797,506) and
`flow` (767,000).

Properties worth knowing before reading them:

* `FreshResultAvailable`, `NoStrayResult`, `UploadsGoneWhenOver` and
  `PendingEnds` name in their antecedent what the code does not survive. Those
  gaps are real and are listed as hazards: an account deletion that breaks off
  half-way has already deleted results; a `delete_result` that fails in a
  recovery leaves an orphan; a crash before the `finally` clause leaves photos;
  a crash after the insert leaves a job pending for ever.
* `OneWorker` in some properties of `Admission` and `Administration` is the
  deployment rule of `docs/DEPLOYMENT.md:103`; the runs have executions with two
  workers as well, and the properties without it are checked on them.
* `AdminRemains` excepts a change made by an administrator who was disabled at that
  moment, i.e. since his request was authenticated (`Overtaken`): authentication and
  handler are apart, and two who disable each other at one moment both succeed.
* `RuledOutOnlyByRedirect` is weaker than "Never bypasses robots.txt"
  (`api/extraction.py:86`), which the code does not keep: it says where the check is
  passed by, and that this happens nowhere else (section 5).
* `FetchBounded` counts the lookups and requests of a fetch. It says nothing of how
  long one of them takes, which the code does not bound either.
* `ShownIsTrue` says nothing of *which* job the screen is about: a late answer to
  an earlier selection can bring its screen back (section 5).
* `CHECK_DEADLOCK FALSE` is used where the model ends: all callers of the
  provider are done, all requests answered, the clock at `MaxTime`, the ids, links,
  versions or keys of the instance used up. The runs of
  `TryOnJobs` do check deadlock.

### Fairness

`TryOnJobs!FairSpec`: a handler that has started goes on (the event loop), each
thread goes on (the pool), each sweep starts and goes on (the timer, and startup,
which precedes serving), a server that died restarts (`Restart=on-failure` in
`deploy/systemd/aitryon-backend.service`), and time passes. All weak. Clients are
owed no fairness and neither is any failure. `Generate` is within a thread's
fairness because `Provider` shows that `generate` returns (`EveryRunEnds`).

`Provider!FairSpec`: the callers' threads are scheduled and time passes. There
is no fairness on `FinishInference`: the pipeline may hang for ever, and the
callers still come back.

`Extraction` has none. Each read of a body has a timeout of its own
(`http_fetcher.py:154`) and there is no deadline for all of them: nothing in the code
makes a hop end by a certain time, and no property says that it does.

`TryOnFlow!FairSpec`: a request is answered or fails (weak fairness of
`Serve \/ Break`), the browser runs what is ready (weak, per call), and time
passes while a loop asks (strong, since a loop asks and waits by turns). Nothing
is assumed of the user, nor of the job: it may process for ever.

## 4. Proofs

`TryOnJobs_proofs`, for any sets of jobs, accounts and keys and any number of
crashes and faults:

* `TypeCorrect`: `TypeOK`.
* `CancelledNeverRunsHolds`: strengthened to `ClaimedBeforeWork` (a thread past
  its claim has a row that is neither absent, pending nor cancelled). Cancelling
  needs a pending row, and nothing makes a row pending again.
* `OneActivePerKeyHolds`: inductive with the types alone, because *both* ways
  into the index consult it, the insert and `update_status`.
* `PromptInvHolds` and `TerminalIsFinalHolds`, assuming `PromptRuns`: the
  invariant says that a thread at work has its row to itself
  (`WorkingIsProcessing`), that a handler submitting a job has it to itself
  (`SubmittedIsPending`), that a stale row has no thread (`StaleIsDead`, where
  the assumption enters) and that what a recovery has loaded stays dead until it
  commits (`RecoveredIsDead`). `TerminalIsFinal` fails without the last: the
  commit and `update_status` are unconditional, and only the absence of a thread
  keeps them apart. The steps are grouped into lemmas for handlers, threads and
  sweeps.
* `ImplementsLifecycleHolds`, assuming `PromptRuns`: each step is a step of
  `JobLifecycle` or a stutter. `PromptInv` says from which status a row moves;
  the unique index, that a submission is for a request without a job.
* `FreshResultAvailableHolds`, assuming `PromptRuns`: from `StoredUntilCompleted`
  (what a thread has stored is there when it completes the row) and
  `SweepsKeepToBatch` (the expiry sweep has only completed, expired rows in hand,
  saved or not).
* `NoStrayResultHolds`: from `NothingStoredYet` (before `save_result` there is no
  file, and a recovery has yet to visit each of its jobs that has one).
* `UploadsGoneWhenOverHolds`, assuming `PromptRuns` and `TidyCleanup`: from
  `UploadsFollowRows`, which follows the photos of a job through each way it can
  end.

`Provider_proofs`, for any number of callers and any timeouts:

* `TypeCorrect`, with the bound of each timed wait.
* `RunBoundHolds`: nobody is responsible for a job any more once both timeouts and
  the overhead have passed since its claim. From `AgeInv`: the age of a row is at
  most the sum of the waits behind it. `EveryRunEnds` is the liveness half.
* `OneGenerationHolds` from `LockInv`: whoever is about to start or is computing
  holds the lock, and they are one.
* `StaleIsDeadHolds`, assuming
  `LockTimeout + InferenceTimeout + Overhead <= StaleThreshold`, from `RunBound`.
* `LockIsBackedHolds`: a lock that is taken has a thread computing or starting
  behind it, unless one could not be started.

`TimedJobs_proofs`, for any jobs, accounts, keys, timeouts, crashes and faults.

* `ImplementsTryOnJobsHolds`, assuming the same inequality: every step of the
  composed system is a step of `TryOnJobs` with `PromptRuns`. `ImplementsProvider`
  shows that the composed system does not disturb `Provider`, so `StaleIsDead`
  holds in it; `InStep` says where the provider sees a thread by where `run_job`
  is, so that a thread at work is one `Provider` counts as live. The inductive
  invariant has `ProcessingIsClaimed` of `TryOnJobs` beside it: a processing row
  belongs to a thread past its claim or one that died there. Without it a row
  could turn stale under a thread that is about to claim it.
* `ServiceKeepsPromises`: `TerminalIsFinal`, `ImplementsLifecycle`,
  `FreshResultAvailable` and `NoStrayResult` of the composed system, from the
  inequality and without `PromptRuns`. For this `TryOnJobs_proofs` states each of
  its results twice: from `[]PromptInv`, and from `PromptRuns`, which gives it.
* `ServiceTidiesUp`: the same of `UploadsGoneWhenOver`, with `TidyCleanup`.
* `ServiceRunsOneGeneration`: `OneGeneration` of the composed system, with no
  assumption at all.

So what is assumed of the clock is arithmetic about three settings and one figure
the code does not name, `Overhead`; section 5 does the sum for the shipped values.

`JobLifecycle_proofs`, about every system shown to implement it: `OneHolderHolds`
(a request never has two jobs that have neither failed nor been deleted) and
`OnwardsHolds` (a job keeps its request, never becomes pending again, and leaves a
final status only by deletion).

`Admission_proofs`, for any requests, keys, callers, workers and limits. `KeyInv`
(of the jobs of a key at most one has not failed, and whoever is given a job is
given one of its own key and body) gives
`DuplicatesShareJobHolds`, `JobIsAsAskedHolds` and `RetryNeverBlockedHolds`, with
any number of workers. `LoopInv` (a keyed request between its checks and its
insert has the loop, and what it found is still so) gives
`KeyedWithinQuotaHolds` and `KeyedWithinCapacityHolds` under `OneWorker`, through
the step-wise `LimitsKept`: cardinalities grow by inserts only.
`ImplementsLifecycleHolds`, with any number of workers, takes `NoJobYet` (a request
without an answer has no row) and the index consulted by `Insert`: two handlers that
both found a key free do not both get a job for it, and `OneHolder` follows.

`Administration_proofs`, for any accounts, links, workers and limits.

* `LinkInv`: whose link a transaction holds, what it has locked, and that a link
  open or about to be committed is mailed. It gives `LinkHonouredOnceHolds`,
  `OpenLinkWasMailedHolds` and `LinkLostToSuccessorHolds` for any number of
  workers.
* `AloneInv`, of one worker: no other transaction comes between, so the links to be
  dropped are the outstanding ones, and the version read is the version. It gives
  `OneValidLinkHolds` and `ResetEndsSessionsHolds`.
* `LogInv`: with one worker what a handler has loaded is still so when it commits
  (`LoadedIsCurrent`), and whoever acts, or is named in the log, is an
  administrator who acts on somebody else (`ActorsAreAdmins`). It gives
  `LogMatchesFlagsHolds`, `PlanHistoryConnectedHolds` and `AdminRemainsHolds`.
* `LogIsKeptHolds` is an action property and needs the types only.

`Extraction_proofs`, for any URLs, redirects, clients, limits and window.

* `FetchInv`: the addresses connected to were accepted. It gives
  `OnlyPublicContactedHolds`. `PageMayBeAsked` (what is about to be asked for as the
  page, before any redirect, is allowed by its robots.txt unless that could not be
  read) gives `RuledOutOnlyByRedirectHolds`.
* `LimiterInv`: the hits of a client are the last of its grants, those before them
  have left the window, any `MaxRequests + 1` grants in a row span it, and after a
  denial the oldest of `MaxRequests` hits leaves it by the time named. It gives
  `WindowBoundHolds` (the grants in a window are an interval of at most
  `MaxRequests`) and `RetryAfterSufficesHolds` (whole seconds, rounded up), at any
  number of ticks to the second, and `NeverRefusedEarlyHolds`: the hits that count
  against a client are an interval of its grants, all within the window. With
  `WindowBound` it makes the limiter exact.
* `FetchBoundedHolds`: `StepsLeft`, a variant of stage and hops, is smaller after
  each step of a fetch (`FetchBounded`), and between 0 and `6 * (MaxRedirects + 1)`.

`TryOnFlow_proofs`, for any numbers of jobs, calls and keys and any loss or delay of
requests: `InProgressIsWatchedHolds` and `ShownIsTrueHolds`, with `JobsAreKnown` and
`AnswersStayTrue` (an answer that says a job is over stays true, because
`JobLifecycle` leaves a final status by `Erase` only, which the tab's server here
does not take).

Every module with an `Init` of its own has a `TypeCorrect`, but for `TimedJobs`,
which has those of its two parts. `TypeOK` is not an invariant of a run: the
theorems are about every instance.

*Only model-checked:* liveness (outside the prover's reach): `ProcessingEnds`,
`ExpiredResultDeleted`, `PendingEnds`, `EveryRunEnds`, `ProcessingScreenEnds`. They
rest on fairness, which the prover's backends do not handle. `RunBoundHolds` proves
the safety half of `EveryRunEnds`. Every safety property, action property and
refinement of a passing run is proved.

## 5. What disagrees with the code's own words

* **Saving an expired result** (`jobs_saved`, `SavedResultKept`). The expiry sweep deletes the file
  and leaves the row completed; `save_job` looks at the row only and answers
  that the result is kept.
* **Deleting an account while it generates** (`jobs_deleted`,
  `ResultGoneWithAccount`). The thread stores
  its result after the rows are gone, and both sweeps go by rows: the image stays.

Noticed while reading, without a run of their own:

* `db_job_store.py:155` takes it for granted that the lookup after a clash finds
  the winner. The winner may have failed by then, its row left the index, and the
  request ends in an error (`Reuse`, answer `"error"`).
* `hooks/useTryOnFlow.ts:139` says that a job is never created already cancelled. A
  cancelled job keeps its key (`services/db_job_store.py:110`), so the same
  selection submitted again is answered with the cancelled job, and the flow shows
  it as cancelled for ever unless a picture is picked again (`ServeSubmit`).
* With two workers a retry can be refused by limits its own job uses up.
* `rate_limiter.py` calls itself a fixed window; it is a sliding log, which is
  stronger (`WindowBound`).
* The quota of an anonymous caller counts the jobs of signed-in users behind the
  same address.
* The shipped timeouts are 3600 s for the lock, 3600 s for the inference, 120 min
  for the threshold (`backend/app/config.py:84`): nothing is left for the rest of a
  run, so the assumption of `TimedJobs_proofs` is missed by `Overhead`. A run that long can then
  complete after a recovery has queried and before it deletes, and lose its result
  (`services/job_recovery.py:76`, `:121`).
* `worker.start()` raising (`providers/selfhosted.py:125`) leaves the lock taken
  (`:119`) until the process is restarted.
* Two administrators who disable each other at one moment both succeed.
* With two workers, two reset requests at once leave two valid links.
* "Never bypasses robots.txt" (`api/extraction.py:86`): `_request` follows a redirect
  of the page (`http_fetcher.py:158`) to any path or site without a look at the
  robots.txt there, nor is one read for the image the page names. In the model a
  page in `RuledOut` is asked for in this way; `RuledOutOnlyByRedirect` says it is the only one
  besides an unreadable robots.txt.
* "its own short timeout" (`api/extraction.py:5`): the 10 s are for each read. A body
  that keeps arriving in small pieces holds the fetch, and with it the event loop:
  there is no deadline, only a limit on the size.
* The dictionary of the rate limiter (`services/rate_limiter.py:26`) keeps an entry
  for every client it has seen until the process ends.
* In the browser, an answer to a poll of an earlier selection brings its screen
  back; Cancel hit before the submission is answered asks the server about an empty
  id, and the job runs on; a 401 for a token replaced since clears the new session
  (`frontend/src/api/http.ts:64`).

## 6. Not modelled

Images, prompts, formats and messages; the read-only routes and the usage
endpoint; `InMemoryJobStore` (tests only); validation and error texts; human
parsing and the search for the garment in an image (arithmetic on images); the text
of e-mails and the console backend; passwords and the expiry of access tokens
(which only takes sessions away); the extension and the look of the screens.

* *Body-size limit*: a counter in one coroutine per request, with which nothing
  interleaves.
* *Frontend session*: restoring, storing and clearing one token. Its one hazard, a
  late 401, is listed; no text in the repository says what should hold of it.
* *Settings*: the numbers are constants of the modules; the checks of production
  secrets are not modelled.

The database is taken to give each transaction its effect at its commit, or
nothing, and to make a transaction wait for the rows another has changed.

## 7. What is left

1. **Frontend session**: the token, several tabs and a late 401, composed with
   `Accounts` as the server.
2. **Plan changes during admission**: `Administration` edits the limits `Admission`
   holds constant.
3. **Save and delete from the browser**: `markSaved`, a second tab, and an account
   deleted there while the first one polls (`Erase` in the server of `TryOnFlow`).

------------------------------ MODULE Admission ------------------------------
(***************************************************************************)
(* POST /api/try-on from the arrival of a request to its answer: which     *)
(* requests become jobs.  The handler looks for a job of the same          *)
(* Idempotency-Key, checks the caller's quota and the global capacity, and *)
(* inserts a row.  Each of these is a database transaction of its own; the *)
(* background threads and the handlers of other workers write in between.  *)
(*                                                                         *)
(* Within one worker a handler keeps the event loop until it awaits.  With *)
(* a key nothing is awaited between the lookup and the insert; without     *)
(* one the two images are read after the checks (an upload over 1 MB is    *)
(* read in a thread), so other handlers run in between.                    *)
(*                                                                         *)
(* A job is named by the request that created it.  Files, the rate limiter *)
(* and the steps of a running job are the subject of other modules.        *)
(***************************************************************************)
EXTENDS Naturals, FiniteSets

CONSTANTS
    Requests, Nobody,   \* requests; no request
    Workers,            \* API processes
    Users, NoUser,      \* accounts; the caller is not signed in
    Ips,                \* client addresses
    Keys, NoKey,        \* values of the Idempotency-Key header; it is absent
    Bodies,             \* fingerprints: what the client asked for
    DayLimit, MonthLimit,  \* the plan's generations per day and month
    MaxActive,             \* max_active_tryon_jobs
    Days                   \* bound: days of the month that pass

ASSUME ParameterAssumption ==
    /\ IsFiniteSet(Requests)
    /\ Nobody \notin Requests
    /\ NoUser \notin Users
    /\ NoKey \notin Keys
    /\ Users \cap Ips = {}
    /\ DayLimit \in Nat /\ MonthLimit \in Nat /\ MaxActive \in Nat
    /\ Days \in Nat

VARIABLES
    at,       \* where the handler of each request is
    req,      \* what it asks for, and who asks
    on,       \* the worker it runs on
    busy,     \* the request that has each worker's event loop
    answer,   \* what the client is told
    job,      \* ... and which job it is given
    status,   \* the column status of the job the request created
    created,  \* the column created_at, as a day
    today

vars == <<at, req, on, busy, answer, job, status, created, today>>

-----------------------------------------------------------------------------
Request == [user : Users \cup {NoUser}, ip : Ips, key : Keys \cup {NoKey},
            body : Bodies]

Steps == {"new", "quota", "capacity", "reading", "insert",
          "clash", "done"}

Answers == {"none", "job", "mismatch", "quota", "capacity", "error"}

TypeOK ==
    /\ at \in [Requests -> Steps]
    /\ req \in [Requests -> Request]
    /\ on \in [Requests -> Workers]
    /\ busy \in [Workers -> Requests \cup {Nobody}]
    /\ answer \in [Requests -> Answers]
    /\ job \in [Requests -> Requests \cup {Nobody}]
    /\ status \in [Requests -> {"none", "pending", "processing", "completed",
                                "failed", "cancelled"}]
    /\ created \in [Requests -> Nat]
    /\ today \in Nat

\* What will be asked, by whom, and which worker gets it, is open.
Init ==
    /\ at = [r \in Requests |-> "new"]
    /\ req \in [Requests -> Request]
    /\ on \in [Requests -> Workers]
    /\ busy = [w \in Workers |-> Nobody]
    /\ answer = [r \in Requests |-> "none"]
    /\ job = [r \in Requests |-> Nobody]
    /\ status = [r \in Requests |-> "none"]
    /\ created = [r \in Requests |-> 0]
    /\ today = 0

-----------------------------------------------------------------------------
Jobs == {j \in Requests : status[j] # "none"}

Keyed(r) == req[r].key # NoKey

\* client_key: "user:<id>" or "ip:<ip>".
Scope(r) == IF req[r].user # NoUser THEN req[r].user ELSE req[r].ip

SameKey(r, j) == Keyed(r) /\ req[j].key = req[r].key /\ Scope(j) = Scope(r)

\* The rows of the partial unique index with the request's scope and key.
Holders(r) == {j \in Jobs : SameKey(r, j) /\ status[j] # "failed"}

\* Jobs of any status counted against the caller.
Charged(r) ==
    IF req[r].user # NoUser
    THEN {j \in Jobs : req[j].user = req[r].user}
    ELSE {j \in Jobs : req[j].ip = req[r].ip}

QuotaExceeded(r) ==
    \/ Cardinality({j \in Charged(r) : created[j] = today}) >= DayLimit
    \/ Cardinality(Charged(r)) >= MonthLimit

ActiveJobs == {j \in Jobs : status[j] \in {"pending", "processing"}}

AtCapacity == Cardinality(ActiveJobs) >= MaxActive

-----------------------------------------------------------------------------
\* The handler of r takes the event loop, or still has it, at this step.
Running(r, step) == at[r] = step /\ busy[on[r]] = r
Resume(r, step)  == at[r] = step /\ busy[on[r]] = Nobody

GoOn(r, step) ==
    /\ at' = [at EXCEPT ![r] = step]
    /\ busy' = [busy EXCEPT ![on[r]] = r]
    /\ UNCHANGED <<answer, job>>

Await(r, step) ==
    /\ at' = [at EXCEPT ![r] = step]
    /\ busy' = [busy EXCEPT ![on[r]] = Nobody]
    /\ UNCHANGED <<answer, job>>

Reply(r, a, j) ==
    /\ at' = [at EXCEPT ![r] = "done"]
    /\ busy' = [busy EXCEPT ![on[r]] = Nobody]
    /\ answer' = [answer EXCEPT ![r] = a]
    /\ job' = [job EXCEPT ![r] = j]

\* An existing job of the same key: the same request gets it, another a 409.
ReplyExisting(r, j) ==
    IF req[j].body = req[r].body THEN Reply(r, "job", j)
                                 ELSE Reply(r, "mismatch", Nobody)

rowVars == <<status, created>>

\* A path that goes to the checks first, as the one without a key does.
LookupLater(r) ==
    /\ Resume(r, "new")
    /\ Keyed(r)
    /\ GoOn(r, "quota")
    /\ UNCHANGED <<req, on, rowVars, today>>

\* find_idempotent_job, once both images have been read.
Lookup(r) ==
    /\ Resume(r, "new")
    /\ Keyed(r)
    /\ \/ Holders(r) = {} /\ GoOn(r, "quota")
       \/ \E j \in Holders(r) : ReplyExisting(r, j)
    /\ UNCHANGED <<req, on, rowVars, today>>

\* QuotaService.get_status.
CheckQuota(r) ==
    /\ Running(r, "quota") \/ (Resume(r, "new") /\ ~Keyed(r))
    /\ IF QuotaExceeded(r) THEN Reply(r, "quota", Nobody)
                           ELSE GoOn(r, "capacity")
    /\ UNCHANGED <<req, on, rowVars, today>>

\* The images read after the checks on the keyed path too.
CheckCapacityThenRead(r) ==
    /\ Running(r, "capacity")
    /\ IF AtCapacity THEN Reply(r, "capacity", Nobody) ELSE Await(r, "reading")
    /\ UNCHANGED <<req, on, rowVars, today>>

\* _check_capacity; without a key, the images are awaited next.
CheckCapacity(r) ==
    /\ Running(r, "capacity")
    /\ IF AtCapacity  THEN Reply(r, "capacity", Nobody)
       ELSE IF Keyed(r) THEN GoOn(r, "insert") ELSE Await(r, "reading")
    /\ UNCHANGED <<req, on, rowVars, today>>

InsertRow(r) ==
    /\ status' = [status EXCEPT ![r] = "pending"]
    /\ created' = [created EXCEPT ![r] = today]
    /\ Reply(r, "job", r)

\* create_idempotent without the unique index.
InsertUnindexed(r) ==
    /\ Running(r, "insert") \/ Resume(r, "reading")
    /\ InsertRow(r)
    /\ UNCHANGED <<req, on, today>>

\* start_job / start_job_idempotent: the INSERT and its possible clash.
Insert(r) ==
    /\ Running(r, "insert") \/ Resume(r, "reading")
    /\ IF Holders(r) = {} THEN InsertRow(r)
                          ELSE GoOn(r, "clash") /\ UNCHANGED rowVars
    /\ UNCHANGED <<req, on, today>>

\* The clash answered with the winner's job, whatever that one asked for.
ReuseAny(r) ==
    /\ Running(r, "clash")
    /\ \/ Holders(r) = {} /\ Reply(r, "error", Nobody)
       \/ \E j \in Holders(r) : Reply(r, "job", j)
    /\ UNCHANGED <<req, on, rowVars, today>>

\* IntegrityError: look again for the job that holds the key.
Reuse(r) ==
    /\ Running(r, "clash")
    /\ \/ Holders(r) = {} /\ Reply(r, "error", Nobody)
       \/ \E j \in Holders(r) : ReplyExisting(r, j)
    /\ UNCHANGED <<req, on, rowVars, today>>

\* run_job, cancel_job and the recovery sweep, as far as status is concerned.
Progress == [pending    |-> {"processing", "cancelled"},
             processing |-> {"completed", "failed"}]

Advance(j) ==
    /\ j \in ActiveJobs
    /\ \E s \in Progress[status[j]] : status' = [status EXCEPT ![j] = s]
    /\ UNCHANGED <<at, req, on, busy, answer, job, created, today>>

Midnight ==
    /\ today < Days
    /\ today' = today + 1
    /\ UNCHANGED <<at, req, on, busy, answer, job, status, created>>

Next ==
    \/ \E r \in Requests :
         \/ Lookup(r) \/ CheckQuota(r) \/ CheckCapacity(r)
         \/ Insert(r) \/ Reuse(r) \/ Advance(r)
    \/ Midnight

Spec == Init /\ [][Next]_vars

-----------------------------------------------------------------------------
\* As deployed: one uvicorn worker.
OneWorker == \A r, s \in Requests : on[r] = on[s]

(***************************************************************************)
(* A client that repeats a request under its key is never given a second   *)
(* job while the first has not failed, however its attempts overlap.       *)
(***************************************************************************)
DuplicatesShareJob ==
    \A r, s \in Requests :
        /\ answer[r] = "job" /\ answer[s] = "job"
        /\ SameKey(r, s)
        /\ job[r] # job[s]
        => "failed" \in {status[job[r]], status[job[s]]}

(***************************************************************************)
(* The job a client is given does what that client asked for: a key reused *)
(* for something else is refused, also when both requests were in flight   *)
(* and the difference only shows after the clash of their inserts.         *)
(***************************************************************************)
JobIsAsAsked ==
    \A r \in Requests : answer[r] = "job" =>
        /\ req[job[r]].body = req[r].body
        /\ Scope(job[r]) = Scope(r)

(***************************************************************************)
(* A retry of a request whose job is waiting, running or done is not       *)
(* turned away by the quota or the capacity that very job counts against   *)
(* (find_idempotent_job runs ahead of both checks for this reason).  Among *)
(* several workers the lookup may come too early.                          *)
(***************************************************************************)
RetryNeverBlocked ==
    [][\A r \in Requests :
         /\ OneWorker
         /\ answer[r] = "none"
         /\ answer'[r] \in {"quota", "capacity"}
         => \A j \in Holders(r) : req[j].body # req[r].body]_vars

\* The jobs with a key that the caller of r, and nobody else, is charged for.
KeyedOf(r) == {j \in Charged(r) : Keyed(j) /\ Scope(j) = Scope(r)}

(***************************************************************************)
(* The jobs of one caller submitted with a key stay within the plan's day  *)
(* and month limits; what goes over the limit comes from requests without  *)
(* a key, or on other workers, that passed the check together.             *)
(***************************************************************************)
KeyedWithinQuota ==
    OneWorker => \A r \in Jobs :
        /\ \A d \in 0 .. today :
             Cardinality({j \in KeyedOf(r) : created[j] = d}) <= DayLimit
        /\ Cardinality(KeyedOf(r)) <= MonthLimit

(***************************************************************************)
(* The jobs submitted with a key never exceed the global capacity, however *)
(* many requests without one are admitted beside them on the same worker.  *)
(***************************************************************************)
KeyedWithinCapacity ==
    OneWorker => Cardinality({j \in ActiveJobs : Keyed(j)}) <= MaxActive

-----------------------------------------------------------------------------
(* The refinement *)

Lifecycle == INSTANCE JobLifecycle WITH
    Jobs      <- Requests,
    Requests  <- (Users \cup Ips) \X Keys,
    NoRequest <- <<>>,
    status    <- [r \in Requests |-> IF r \in Jobs THEN status[r] ELSE "absent"],
    request   <- [r \in Requests |-> IF r \in Jobs /\ Keyed(r)
                                       THEN <<Scope(r), req[r].key>> ELSE <<>>]

(***************************************************************************)
(* On any number of workers, what the handlers insert and the threads make *)
(* of it is what JobLifecycle allows: two handlers that have both found    *)
(* the key free do not both get a job for it.                              *)
(***************************************************************************)
ImplementsLifecycle == Lifecycle!Spec
=============================================================================

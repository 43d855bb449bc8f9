------------------------------ MODULE Provider ------------------------------
(***************************************************************************)
(* SelfHostedVTONProvider.generate under its two timeouts, called by the   *)
(* background threads of the jobs, and the age of each job's row while its *)
(* thread is at work.  One model, one lock; the inference runs in a daemon *)
(* thread of its own that nothing can stop, and that thread, not its       *)
(* caller, releases the lock.  Time is counted in ticks.                   *)
(*                                                                         *)
(* The module answers the question TryOnJobs leaves open in its parameter  *)
(* PromptRuns: is a job that a live thread works on ever old enough for    *)
(* the recovery sweep to give it up?                                       *)
(***************************************************************************)
EXTENDS Naturals, FiniteSets

CONSTANTS
    Jobs,
    LockTimeout,       \* lock_acquire_timeout_seconds
    InferenceTimeout,  \* inference_timeout_seconds
    StaleThreshold,    \* stale_job_threshold_minutes
    Overhead,          \* all the time a run spends outside the two waits
    MaxStartFailures   \* bound: how often Thread.start raises

ASSUME ParameterAssumption ==
    /\ LockTimeout \in Nat
    /\ InferenceTimeout \in Nat
    /\ StaleThreshold \in Nat
    /\ Overhead \in Nat
    /\ MaxStartFailures \in Nat

VARIABLES
    phase,     \* where run_job's thread is
    thread,    \* the daemon thread of its generate()
    lock,      \* _lock is held
    timer,     \* how long the thread has been in its current timed wait
    slack,     \* how long it has spent outside the timed waits
    age,       \* now - updated_at
    failures   \* threads that could not be started

vars == <<phase, thread, lock, timer, slack, age, failures>>

-----------------------------------------------------------------------------
Timed   == {"waiting", "joining"}
Untimed == {"loading", "starting", "ending"}
\* The row is PROCESSING and a thread is responsible for it.
Live    == Timed \cup Untimed

Limit == [waiting |-> LockTimeout, joining |-> InferenceTimeout]

TypeOK ==
    /\ phase \in [Jobs -> Live \cup {"new", "over"}]
    /\ thread \in [Jobs -> {"none", "running", "exiting", "dead"}]
    /\ lock \in BOOLEAN
    /\ timer \in [Jobs -> Nat]
    /\ slack \in [Jobs -> Nat]
    /\ age \in [Jobs -> Nat]
    /\ failures \in Nat
    /\ \A j \in Jobs : phase[j] \in Timed => timer[j] <= Limit[phase[j]]

(***************************************************************************)
(* A job may have been PENDING for no time or for longer than the          *)
(* threshold when its thread gets to it; nothing in between matters, since *)
(* the claim writes updated_at anew.                                       *)
(***************************************************************************)
Init ==
    /\ phase = [j \in Jobs |-> "new"]
    /\ thread = [j \in Jobs |-> "none"]
    /\ lock = FALSE
    /\ timer = [j \in Jobs |-> 0]
    /\ slack = [j \in Jobs |-> 0]
    /\ age \in [Jobs -> {0, StaleThreshold + 1}]
    /\ failures = 0

Goto(j, from, to) ==
    /\ phase[j] = from
    /\ phase' = [phase EXCEPT ![j] = to]

\* The clock of a wait starts from zero.
StartTimer(j) == timer' = [timer EXCEPT ![j] = 0]

-----------------------------------------------------------------------------
\* An UPDATE that does not carry the onupdate of updated_at.
ClaimUnstamped(j) ==
    /\ Goto(j, "new", "loading")
    /\ UNCHANGED <<thread, lock, timer, slack, age, failures>>

\* try_transition_status(PENDING -> PROCESSING) writes updated_at.
Claim(j) ==
    /\ Goto(j, "new", "loading")
    /\ age' = [age EXCEPT ![j] = 0]
    /\ UNCHANGED <<thread, lock, timer, slack, failures>>

\* generate() is called: self._lock.acquire(timeout=...).
EnterGenerate(j) ==
    /\ Goto(j, "loading", "waiting")
    /\ StartTimer(j)
    /\ UNCHANGED <<thread, lock, slack, age, failures>>

\* An upload is missing: generate() is never called.
LoadFails(j) ==
    /\ Goto(j, "loading", "ending")
    /\ UNCHANGED <<thread, lock, timer, slack, age, failures>>

Acquire(j) ==
    /\ Goto(j, "waiting", "starting")
    /\ ~lock
    /\ lock' = TRUE
    /\ UNCHANGED <<thread, timer, slack, age, failures>>

\* ProviderBusyError: the lock did not come free in time.
GiveUpLock(j) ==
    /\ Goto(j, "waiting", "ending")
    /\ lock
    /\ timer[j] = LockTimeout
    /\ UNCHANGED <<thread, lock, timer, slack, age, failures>>

\* worker.start(), then worker.join(timeout=...).
StartThread(j) ==
    /\ Goto(j, "starting", "joining")
    /\ thread' = [thread EXCEPT ![j] = "running"]
    /\ StartTimer(j)
    /\ UNCHANGED <<lock, slack, age, failures>>

\* worker.start() raises ("can't start new thread"): nobody releases the lock.
StartFails(j) ==
    /\ failures < MaxStartFailures
    /\ Goto(j, "starting", "ending")
    /\ failures' = failures + 1
    /\ UNCHANGED <<thread, lock, timer, slack, age>>

\* The lock released after the call instead of in the finally clause, so that
\* a pipeline that raises keeps it.
FinishInferenceByError(j) ==
    /\ thread[j] = "running"
    /\ thread' = [thread EXCEPT ![j] = "exiting"]
    /\ lock' \in BOOLEAN
    /\ UNCHANGED <<phase, timer, slack, age, failures>>

\* The pipeline returns or raises; the finally clause releases the lock.
FinishInference(j) ==
    /\ thread[j] = "running"
    /\ thread' = [thread EXCEPT ![j] = "exiting"]
    /\ lock' = FALSE
    /\ UNCHANGED <<phase, timer, slack, age, failures>>

ThreadDies(j) ==
    /\ thread[j] = "exiting"
    /\ thread' = [thread EXCEPT ![j] = "dead"]
    /\ UNCHANGED <<phase, lock, timer, slack, age, failures>>

\* The thread was joined: the output is returned or its error raised.
JoinReturns(j) ==
    /\ Goto(j, "joining", "ending")
    /\ thread[j] = "dead"
    /\ UNCHANGED <<thread, lock, timer, slack, age, failures>>

\* A plausible wrong repair: give the lock back when the wait is given up.
JoinTimesOutAndReleases(j) ==
    /\ Goto(j, "joining", "ending")
    /\ timer[j] = InferenceTimeout
    /\ thread[j] # "dead"
    /\ lock' = FALSE
    /\ UNCHANGED <<thread, timer, slack, age, failures>>

\* join() without a timeout.
JoinForever(j) == FALSE /\ UNCHANGED vars

\* InferenceTimeoutError: worker.is_alive() after the join; the lock stays.
JoinTimesOut(j) ==
    /\ Goto(j, "joining", "ending")
    /\ timer[j] = InferenceTimeout
    /\ thread[j] # "dead"
    /\ UNCHANGED <<thread, lock, timer, slack, age, failures>>

\* run_job writes COMPLETED or FAILED: the row is no longer PROCESSING.
End(j) ==
    /\ Goto(j, "ending", "over")
    /\ UNCHANGED <<thread, lock, timer, slack, age, failures>>

\* The process dies with all its threads, and the next one has a new lock.
Crash ==
    /\ phase' = [j \in Jobs |-> IF phase[j] \in Live THEN "over" ELSE phase[j]]
    /\ thread' = [j \in Jobs |-> IF thread[j] = "none" THEN "none" ELSE "dead"]
    /\ lock' = FALSE
    /\ UNCHANGED <<timer, slack, age, failures>>

\* Time passes, but no wait outlasts its timeout and no run its Overhead.
Tick ==
    /\ \E j \in Jobs : phase[j] \in Live
    /\ \A j \in Jobs :
         /\ phase[j] \in Timed => timer[j] < Limit[phase[j]]
         /\ phase[j] \in Untimed => slack[j] < Overhead
    /\ timer' = [j \in Jobs |-> IF phase[j] \in Timed THEN timer[j] + 1
                                                      ELSE timer[j]]
    /\ slack' = [j \in Jobs |-> IF phase[j] \in Untimed THEN slack[j] + 1
                                                        ELSE slack[j]]
    /\ age' = [j \in Jobs |-> IF phase[j] \in Live THEN age[j] + 1 ELSE age[j]]
    /\ UNCHANGED <<phase, thread, lock, failures>>

-----------------------------------------------------------------------------
\* The steps of run_job's own thread.
Run(j) ==
    \/ EnterGenerate(j) \/ LoadFails(j)
    \/ Acquire(j) \/ GiveUpLock(j) \/ StartThread(j) \/ StartFails(j)
    \/ JoinReturns(j) \/ JoinTimesOut(j) \/ End(j)

Next ==
    \/ \E j \in Jobs : Claim(j) \/ Run(j) \/ FinishInference(j) \/ ThreadDies(j)
    \/ Tick
    \/ Crash

Spec == Init /\ [][Next]_vars

\* Threads are scheduled and time passes; the pipeline may hang for ever.
Fairness ==
    /\ \A j \in Jobs : WF_vars(Run(j))
    /\ WF_vars(Tick)

FairSpec == Spec /\ Fairness

-----------------------------------------------------------------------------
(***************************************************************************)
(* "Only one generation at a time": even after a caller has given up on    *)
(* its inference, no second one starts while the first still runs on the   *)
(* model (_run_inference's finally releases the lock, not generate()).     *)
(***************************************************************************)
OneGeneration ==
    \A i, j \in Jobs :
        thread[i] = "running" /\ thread[j] = "running" => i = j

(***************************************************************************)
(* The lock is held only on behalf of an inference that is about to start  *)
(* or still computing, so the model can be used again once that inference  *)
(* ends, whether its caller is still waiting or not.                       *)
(***************************************************************************)
LockIsBacked ==
    failures = 0 /\ lock =>
        \E j \in Jobs : phase[j] = "starting" \/ thread[j] = "running"

(***************************************************************************)
(* A job whose thread is still responsible for it is not yet stale: the    *)
(* recovery sweep only gives up jobs older than StaleThreshold.            *)
(***************************************************************************)
StaleIsDead ==
    \A j \in Jobs : phase[j] \in Live => age[j] <= StaleThreshold

(***************************************************************************)
(* Every claimed job reaches a final status, even if the inference it (or  *)
(* the job before it) started hangs for ever: both waits give up.          *)
(***************************************************************************)
EveryRunEnds ==
    \A j \in Jobs : phase[j] = "loading" ~> phase[j] = "over"

-----------------------------------------------------------------------------
\* Why OneGeneration holds: a started or running inference owns the lock.
Holds(j) == phase[j] = "starting" \/ thread[j] = "running"

LockInv ==
    /\ \A j \in Jobs : Holds(j) => lock
    /\ \A i, j \in Jobs : Holds(i) /\ Holds(j) => i = j
    /\ \A j \in Jobs : phase[j] \notin {"joining", "ending", "over"}
                           => thread[j] = "none"

\* Why StaleIsDead holds: the age of a row is the sum of the waits behind it.
AgeInv ==
    \A j \in Jobs :
        /\ slack[j] <= Overhead
        /\ phase[j] = "loading"  => age[j] <= slack[j]
        /\ phase[j] = "waiting"  => age[j] <= slack[j] + timer[j]
        /\ phase[j] = "starting" => age[j] <= slack[j] + LockTimeout
        /\ phase[j] = "joining"  => age[j] <= slack[j] + LockTimeout + timer[j]
        /\ phase[j] = "ending"   =>
              age[j] <= slack[j] + LockTimeout + InferenceTimeout
=============================================================================

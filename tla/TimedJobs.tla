----------------------------- MODULE TimedJobs -----------------------------
(***************************************************************************)
(* The job service and its self-hosted provider in one system.  A thread   *)
(* of TryOnJobs that is past its claim is the thread of the same job in    *)
(* Provider, each step of run_job is a step of both, and updated_at ages   *)
(* by Provider's clock.                                                    *)
(*                                                                         *)
(* TryOnJobs takes from its parameter PromptRuns that no row turns stale   *)
(* under a thread that works on it.  Nothing here does: a row under a      *)
(* thread is stale when its age says so, and what is left to assume is     *)
(* arithmetic about the settings (Overhead is how long a run may spend     *)
(* outside the provider's two waits).                                      *)
(***************************************************************************)
EXTENDS TryOnJobs

CONSTANTS LockTimeout, InferenceTimeout, StaleThreshold, Overhead,
          MaxStartFailures

ASSUME TimingAssumption ==
    /\ LockTimeout \in Nat
    /\ InferenceTimeout \in Nat
    /\ StaleThreshold \in Nat
    /\ Overhead \in Nat
    /\ MaxStartFailures \in Nat

VARIABLES phase, thread, lock, timer, slack, age, failures

P == INSTANCE Provider

providerVars == <<phase, thread, lock, timer, slack, age, failures>>
timedVars    == <<vars, providerVars>>

TimedInit == Init /\ P!Init

-----------------------------------------------------------------------------
(* run_job, with the provider's part of each of its steps *)

\* A claim that is lost writes nothing, so it does not touch updated_at.
TimedClaim(j) ==
    /\ Claim(j)
    /\ IF status[j] = "pending" THEN P!Claim(j) ELSE UNCHANGED providerVars

TimedLoad(j) ==
    /\ LoadUploads(j)
    /\ IF uploads[j] = Images THEN P!EnterGenerate(j) ELSE P!LoadFails(j)

\* generate() raises when it is busy, times out or cannot start its thread;
\* a thread that was joined has returned an image or raised.
TimedGenerate(j) ==
    /\ Generate(j)
    /\ \/ P!JoinReturns(j)
       \/ /\ runner'[j] = "failing"
          /\ P!GiveUpLock(j) \/ P!StartFails(j) \/ P!JoinTimesOut(j)

\* A write of COMPLETED that fails on the index leaves the row for the next.
TimedEnd(j) ==
    /\ Complete(j) \/ Fail(j)
    /\ IF runner'[j] = "cleaning" THEN P!End(j) ELSE UNCHANGED providerVars

TimedRunner(j) ==
    \/ TimedClaim(j) \/ TimedLoad(j) \/ TimedGenerate(j) \/ TimedEnd(j)
    \/ /\ RunJob(j) \/ SaveResult(j) \/ CleanUploads(j)
       /\ UNCHANGED providerVars

\* What generate() and the daemon threads do between two steps of run_job.
ProviderStep ==
    /\ \/ \E j \in Jobs : \/ P!Acquire(j) \/ P!StartThread(j)
                          \/ P!FinishInference(j) \/ P!ThreadDies(j)
       \/ P!Tick
    /\ UNCHANGED vars

-----------------------------------------------------------------------------
(***************************************************************************)
(* The rows come of age.  Under a thread that works on it a processing row *)
(* is as old as the provider's clock says; nothing measures how long the   *)
(* other rows have been left alone.                                        *)
(***************************************************************************)
TimedAge(j) ==
    /\ ~aged[j]
    /\ \/ status[j] = "completed" /\ ~saved[j]
       \/ /\ status[j] = "processing"
          /\ phase[j] \in P!Live => age[j] > StaleThreshold
    /\ aged' = [aged EXCEPT ![j] = TRUE]
    /\ UNCHANGED <<status, owner, key, saved, accounts, fileVars, server,
                   loop, runner, sweep, crashes, faults, providerVars>>

TimedNext ==
    \/ \E j \in Jobs : TimedRunner(j) \/ TimedAge(j)
    \/ ProviderStep
    \/ ServerCrash /\ P!Crash
    \/ /\ \/ ClientNext \/ HandlerNext \/ \E s \in Sweepers : SweepNext(s)
          \/ Restart \/ ScriptCrash
       /\ UNCHANGED providerVars

TimedSpec == TimedInit /\ [][TimedNext]_timedVars

-----------------------------------------------------------------------------
(***************************************************************************)
(* When the threshold covers both timeouts and the overhead, the system is *)
(* one that TryOnJobs describes under PromptRuns: no clock, lock or time-  *)
(* out brings a recovery together with a thread that is still at work, so  *)
(* whatever holds of TryOnJobs on that assumption holds of the composition.*)
(***************************************************************************)
ImplementsTryOnJobs == Spec

-----------------------------------------------------------------------------
(* Why it does *)

\* Where the provider sees the thread of a job, by where run_job is.
InStep ==
    \A j \in Jobs :
        /\ runner[j] \in {"unscheduled", "queued", "claiming"} => phase[j] = "new"
        /\ runner[j] = "loading" => phase[j] = "loading"
        /\ runner[j] = "generating" => phase[j] \in {"waiting", "starting", "joining"}
        /\ runner[j] \in {"storing", "completing", "failing"} => phase[j] = "ending"
        /\ runner[j] \in {"cleaning", "done", "dead"} => phase[j] \in {"new", "over"}
=============================================================================

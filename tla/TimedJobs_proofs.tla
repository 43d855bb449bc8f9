-------------------------- MODULE TimedJobs_proofs --------------------------
(***************************************************************************)
(* The composition of the job service and its provider is a system of both *)
(* kinds: seen from the provider its threads are those of Provider, and,   *)
(* if the settings leave a run the time it needs, seen from the rows it is *)
(* TryOnJobs under PromptRuns.                                             *)
(***************************************************************************)
EXTENDS TimedJobs, TryOnJobs_proofs

\* The theorems about the provider, on the variables of the composition.
PP == INSTANCE Provider_proofs

-----------------------------------------------------------------------------
(***************************************************************************)
(* Whatever the handlers, the sweeps and crashes do to the rows, the       *)
(* threads, the lock and the clocks move as in Provider.                   *)
(***************************************************************************)
LEMMA ImplementsProvider == TimedSpec => P!Spec
<1>1. TimedInit => P!Init
  BY DEF TimedInit
<1>2. [TimedNext]_timedVars => [P!Next]_(P!vars)
  <2> SUFFICES ASSUME [TimedNext]_timedVars PROVE P!Next \/ UNCHANGED P!vars
    OBVIOUS
  <2>1. ASSUME NEW j \in Jobs, TimedRunner(j) PROVE P!Next \/ UNCHANGED providerVars
    BY <2>1 DEF TimedRunner, TimedClaim, TimedLoad, TimedGenerate, TimedEnd, P!Next, P!Run
  <2>2. ASSUME NEW j \in Jobs, TimedAge(j) PROVE UNCHANGED providerVars
    BY <2>2 DEF TimedAge
  <2>3. CASE ProviderStep
    BY <2>3 DEF ProviderStep, P!Next, P!Run
  <2>4. CASE ServerCrash /\ P!Crash
    BY <2>4 DEF P!Next
  <2>5. UNCHANGED providerVars => UNCHANGED P!vars
    BY DEF providerVars, P!vars
  <2>6. CASE UNCHANGED timedVars
    BY <2>5, <2>6 DEF timedVars
  <2> QED
    BY <2>1, <2>2, <2>3, <2>4, <2>5, <2>6 DEF TimedNext
<1> QED
  BY <1>1, <1>2, PTL DEF TimedSpec, P!Spec

\* The provider's theorems are about the same specification.
LEMMA SameProvider == P!Spec => PP!Spec
<1>1. P!Init => PP!Init
  BY DEF P!Init, PP!Init
<1>2. [P!Next]_(P!vars) => [PP!Next]_(PP!vars)
  BY DEF P!vars, P!Next, P!Run, P!Claim, P!EnterGenerate, P!LoadFails, P!Acquire,
         P!GiveUpLock, P!StartThread, P!StartFails, P!JoinReturns, P!JoinTimesOut,
         P!End, P!FinishInference, P!ThreadDies, P!Tick, P!Crash, P!Goto,
         P!StartTimer, P!Live, P!Timed, P!Untimed, P!Limit,
         PP!vars, PP!Next, PP!Run, PP!Claim, PP!EnterGenerate, PP!LoadFails,
         PP!Acquire, PP!GiveUpLock, PP!StartThread, PP!StartFails,
         PP!JoinReturns, PP!JoinTimesOut, PP!End, PP!FinishInference,
         PP!ThreadDies, PP!Tick, PP!Crash, PP!Goto, PP!StartTimer, PP!Live,
         PP!Timed, PP!Untimed, PP!Limit
<1> QED
  BY <1>1, <1>2, PTL DEF P!Spec, PP!Spec

\* What Provider proves of its variables, for the threads of the composition.
LEMMA ProviderInvHolds ==
    ASSUME StaleThreshold >= LockTimeout + InferenceTimeout + Overhead
    PROVE  TimedSpec => [](P!TypeOK /\ P!StaleIsDead)
<1>1. PP!Spec => []PP!TypeOK
  BY PP!TypeCorrect, TimingAssumption
<1>2. PP!Spec => []PP!StaleIsDead
  BY PP!StaleIsDeadHolds, TimingAssumption
<1>3. PP!TypeOK => P!TypeOK
  BY DEF P!TypeOK, PP!TypeOK, P!Live, PP!Live, P!Timed, PP!Timed, P!Untimed,
         PP!Untimed, P!Limit, PP!Limit
<1>4. PP!StaleIsDead => P!StaleIsDead
  BY DEF P!StaleIsDead, PP!StaleIsDead, P!Live, PP!Live, P!Timed, PP!Timed,
         P!Untimed, PP!Untimed
<1> QED
  BY <1>1, <1>2, <1>3, <1>4, ImplementsProvider, SameProvider, PTL

-----------------------------------------------------------------------------
(***************************************************************************)
(* Every step is a step of TryOnJobs.  All but TimedAge contain one; that  *)
(* one turns a processing row stale only when no thread works on it, since *)
(* a thread that works has the row's clock running, and that clock has not *)
(* reached the threshold.                                                  *)
(***************************************************************************)
LEMMA StepIsJobsStep ==
    ASSUME InStep, ProcessingIsClaimed, P!StaleIsDead, P!TypeOK, [TimedNext]_timedVars
    PROVE  [PromptNext]_vars
<1>1. ASSUME NEW j \in Jobs, TimedRunner(j) PROVE PromptNext
  <2>1. RunnerNext(j)
    BY <1>1 DEF TimedRunner, TimedClaim, TimedLoad, TimedGenerate, TimedEnd, RunnerNext
  <2> QED
    BY <2>1 DEF PromptNext
<1>2. ASSUME NEW j \in Jobs, TimedAge(j) PROVE PromptNext
  <2>1. ASSUME status[j] = "processing" PROVE runner[j] \notin Live
    <3>1. phase[j] \notin P!Live
      BY <1>2, <2>1, TimingAssumption DEF TimedAge, P!StaleIsDead, P!TypeOK
    <3>2. runner[j] \notin Working
      BY <3>1 DEF InStep, Working, P!Live, P!Timed, P!Untimed
    <3> QED
      BY <2>1, <3>2 DEF ProcessingIsClaimed, Live, Working
  <2>2. PromptAge(j)
    BY <1>2, <2>1 DEF TimedAge, Age, PromptAge
  <2> QED
    BY <2>2 DEF PromptNext
<1>3. CASE ProviderStep
  BY <1>3 DEF ProviderStep
<1>4. CASE ServerCrash /\ P!Crash
  BY <1>4 DEF PromptNext
<1>5. CASE ClientNext \/ HandlerNext \/ (\E s \in Sweepers : SweepNext(s)) \/ Restart
             \/ ScriptCrash
  BY <1>5 DEF PromptNext
<1>6. CASE UNCHANGED timedVars
  BY <1>6 DEF timedVars
<1> QED
  BY <1>1, <1>2, <1>3, <1>4, <1>5, <1>6 DEF TimedNext

\* Every step leaves each thread where the provider thinks it is.
LEMMA InStepKept ==
    ASSUME TypeOK, Safe, InStep, P!TypeOK, [TimedNext]_timedVars
    PROVE  InStep'
<1> USE DEF TypeOK, P!TypeOK, InStep, P!Live, P!Timed, P!Untimed, P!Goto
<1>1. ASSUME NEW j \in Jobs, TimedRunner(j) PROVE InStep'
  <2> USE DEF Step, providerVars
  <2>1. CASE TimedClaim(j)
    BY <2>1 DEF TimedClaim, Claim, P!Claim
  <2>2. CASE TimedLoad(j)
    BY <2>2 DEF TimedLoad, LoadUploads, P!EnterGenerate, P!LoadFails
  <2>3. CASE TimedGenerate(j)
    BY <2>3 DEF TimedGenerate, Generate, P!JoinReturns, P!GiveUpLock, P!StartFails,
                P!JoinTimesOut
  <2>4. CASE TimedEnd(j)
    BY <2>4 DEF TimedEnd, Complete, Fail, P!End
  <2>5. CASE (RunJob(j) \/ SaveResult(j) \/ CleanUploads(j)) /\ UNCHANGED providerVars
    BY <2>5 DEF RunJob, SaveResult, CleanUploads
  <2> QED
    BY <1>1, <2>1, <2>2, <2>3, <2>4, <2>5 DEF TimedRunner
<1>2. ASSUME NEW j \in Jobs, TimedAge(j) PROVE InStep'
  BY <1>2 DEF TimedAge, providerVars
<1>3. CASE ProviderStep
  BY <1>3 DEF ProviderStep, vars, P!Acquire, P!StartThread, P!FinishInference, P!ThreadDies,
              P!Tick
<1>4. CASE ServerCrash /\ P!Crash
  BY <1>4 DEF ServerCrash, P!Crash, Live, Working, RunnerSteps
<1>5. CASE Schedule /\ UNCHANGED providerVars
  BY <1>5 DEF Schedule, InHandler, providerVars, Safe, SubmittedIsPending
<1>6. CASE UNCHANGED <<runner, phase>>
  BY <1>6
<1>7. ASSUME UNCHANGED providerVars,
             \/ ClientNext \/ HandlerNext \/ \E s \in Sweepers : SweepNext(s)
             \/ Restart \/ ScriptCrash
      PROVE  InStep'
  <2>1. Schedule \/ runner' = runner
    BY <1>7 DEF ClientNext, HandlerNext, SweepNext, BeginSubmit, InsertRow, StoreUpload,
       CancelJob, CleanCancelled, BeginSave, MarkSaved, BeginDeleteAccount,
       DeleteAccountFiles, DeleteAccountRows, QueryExpired, DeleteExpired, QueryStale,
       RecoverFiles, CommitRecovery, Restart, ScriptCrash
  <2> QED
    BY <2>1, <1>5, <1>6, <1>7 DEF providerVars
<1>8. CASE UNCHANGED timedVars
  BY <1>8 DEF timedVars, vars, providerVars
<1> HIDE DEF TypeOK, P!TypeOK, InStep
<1> QED
  BY <1>1, <1>2, <1>3, <1>4, <1>7, <1>8 DEF TimedNext

(***************************************************************************)
(* PromptRuns is a theorem of the composition: when stale_job_threshold is *)
(* at least both timeouts and the rest of a run, a thread and a recovery   *)
(* never hold the same job, whatever the value of that parameter.          *)
(***************************************************************************)
LEMMA TimedInvHolds ==
    ASSUME StaleThreshold >= LockTimeout + InferenceTimeout + Overhead
    PROVE  TimedSpec => Spec /\ []PromptInv
<1> DEFINE Inv == TypeOK /\ Safe /\ InStep
           Ready == P!TypeOK /\ P!StaleIsDead
<1>1. TimedInit => Init /\ Inv
  <2> SUFFICES ASSUME TimedInit PROVE Init /\ Inv
    OBVIOUS
  <2>1. Init /\ TypeOK /\ Safe
    BY TypeInit, SafeInit DEF TimedInit
  <2>2. InStep
    BY DEF TimedInit, Init, P!Init, InStep
  <2> QED
    BY <2>1, <2>2
<1>2. Inv /\ Ready /\ [TimedNext]_timedVars => [PromptNext]_vars
  BY StepIsJobsStep DEF Safe
<1>3. [PromptNext]_vars => [Next]_vars
  BY DEF PromptNext, PromptAge, Next
<1>4. Inv /\ Ready /\ [TimedNext]_timedVars => Inv'
  BY <1>2, <1>3, TypeStep, SafeStep, InStepKept
<1>5. TimedSpec => []Ready
  BY ProviderInvHolds
<1>6. Inv => PromptInv
  BY DEF Safe, PromptInv
<1> HIDE DEF Inv, Ready
<1> QED
  BY <1>1, <1>2, <1>3, <1>4, <1>5, <1>6, PTL DEF TimedSpec, Spec

(***************************************************************************)
(* The job service with its provider is the job service TryOnJobs proves   *)
(* correct on the assumption that runs are prompt.                         *)
(***************************************************************************)
THEOREM ImplementsTryOnJobsHolds ==
    ASSUME StaleThreshold >= LockTimeout + InferenceTimeout + Overhead
    PROVE  TimedSpec => ImplementsTryOnJobs
<1>1. TimedSpec => Spec
  BY TimedInvHolds, PTL
<1> QED
  BY <1>1 DEF ImplementsTryOnJobs

(***************************************************************************)
(* What clients of the whole service are promised, with no assumption but  *)
(* the arithmetic on the settings: no job runs twice or leaves a final     *)
(* status, a fresh result is there to be viewed, and a failed or cancelled *)
(* job has none.                                                           *)
(***************************************************************************)
THEOREM ServiceKeepsPromises ==
    ASSUME StaleThreshold >= LockTimeout + InferenceTimeout + Overhead
    PROVE  TimedSpec => /\ TerminalIsFinal
                        /\ ImplementsLifecycle
                        /\ []FreshResultAvailable
                        /\ []NoStrayResult
  BY TimedInvHolds, FinalIfPrompt, LifecycleIfPrompt, FreshIfPrompt, NoStrayIfPrompt, PTL

\* The same of the photos of a job that is over, if cleanup_temp removes what
\* it is asked to: they are gone.
THEOREM ServiceTidiesUp ==
    ASSUME TidyCleanup, StaleThreshold >= LockTimeout + InferenceTimeout + Overhead
    PROVE  TimedSpec => []UploadsGoneWhenOver
  BY TimedInvHolds, UploadsIfPrompt, PTL

(***************************************************************************)
(* One inference at a time on the one model, whatever the handlers, sweeps *)
(* and crashes do to the jobs that asked for them.                         *)
(***************************************************************************)
THEOREM ServiceRunsOneGeneration == TimedSpec => []P!OneGeneration
<1>1. PP!Spec => []PP!OneGeneration
  BY PP!OneGenerationHolds, TimingAssumption
<1>2. PP!OneGeneration => P!OneGeneration
  BY DEF PP!OneGeneration, P!OneGeneration
<1> QED
  BY <1>1, <1>2, ImplementsProvider, SameProvider, PTL
=============================================================================

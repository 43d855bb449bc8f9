-------------------------- MODULE TryOnJobs_proofs --------------------------
(* Proofs of the safety properties of TryOnJobs, for any set of jobs. *)
EXTENDS TryOnJobs, TLAPS

\* An UPDATE of the status keeps the two columns it writes within their types.
LEMMA SetStatusTypes ==
    ASSUME TypeOK, NEW j \in Jobs, NEW s \in Statuses, SetStatus(j, s)
    PROVE  /\ status' \in [Jobs -> Statuses]
           /\ aged' \in [Jobs -> BOOLEAN]
<1>1. status' \in [Jobs -> Statuses]
  BY DEF TypeOK, SetStatus
<1>2. aged' \in [Jobs -> BOOLEAN]
  BY DEF TypeOK, SetStatus
<1> QED
  BY <1>1, <1>2

\* A step of a background task moves its program counter within its type.
LEMMA StepTypes ==
    ASSUME TypeOK, NEW j \in Jobs, NEW from, NEW to \in RunnerSteps, Step(j, from, to)
    PROVE  runner' \in [Jobs -> RunnerSteps]
  BY DEF TypeOK, Step

\* Whatever cleanup_temp leaves of the uploads of a job is some of its images.
LEMMA CleanTempTypes ==
    ASSUME TypeOK, NEW j, CleanTemp(j)
    PROVE  uploads' \in [Jobs -> SUBSET Images]
<1>1. PICK left \in Leftovers(j) : uploads' = [uploads EXCEPT ![j] = left]
  BY DEF CleanTemp
<1>2. CASE j \in Jobs
  <2>1. left \subseteq Images
    BY <1>1, <1>2 DEF Leftovers, TypeOK
  <2> QED
    BY <1>1, <1>2, <2>1 DEF TypeOK
<1>3. CASE j \notin Jobs
  <2>1. uploads' = uploads
    BY <1>1, <1>3 DEF TypeOK
  <2> QED
    BY <2>1 DEF TypeOK
<1> QED
  BY <1>2, <1>3

\* The types hold at the start ...
LEMMA TypeInit == Init => TypeOK
  BY ParameterAssumption DEF Init, TypeOK, Statuses, Owners, RunnerSteps, Live, Working,
     Handler, HandlerSteps, Idle, Off

\* ... and after any step of any actor.
LEMMA TypeStep == TypeOK /\ [Next]_vars => TypeOK'
<1> SUFFICES ASSUME TypeOK, [Next]_vars PROVE TypeOK'
  OBVIOUS
<1> USE ParameterAssumption DEF TypeOK
<1>1. ASSUME NEW o \in Owners, NEW k \in Keys \cup {NoKey}, BeginSubmit(o, k)
      PROVE  TypeOK'
  BY <1>1 DEF BeginSubmit, Handler, HandlerSteps, Idle, rowVars, fileVars
<1>2. ASSUME NEW j \in Jobs, InsertRow(j) PROVE TypeOK'
  <2> USE <1>2 DEF InsertRow, Handler, HandlerSteps, Idle, Owners, Statuses, rowVars, fileVars
  <2>1. CASE loop.key # NoKey /\ ActiveFor(loop.owner, loop.key) # {}
    BY <2>1
  <2>2. CASE ~(loop.key # NoKey /\ ActiveFor(loop.owner, loop.key) # {})
    <3>1. status' \in [Jobs -> Statuses]
      BY <2>2
    <3>2. owner' \in [Jobs -> Owners]
      BY <2>2
    <3>3. key' \in [Jobs -> Keys \cup {NoKey}]
      BY <2>2
    <3>4. loop' \in Handler
      BY <2>2, loop \in Handler
    <3> QED
      BY <2>2, <3>1, <3>2, <3>3, <3>4
  <2> QED
    BY <2>1, <2>2
<1>3. ASSUME NEW image \in Images, NEW next \in {"garment", "schedule"},
             StoreUpload(image, next)
      PROVE  TypeOK'
  BY <1>3 DEF StoreUpload, InHandler, Fault, Handler, HandlerSteps, Idle, Owners, Images,
     rowVars, fileVars
<1>4. CASE Schedule
  BY <1>4 DEF Schedule, Handler, HandlerSteps, Idle, Owners, RunnerSteps, Live,
     rowVars, fileVars
<1>5. ASSUME NEW o \in Owners, NEW j \in Jobs, CancelJob(o, j) PROVE TypeOK'
  BY <1>5 DEF CancelJob, SetStatus, Statuses, Handler, HandlerSteps, Idle, Owners, fileVars
<1>6. CASE CleanCancelled
  BY <1>6, CleanTempTypes DEF CleanCancelled, Handler, HandlerSteps, Idle, Owners, rowVars
<1>7. ASSUME NEW u \in Users, NEW j \in Jobs, BeginSave(u, j) PROVE TypeOK'
  BY <1>7 DEF BeginSave, Handler, HandlerSteps, Idle, Owners, rowVars, fileVars
<1>8. CASE MarkSaved
  BY <1>8 DEF MarkSaved, Handler, HandlerSteps, Idle, Owners, fileVars
<1>9. ASSUME NEW u \in Users, BeginDeleteAccount(u) PROVE TypeOK'
  BY <1>9 DEF BeginDeleteAccount, Handler, HandlerSteps, Idle, Owners, rowVars, fileVars
<1>10. CASE DeleteAccountFiles
  BY <1>10 DEF DeleteAccountFiles, Fault, Handler, HandlerSteps, Idle, Owners, rowVars
<1>11. CASE DeleteAccountRows
  BY <1>11 DEF DeleteAccountRows, Statuses, Handler, HandlerSteps, Idle, Owners, fileVars
<1>12. ASSUME NEW j \in Jobs, RunnerNext(j) PROVE TypeOK'
  <2> USE DEF Step, RunnerSteps, Live, Working, Statuses, rowVars, fileVars, SetStatus
  <2>1. CASE RunJob(j)       BY <2>1 DEF RunJob
  <2>2. CASE Claim(j)
    <3>1. CASE status[j] = "pending"
      <4>1. SetStatus(j, "processing") /\ Step(j, "claiming", "loading")
        BY <2>2, <3>1 DEF Claim
      <4> HIDE DEF Step, SetStatus
      <4> QED
        BY <2>2, <4>1, SetStatusTypes, StepTypes DEF Claim
    <3>2. CASE status[j] # "pending"    BY <2>2, <3>2 DEF Claim
    <3> QED BY <3>1, <3>2
  <2>3. CASE LoadUploads(j)  BY <2>3 DEF LoadUploads
  <2>4. CASE Generate(j)     BY <2>4 DEF Generate
  <2>5. CASE SaveResult(j)   BY <2>5 DEF SaveResult, Fault
  <2>6. CASE Complete(j)
    <3> DEFINE clash == key[j] # NoKey /\ ~(ActiveFor(owner[j], key[j]) \subseteq {j})
    <3>1. CASE HasRow(j) /\ ~clash
      <4>1. SetStatus(j, "completed") /\ Step(j, "completing", "cleaning")
        BY <2>6, <3>1 DEF Complete
      <4> HIDE DEF Step, SetStatus
      <4> QED
        BY <2>6, <4>1, SetStatusTypes, StepTypes DEF Complete
    <3>2. CASE HasRow(j) /\ clash      BY <2>6, <3>2 DEF Complete
    <3>3. CASE ~HasRow(j)              BY <2>6, <3>3 DEF Complete
    <3> QED BY <3>1, <3>2, <3>3
  <2>7. CASE Fail(j)         BY <2>7 DEF Fail
  <2>8. CASE CleanUploads(j) BY <2>8, CleanTempTypes DEF CleanUploads
  <2> QED
    BY <1>12, <2>1, <2>2, <2>3, <2>4, <2>5, <2>6, <2>7, <2>8 DEF RunnerNext
<1>13. ASSUME NEW j \in Jobs, Age(j) PROVE TypeOK'
  BY <1>13 DEF Age, fileVars
<1>14. ASSUME NEW s \in Sweepers, SweepNext(s) PROVE TypeOK'
  <2> USE DEF Sweepers, rowVars, fileVars
  <2>1. CASE QueryExpired    BY <2>1 DEF QueryExpired
  <2>2. ASSUME NEW j \in Jobs, DeleteExpired(j) PROVE TypeOK'
    <3>1. uploads' \in [Jobs -> SUBSET Images]
      BY <2>2, CleanTempTypes DEF DeleteExpired
    <3> QED
      BY <2>2, <3>1 DEF DeleteExpired, Fault
  <2>3. CASE QueryStale(s)   BY <2>3 DEF QueryStale
  <2>4. ASSUME NEW j \in Jobs, RecoverFiles(s, j) PROVE TypeOK'
    <3>1. uploads' \in [Jobs -> SUBSET Images]
      BY <2>4, CleanTempTypes DEF RecoverFiles
    <3> QED
      BY <2>4, <3>1 DEF RecoverFiles, Fault
  <2>5. CASE CommitRecovery(s)
    BY <2>5 DEF CommitRecovery, Statuses, Off
  <2> QED
    BY <1>14, <2>1, <2>2, <2>3, <2>4, <2>5 DEF SweepNext
<1>15. CASE ServerCrash
  BY <1>15 DEF ServerCrash, Sweepers, Off, RunnerSteps, Handler, HandlerSteps, Idle, Owners,
     rowVars, fileVars
<1>16. CASE Restart
  BY <1>16 DEF Restart, rowVars, fileVars
<1>17. CASE ScriptCrash
  BY <1>17 DEF ScriptCrash, Sweepers, Off, rowVars, fileVars
<1>18. CASE UNCHANGED vars
  BY <1>18 DEF vars
<1> QED
  BY <1>1, <1>2, <1>3, <1>4, <1>5, <1>6, <1>7, <1>8, <1>9, <1>10, <1>11, <1>12, <1>13,
     <1>14, <1>15, <1>16, <1>17, <1>18
  DEF Next, ClientNext, HandlerNext, Images

(***************************************************************************)
(* Every step keeps the columns, files and program counters of all actors  *)
(* within their types.                                                     *)
(***************************************************************************)
THEOREM TypeCorrect == Spec => []TypeOK
  BY TypeInit, TypeStep, PTL DEF Spec

-----------------------------------------------------------------------------
(***************************************************************************)
(* No cancelled job is ever run.  cancel_job and run_job both leave        *)
(* "pending" by a conditional update, so a thread past its claim never has *)
(* a pending row, and the other writers of the status never write          *)
(* "pending" or "cancelled".                                               *)
(***************************************************************************)
THEOREM CancelledNeverRunsHolds == Spec => []CancelledNeverRuns
<1>1. Init => ClaimedBeforeWork
  BY DEF Init, ClaimedBeforeWork, Working
<1>2. TypeOK /\ ClaimedBeforeWork /\ [Next]_vars => ClaimedBeforeWork'
  <2> SUFFICES ASSUME TypeOK, ClaimedBeforeWork, [Next]_vars,
                      NEW i \in Jobs, runner'[i] \in Working
               PROVE  status'[i] \notin {"absent", "pending", "cancelled"}
    BY DEF ClaimedBeforeWork
  <2> USE DEF TypeOK, ClaimedBeforeWork, Working, Statuses, RunnerSteps, Live
  <2>1. ASSUME NEW j \in Jobs, InsertRow(j)
        PROVE  status'[i] \notin {"absent", "pending", "cancelled"}
    BY <2>1 DEF InsertRow, rowVars
  <2>2. CASE Schedule
    BY <2>2 DEF Schedule, rowVars
  <2>3. ASSUME NEW o \in Owners, NEW j \in Jobs, CancelJob(o, j)
        PROVE  status'[i] \notin {"absent", "pending", "cancelled"}
    BY <2>3 DEF CancelJob, SetStatus
  <2>4. CASE DeleteAccountRows
    BY <2>4 DEF DeleteAccountRows
  <2>5. ASSUME NEW j \in Jobs, RunnerNext(j)
        PROVE  status'[i] \notin {"absent", "pending", "cancelled"}
    <3> USE DEF Step, SetStatus, rowVars
    <3>1. CASE Claim(j)      BY <3>1 DEF Claim
    <3>2. CASE Complete(j)   BY <3>2 DEF Complete
    <3>3. CASE Fail(j)       BY <3>3 DEF Fail
    <3>4. CASE RunJob(j) \/ LoadUploads(j) \/ Generate(j) \/ SaveResult(j) \/ CleanUploads(j)
      BY <3>4 DEF RunJob, LoadUploads, Generate, SaveResult, CleanUploads
    <3> QED
      BY <2>5, <3>1, <3>2, <3>3, <3>4 DEF RunnerNext
  <2>6. ASSUME NEW s \in Sweepers, SweepNext(s)
        PROVE  status'[i] \notin {"absent", "pending", "cancelled"}
    BY <2>6 DEF SweepNext, QueryExpired, DeleteExpired, QueryStale, RecoverFiles,
       CommitRecovery, rowVars
  <2>7. CASE ServerCrash
    BY <2>7 DEF ServerCrash, rowVars
  <2>8. CASE UNCHANGED <<status, runner>>
    BY <2>8
  <2>9. ASSUME [Next]_vars
        PROVE  \/ \E j \in Jobs : InsertRow(j) \/ RunnerNext(j)
               \/ Schedule \/ DeleteAccountRows \/ ServerCrash
               \/ \E o \in Owners, j \in Jobs : CancelJob(o, j)
               \/ \E s \in Sweepers : SweepNext(s)
               \/ UNCHANGED <<status, runner>>
    BY <2>9 DEF Next, ClientNext, HandlerNext, BeginSubmit, StoreUpload, CleanCancelled,
       BeginSave, MarkSaved, BeginDeleteAccount, DeleteAccountFiles, Age, Restart,
       ScriptCrash, rowVars, fileVars, vars
  <2> QED
    BY <2>1, <2>2, <2>3, <2>4, <2>5, <2>6, <2>7, <2>8, <2>9
<1>3. ClaimedBeforeWork => CancelledNeverRuns
  BY DEF ClaimedBeforeWork, CancelledNeverRuns
<1> QED
  BY <1>1, <1>2, <1>3, TypeCorrect, PTL DEF Spec

-----------------------------------------------------------------------------
(***************************************************************************)
(* At most one active job per idempotent request.  The rows enter the      *)
(* index's scope in two places, the insert and update_status(COMPLETED) of *)
(* a job that a sweep had failed, and the index is consulted in both.      *)
(***************************************************************************)
THEOREM OneActivePerKeyHolds == Spec => []OneActivePerKey
<1>1. Init => OneActivePerKey
  BY DEF Init, OneActivePerKey, Active, HasRow
<1>2. TypeOK /\ OneActivePerKey /\ [Next]_vars => OneActivePerKey'
  <2> SUFFICES ASSUME TypeOK, OneActivePerKey, [Next]_vars,
                      NEW i \in Jobs, NEW l \in Jobs,
                      Active(i)', Active(l)', owner'[i] = owner'[l], key'[i] = key'[l]
               PROVE  i = l
    BY DEF OneActivePerKey
  <2> USE DEF TypeOK, OneActivePerKey, Active, HasRow, ActiveFor, Statuses
  <2>1. ASSUME NEW j \in Jobs, InsertRow(j) PROVE i = l
    BY <2>1 DEF InsertRow, rowVars
  <2>2. ASSUME NEW j \in Jobs, RunnerNext(j) PROVE i = l
    <3> USE DEF SetStatus, rowVars
    <3>1. CASE Claim(j)      BY <3>1 DEF Claim
    <3>2. CASE Complete(j)   BY <3>2 DEF Complete
    <3>3. CASE Fail(j)       BY <3>3 DEF Fail
    <3>4. CASE RunJob(j) \/ LoadUploads(j) \/ Generate(j) \/ SaveResult(j) \/ CleanUploads(j)
      BY <3>4 DEF RunJob, LoadUploads, Generate, SaveResult, CleanUploads
    <3> QED
      BY <2>2, <3>1, <3>2, <3>3, <3>4 DEF RunnerNext
  <2>3. ASSUME NEW o \in Owners, NEW j \in Jobs, CancelJob(o, j) PROVE i = l
    BY <2>3 DEF CancelJob, SetStatus
  <2>4. CASE DeleteAccountRows
    BY <2>4 DEF DeleteAccountRows
  <2>5. ASSUME NEW s \in Sweepers, CommitRecovery(s) PROVE i = l
    BY <2>5 DEF CommitRecovery
  <2>6. CASE UNCHANGED <<status, owner, key>>
    BY <2>6
  <2>7. \/ \E j \in Jobs : InsertRow(j) \/ RunnerNext(j)
        \/ \E o \in Owners, j \in Jobs : CancelJob(o, j)
        \/ DeleteAccountRows
        \/ \E s \in Sweepers : CommitRecovery(s)
        \/ UNCHANGED <<status, owner, key>>
    BY DEF Next, ClientNext, HandlerNext, SweepNext, BeginSubmit, StoreUpload, Schedule,
       CleanCancelled, BeginSave, MarkSaved, BeginDeleteAccount, DeleteAccountFiles,
       QueryExpired, DeleteExpired, QueryStale, RecoverFiles, Age, ServerCrash, Restart,
       ScriptCrash, rowVars, fileVars, vars
  <2> QED
    BY <2>1, <2>2, <2>3, <2>4, <2>5, <2>6, <2>7
<1> QED
  BY <1>1, <1>2, TypeCorrect, PTL DEF Spec

-----------------------------------------------------------------------------
(***************************************************************************)
(* The invariant under the timing assumption, one lemma per group of       *)
(* writers.  Safe is PromptInv without its type part.                      *)
(***************************************************************************)
Safe == SubmittedIsPending /\ WorkingIsProcessing /\ ProcessingIsClaimed /\ StaleIsDead
          /\ RecoveredIsDead

\* The handlers of the event loop.
LEMMA HandlerStepSafe ==
    ASSUME TypeOK, Safe, ClientNext \/ HandlerNext
    PROVE  Safe'
<1> USE ParameterAssumption
    DEF TypeOK, Safe, SubmittedIsPending, WorkingIsProcessing, ProcessingIsClaimed,
        StaleIsDead, RecoveredIsDead,
        Stale, Working, Live, RunnerSteps, Statuses, Sweepers
<1>1. ASSUME NEW o \in Owners, NEW k \in Keys \cup {NoKey}, BeginSubmit(o, k) PROVE Safe'
  BY <1>1 DEF BeginSubmit, Idle, rowVars
<1>2. ASSUME NEW j \in Jobs, InsertRow(j) PROVE Safe'
  <2>1. CASE loop.key # NoKey /\ ActiveFor(loop.owner, loop.key) # {}
    BY <1>2, <2>1 DEF InsertRow, Idle, rowVars
  <2>2. CASE ~(loop.key # NoKey /\ ActiveFor(loop.owner, loop.key) # {})
    <3>1. SubmittedIsPending'
      <4>1. loop'.job = j
        BY <1>2, <2>2 DEF InsertRow, Handler
      <4>2. status' = [status EXCEPT ![j] = "pending"] /\ runner' = runner
        BY <1>2, <2>2 DEF InsertRow
      <4>3. status[j] = "absent"
        BY <1>2 DEF InsertRow
      <4> QED
        BY <4>1, <4>2, <4>3
    <3>2. WorkingIsProcessing' /\ ProcessingIsClaimed' /\ StaleIsDead'
      BY <1>2, <2>2 DEF InsertRow
    <3>3. RecoveredIsDead'
      BY <1>2, <2>2 DEF InsertRow
    <3> QED
      BY <3>1, <3>2, <3>3
  <2> QED
    BY <2>1, <2>2
<1>3. ASSUME NEW image \in Images, NEW next \in {"garment", "schedule"},
             StoreUpload(image, next)
      PROVE  Safe'
  BY <1>3 DEF StoreUpload, InHandler, Images, Handler, Idle, rowVars
<1>4. CASE Schedule
  BY <1>4 DEF Schedule, InHandler, Idle, rowVars
<1>5. ASSUME NEW o \in Owners, NEW j \in Jobs, CancelJob(o, j) PROVE Safe'
  BY <1>5 DEF CancelJob, SetStatus, Idle
<1>6. CASE CleanCancelled
  BY <1>6 DEF CleanCancelled, Idle, rowVars
<1>7. ASSUME NEW u \in Users, NEW j \in Jobs, BeginSave(u, j) PROVE Safe'
  BY <1>7 DEF BeginSave, Idle, rowVars
<1>8. CASE MarkSaved
  BY <1>8 DEF MarkSaved, Idle
<1>9. ASSUME NEW u \in Users, BeginDeleteAccount(u) PROVE Safe'
  BY <1>9 DEF BeginDeleteAccount, Idle, rowVars
<1>10. CASE DeleteAccountFiles
  BY <1>10 DEF DeleteAccountFiles, InHandler, Handler, Idle, rowVars
<1>11. CASE DeleteAccountRows
  BY <1>11 DEF DeleteAccountRows, JobsOf, HasRow, Idle
<1> QED
  BY <1>1, <1>2, <1>3, <1>4, <1>5, <1>6, <1>7, <1>8, <1>9, <1>10, <1>11
  DEF ClientNext, HandlerNext, Images

\* A background task.
LEMMA RunnerStepSafe ==
    ASSUME TypeOK, Safe, NEW j \in Jobs, RunnerNext(j)
    PROVE  Safe'
<1> USE DEF TypeOK, Safe, SubmittedIsPending, WorkingIsProcessing, ProcessingIsClaimed,
        StaleIsDead, RecoveredIsDead, Stale, Working, Live, RunnerSteps, Statuses, Sweepers, Step,
        SetStatus, HasRow
<1>1. CASE Claim(j)      BY <1>1 DEF Claim
<1>2. CASE Complete(j)   BY <1>2 DEF Complete
<1>3. CASE Fail(j)       BY <1>3 DEF Fail
<1>4. CASE RunJob(j)       BY <1>4 DEF RunJob, rowVars
<1>5. CASE LoadUploads(j)  BY <1>5 DEF LoadUploads, rowVars
<1>6. CASE Generate(j)     BY <1>6 DEF Generate, rowVars
<1>7. CASE SaveResult(j)   BY <1>7 DEF SaveResult, rowVars
<1>8. CASE CleanUploads(j) BY <1>8 DEF CleanUploads, rowVars
<1> QED
  BY <1>1, <1>2, <1>3, <1>4, <1>5, <1>6, <1>7, <1>8 DEF RunnerNext

\* A sweep: what it finds stale is dead, and what it commits was found stale.
LEMMA SweepStepSafe ==
    ASSUME TypeOK, Safe, NEW s \in Sweepers, SweepNext(s)
    PROVE  Safe'
<1> USE DEF TypeOK, Safe, SubmittedIsPending, WorkingIsProcessing, ProcessingIsClaimed,
        StaleIsDead, RecoveredIsDead, Stale, Working, Live, RunnerSteps, Statuses, Sweepers, Off
<1>1. CASE QueryExpired
  BY <1>1 DEF QueryExpired, rowVars
<1>2. ASSUME NEW j \in Jobs, DeleteExpired(j) PROVE Safe'
  BY <1>2 DEF DeleteExpired, rowVars
<1>3. CASE QueryStale(s)
  BY <1>3 DEF QueryStale, rowVars
<1>4. ASSUME NEW j \in Jobs, RecoverFiles(s, j) PROVE Safe'
  BY <1>4 DEF RecoverFiles, rowVars
<1>5. CASE CommitRecovery(s)
  BY <1>5 DEF CommitRecovery, HasRow
<1> QED
  BY <1>1, <1>2, <1>3, <1>4, <1>5 DEF SweepNext

\* No row is processing and no thread runs at the start.
LEMMA SafeInit == Init => Safe
  BY DEF Init, Safe, SubmittedIsPending, WorkingIsProcessing, ProcessingIsClaimed,
     StaleIsDead, RecoveredIsDead, Stale, Working, Live, Off, Idle

\* The steps in which no processing row turns stale under a thread.
PromptAge(j) == Age(j) /\ (status[j] = "processing" => runner[j] \notin Live)

PromptNext ==
    \/ ClientNext \/ HandlerNext
    \/ \E j \in Jobs : RunnerNext(j) \/ PromptAge(j)
    \/ \E s \in Sweepers : SweepNext(s)
    \/ ServerCrash \/ Restart \/ ScriptCrash

\* They are all that PromptRuns allows, and they keep what is safe.
LEMMA SafeStep == TypeOK /\ Safe /\ [PromptNext]_vars => Safe'
<1> SUFFICES ASSUME TypeOK, Safe, [PromptNext]_vars PROVE Safe'
  OBVIOUS
<1> USE DEF TypeOK, Safe, SubmittedIsPending, WorkingIsProcessing, ProcessingIsClaimed,
        StaleIsDead, RecoveredIsDead, Stale, Working, Live, RunnerSteps, Statuses, Sweepers,
        Off
<1>1. ASSUME NEW j \in Jobs, PromptAge(j) PROVE Safe'
  BY <1>1 DEF PromptAge, Age
<1>2. CASE ServerCrash
  BY <1>2 DEF ServerCrash, Idle, rowVars
<1>3. CASE Restart
  BY <1>3 DEF Restart, rowVars
<1>4. CASE ScriptCrash
  BY <1>4 DEF ScriptCrash, rowVars
<1>5. CASE UNCHANGED vars
  BY <1>5 DEF vars
<1> HIDE DEF TypeOK, Safe
<1> QED
  BY <1>1, <1>2, <1>3, <1>4, <1>5, HandlerStepSafe, RunnerStepSafe, SweepStepSafe
  DEF PromptNext

(***************************************************************************)
(* If no run outlives the staleness threshold, threads and recoveries never*)
(* hold the same job: a stale job has no thread, stays without one, and a  *)
(* thread past its claim finds its row as it left it.                      *)
(***************************************************************************)
THEOREM PromptInvHolds == ASSUME PromptRuns PROVE Spec => []PromptInv
<1>1. TypeOK /\ Safe <=> PromptInv
  BY DEF Safe, PromptInv
<1>2. [Next]_vars => [PromptNext]_vars
  <2>1. \A j \in Jobs : Age(j) => PromptAge(j)
    BY PromptRuns DEF Age, PromptAge
  <2> QED
    BY <2>1 DEF Next, PromptNext
<1> QED
  BY <1>1, <1>2, SafeInit, SafeStep, TypeCorrect, PTL DEF Spec

(***************************************************************************)
(* A final status is final.  The two unconditional writers are Complete    *)
(* and CommitRecovery; by the invariant the first has a processing row and *)
(* the second has processing or already failed ones.                       *)
(***************************************************************************)
LEMMA FinalIfPrompt == Spec /\ []PromptInv => TerminalIsFinal
<1> DEFINE Final == \A j \in Jobs :
                      status[j] \in Terminal => status'[j] \in {status[j], "deleted"}
<1>1. PromptInv /\ [Next]_vars => [Final]_vars
  <2> SUFFICES ASSUME PromptInv, Next, NEW i \in Jobs, status[i] \in Terminal
               PROVE  status'[i] \in {status[i], "deleted"}
    OBVIOUS
  <2> USE DEF PromptInv, TypeOK, Terminal, Statuses
  <2>1. ASSUME NEW j \in Jobs, InsertRow(j) PROVE status'[i] \in {status[i], "deleted"}
    BY <2>1 DEF InsertRow, rowVars
  <2>2. ASSUME NEW j \in Jobs, RunnerNext(j) PROVE status'[i] \in {status[i], "deleted"}
    <3> USE DEF WorkingIsProcessing, Working, Step, SetStatus, HasRow, rowVars
    <3>1. CASE Claim(j)      BY <3>1 DEF Claim
    <3>2. CASE Complete(j)   BY <3>2 DEF Complete
    <3>3. CASE Fail(j)       BY <3>3 DEF Fail
    <3>4. CASE RunJob(j) \/ LoadUploads(j) \/ Generate(j) \/ SaveResult(j) \/ CleanUploads(j)
      BY <3>4 DEF RunJob, LoadUploads, Generate, SaveResult, CleanUploads
    <3> QED
      BY <2>2, <3>1, <3>2, <3>3, <3>4 DEF RunnerNext
  <2>3. ASSUME NEW o \in Owners, NEW j \in Jobs, CancelJob(o, j)
        PROVE  status'[i] \in {status[i], "deleted"}
    BY <2>3 DEF CancelJob, SetStatus
  <2>4. CASE DeleteAccountRows
    BY <2>4 DEF DeleteAccountRows
  <2>5. ASSUME NEW s \in Sweepers, CommitRecovery(s)
        PROVE  status'[i] \in {status[i], "deleted"}
    BY <2>5 DEF CommitRecovery, RecoveredIsDead
  <2>6. \/ \E j \in Jobs : InsertRow(j) \/ RunnerNext(j)
        \/ \E o \in Owners, j \in Jobs : CancelJob(o, j)
        \/ DeleteAccountRows
        \/ \E s \in Sweepers : CommitRecovery(s)
        \/ UNCHANGED status
    BY DEF Next, ClientNext, HandlerNext, SweepNext, BeginSubmit, StoreUpload, Schedule,
       CleanCancelled, BeginSave, MarkSaved, BeginDeleteAccount, DeleteAccountFiles,
       QueryExpired, DeleteExpired, QueryStale, RecoverFiles, Age, ServerCrash, Restart,
       ScriptCrash, rowVars, fileVars
  <2> QED
    BY <2>1, <2>2, <2>3, <2>4, <2>5, <2>6
<1> QED
  BY <1>1, PTL DEF Spec, TerminalIsFinal

\* Under PromptRuns a completed, failed or cancelled job is only ever deleted.
THEOREM TerminalIsFinalHolds == ASSUME PromptRuns PROVE Spec => TerminalIsFinal
  BY FinalIfPrompt, PromptInvHolds, PTL

-----------------------------------------------------------------------------
(***************************************************************************)
(* The job service implements JobLifecycle: each write of a status is one  *)
(* of its moves, by the same invariant, and what is not is a stutter.  A   *)
(* submission without a key maps to one without a request, whatever value  *)
(* NoKey has.                                                              *)
(***************************************************************************)
LEMMA LifecycleIfPrompt == Spec /\ []PromptInv => ImplementsLifecycle
<1> DEFINE Request(k, o) == [j \in Jobs |-> IF k[j] = NoKey THEN NoKey ELSE <<o[j], k[j]>>]
<1>1. Init => Lifecycle!Init
  BY DEF Init, Lifecycle!Init
<1>2. PromptInv /\ [Next]_vars => [Lifecycle!Next]_(Lifecycle!vars)
  <2> SUFFICES ASSUME PromptInv, [Next]_vars
               PROVE  Lifecycle!Next \/ Lifecycle!vars' = Lifecycle!vars
    OBVIOUS
  <2> USE DEF PromptInv, TypeOK
  <2>1. ASSUME NEW j \in Jobs, InsertRow(j), ~ UNCHANGED rowVars PROVE Lifecycle!Next
    <3>1. PICK r \in (Owners \X Keys) \cup {NoKey} :
            r = IF loop.key = NoKey THEN NoKey ELSE <<loop.owner, loop.key>>
      BY DEF Handler
    <3>2. /\ status[j] = "absent"
          /\ status' = [status EXCEPT ![j] = "pending"]
          /\ owner' = [owner EXCEPT ![j] = loop.owner]
          /\ key' = [key EXCEPT ![j] = loop.key]
          /\ loop.key # NoKey => ActiveFor(loop.owner, loop.key) = {}
      BY <2>1 DEF InsertRow
    <3>3. ASSUME r # NoKey PROVE Lifecycle!Holders(r) = {}
      BY <3>1, <3>2, <3>3 DEF Lifecycle!Holders, ActiveFor, Active, HasRow
    <3>4. Request(key, owner)' = [Request(key, owner) EXCEPT ![j] = r]
      BY <3>1, <3>2
    <3>5. Lifecycle!Accept(j, r)
      BY <3>2, <3>3, <3>4 DEF Lifecycle!Accept
    <3> QED
      BY <3>5 DEF Lifecycle!Next
  <2>2. ASSUME NEW j \in Jobs, RunnerNext(j), ~ UNCHANGED status PROVE Lifecycle!Next
    <3> USE DEF WorkingIsProcessing, Working, Step, SetStatus, HasRow, rowVars
    <3>1. CASE Claim(j)
      <4>1. Lifecycle!Start(j)
        BY <2>2, <3>1 DEF Claim, Lifecycle!Start, Lifecycle!Move
      <4> QED
        BY <4>1 DEF Lifecycle!Next
    <3>2. CASE Complete(j)
      <4>1. Lifecycle!Succeed(j)
        BY <2>2, <3>2 DEF Complete, Lifecycle!Succeed, Lifecycle!Move
      <4> QED
        BY <4>1 DEF Lifecycle!Next
    <3>3. CASE Fail(j)
      <4>1. Lifecycle!GiveUp({j})
        BY <2>2, <3>3 DEF Fail, Lifecycle!GiveUp, Lifecycle!Move
      <4> QED
        BY <4>1 DEF Lifecycle!Next
    <3>4. CASE RunJob(j) \/ LoadUploads(j) \/ Generate(j) \/ SaveResult(j) \/ CleanUploads(j)
      BY <2>2, <3>4 DEF RunJob, LoadUploads, Generate, SaveResult, CleanUploads
    <3> QED
      BY <2>2, <3>1, <3>2, <3>3, <3>4 DEF RunnerNext
  <2>3. ASSUME NEW o \in Owners, NEW j \in Jobs, CancelJob(o, j) PROVE Lifecycle!Next
    <3>1. Lifecycle!Cancel(j)
      BY <2>3 DEF CancelJob, SetStatus, Lifecycle!Cancel, Lifecycle!Move
    <3> QED
      BY <3>1 DEF Lifecycle!Next
  <2>4. CASE DeleteAccountRows
    <3>1. Lifecycle!Erase(JobsOf(loop.owner))
      BY <2>4 DEF DeleteAccountRows, JobsOf, HasRow, Statuses, Lifecycle!Erase, Lifecycle!Move
    <3>2. JobsOf(loop.owner) \in SUBSET Jobs
      BY DEF JobsOf
    <3> QED
      BY <3>1, <3>2 DEF Lifecycle!Next
  <2>5. ASSUME NEW s \in Sweepers, CommitRecovery(s), ~ UNCHANGED status PROVE Lifecycle!Next
    <3>1. Lifecycle!GiveUp(sweep[s].batch)
      BY <2>5 DEF CommitRecovery, RecoveredIsDead, HasRow, Lifecycle!GiveUp, Lifecycle!Move
    <3>2. sweep[s].batch \in SUBSET Jobs
      OBVIOUS
    <3> QED
      BY <3>1, <3>2 DEF Lifecycle!Next
  <2>6. CASE UNCHANGED <<status, owner, key>>
    BY <2>6 DEF Lifecycle!vars
  <2>7. \/ \E j \in Jobs : InsertRow(j) /\ ~ UNCHANGED rowVars
        \/ \E j \in Jobs : RunnerNext(j) /\ ~ UNCHANGED status
        \/ \E o \in Owners, j \in Jobs : CancelJob(o, j)
        \/ DeleteAccountRows
        \/ \E s \in Sweepers : CommitRecovery(s) /\ ~ UNCHANGED status
        \/ UNCHANGED <<status, owner, key>>
    <3>1. ASSUME NEW j \in Jobs, RunnerNext(j) PROVE UNCHANGED <<owner, key>>
      BY <3>1 DEF RunnerNext, RunJob, Claim, LoadUploads, Generate, SaveResult, Complete, Fail,
         CleanUploads, rowVars
    <3>2. ASSUME NEW s \in Sweepers, CommitRecovery(s) PROVE UNCHANGED <<owner, key>>
      BY <3>2 DEF CommitRecovery
    <3> QED
      BY <3>1, <3>2
      DEF Next, ClientNext, HandlerNext, SweepNext, BeginSubmit, StoreUpload, Schedule,
         CleanCancelled, BeginSave, MarkSaved, BeginDeleteAccount, DeleteAccountFiles,
         QueryExpired, DeleteExpired, QueryStale, RecoverFiles, Age, ServerCrash, Restart,
         ScriptCrash, rowVars, fileVars, vars
  <2> QED
    BY <2>1, <2>2, <2>3, <2>4, <2>5, <2>6, <2>7
<1> QED
  BY <1>1, <1>2, PTL DEF Spec, ImplementsLifecycle, Lifecycle!Spec

\* Under PromptRuns each write of a row is a move of JobLifecycle.
THEOREM ImplementsLifecycleHolds == ASSUME PromptRuns PROVE Spec => ImplementsLifecycle
  BY LifecycleIfPrompt, PromptInvHolds, PTL

-----------------------------------------------------------------------------
(***************************************************************************)
(* Files and rows.  The expiry sweep's list stays what it was queried as,  *)
(* because a completed job is never written again.                         *)
(***************************************************************************)
LEMMA SweepsKeepToBatchHolds == Spec /\ []PromptInv => []SweepsKeepToBatch
<1>1. Init => SweepsKeepToBatch
  BY DEF Init, SweepsKeepToBatch, Sweepers, Off
<1>2. PromptInv /\ SweepsKeepToBatch /\ [Next]_vars => SweepsKeepToBatch'
  <2> SUFFICES ASSUME PromptInv, SweepsKeepToBatch, [Next]_vars PROVE SweepsKeepToBatch'
    OBVIOUS
  <2> USE DEF PromptInv, TypeOK, SweepsKeepToBatch, Sweepers
  <2>1. ASSUME NEW j \in Jobs, InsertRow(j) PROVE SweepsKeepToBatch'
    BY <2>1 DEF InsertRow, rowVars
  <2>2. ASSUME NEW j \in Jobs, RunnerNext(j) PROVE SweepsKeepToBatch'
    <3> USE DEF WorkingIsProcessing, Working, Step, SetStatus, HasRow, rowVars
    <3>1. CASE Claim(j)      BY <3>1 DEF Claim
    <3>2. CASE Complete(j)   BY <3>2 DEF Complete
    <3>3. CASE Fail(j)       BY <3>3 DEF Fail
    <3>4. CASE RunJob(j) \/ LoadUploads(j) \/ Generate(j) \/ SaveResult(j) \/ CleanUploads(j)
      BY <3>4 DEF RunJob, LoadUploads, Generate, SaveResult, CleanUploads
    <3> QED
      BY <2>2, <3>1, <3>2, <3>3, <3>4 DEF RunnerNext
  <2>3. ASSUME NEW o \in Owners, NEW j \in Jobs, CancelJob(o, j) PROVE SweepsKeepToBatch'
    BY <2>3 DEF CancelJob, SetStatus
  <2>4. CASE MarkSaved
    BY <2>4 DEF MarkSaved
  <2>5. CASE DeleteAccountRows
    BY <2>5 DEF DeleteAccountRows
  <2>6. ASSUME NEW j \in Jobs, Age(j) PROVE SweepsKeepToBatch'
    BY <2>6 DEF Age
  <2>7. ASSUME NEW s \in Sweepers, SweepNext(s) PROVE SweepsKeepToBatch'
    <3> USE DEF rowVars, Off
    <3>1. CASE QueryExpired    BY <3>1 DEF QueryExpired, Expired
    <3>2. ASSUME NEW j \in Jobs, DeleteExpired(j) PROVE SweepsKeepToBatch'
      BY <3>2 DEF DeleteExpired
    <3>3. CASE QueryStale(s)   BY <3>3 DEF QueryStale
    <3>4. ASSUME NEW j \in Jobs, RecoverFiles(s, j) PROVE SweepsKeepToBatch'
      BY <3>4 DEF RecoverFiles
    <3>5. CASE CommitRecovery(s)
      BY <3>5 DEF CommitRecovery, RecoveredIsDead, HasRow
    <3> QED
      BY <2>7, <3>1, <3>2, <3>3, <3>4, <3>5 DEF SweepNext
  <2>8. CASE ServerCrash \/ ScriptCrash
    BY <2>8 DEF ServerCrash, ScriptCrash, rowVars, Off
  <2>9. CASE UNCHANGED <<status, saved, aged, sweep>>
    BY <2>9
  <2>10. \/ \E j \in Jobs : InsertRow(j) \/ RunnerNext(j) \/ Age(j)
         \/ \E o \in Owners, j \in Jobs : CancelJob(o, j)
         \/ MarkSaved \/ DeleteAccountRows
         \/ \E s \in Sweepers : SweepNext(s)
         \/ ServerCrash \/ ScriptCrash
         \/ UNCHANGED <<status, saved, aged, sweep>>
    BY DEF Next, ClientNext, HandlerNext, BeginSubmit, StoreUpload, Schedule, CleanCancelled,
       BeginSave, BeginDeleteAccount, DeleteAccountFiles, Restart, rowVars, vars
  <2> QED
    BY <2>1, <2>2, <2>3, <2>4, <2>5, <2>6, <2>7, <2>8, <2>9, <2>10
<1> QED
  BY <1>1, <1>2, PTL DEF Spec

(***************************************************************************)
(* A completed job can be viewed until it expires.  A thread stores before *)
(* it completes, the expiry sweep deletes what had expired when it looked, *)
(* a recovery what nobody works on; the files of an account go before its  *)
(* rows in one handler, which no other disturbs.                           *)
(***************************************************************************)
LEMMA FreshIfPrompt == Spec /\ []PromptInv => []FreshResultAvailable
<1> DEFINE Inv == StoredUntilCompleted /\ FreshResultAvailable
<1>1. Init => Inv
  BY DEF Init, StoredUntilCompleted, FreshResultAvailable, Idle
<1>2. PromptInv /\ SweepsKeepToBatch /\ Inv /\ [Next]_vars => Inv'
  <2> SUFFICES ASSUME PromptInv, SweepsKeepToBatch, Inv, [Next]_vars PROVE Inv'
    OBVIOUS
  <2> USE ParameterAssumption
      DEF PromptInv, TypeOK, StoredUntilCompleted, FreshResultAvailable, Undisturbed, BeingDeleted
  <2>1. ASSUME NEW j \in Jobs, InsertRow(j) PROVE Inv'
    <3>1. loop'.op \in {"idle", "person"}
      <4>1. loop' = Idle \/ loop' = [loop EXCEPT !.op = "person", !.job = j]
        BY <2>1 DEF InsertRow
      <4>2. CASE loop' = Idle
        BY <4>2 DEF Idle
      <4>3. CASE loop' = [loop EXCEPT !.op = "person", !.job = j]
        BY <4>3 DEF Handler
      <4> QED
        BY <4>1, <4>2, <4>3
    <3>2. loop.op \notin {"deleteFiles", "deleteRows"}
      BY <2>1 DEF InsertRow, InHandler
    <3>3. \A i \in Jobs \ {j} : status'[i] = status[i] /\ owner'[i] = owner[i]
      BY <2>1 DEF InsertRow, rowVars
    <3>4. status[j] = "absent" /\ status'[j] \in {"absent", "pending"}
      BY <2>1 DEF InsertRow, rowVars
    <3>5. UNCHANGED <<saved, aged, results, runner, crashes, faults>>
      BY <2>1 DEF InsertRow, rowVars, fileVars
    <3>6. StoredUntilCompleted'
      BY <3>1, <3>2, <3>3, <3>4, <3>5
    <3>7. FreshResultAvailable'
      BY <3>1, <3>2, <3>3, <3>4, <3>5
    <3> QED
      BY <3>6, <3>7
  <2>2. ASSUME NEW j \in Jobs, RunnerNext(j) PROVE Inv'
    <3> USE DEF WorkingIsProcessing, Working, Step, SetStatus, HasRow, rowVars, fileVars
    <3>1. CASE Claim(j)        BY <3>1 DEF Claim
    <3>2. CASE SaveResult(j)   BY <3>2 DEF SaveResult, Fault
    <3>3. CASE Complete(j)     BY <3>3 DEF Complete
    <3>4. CASE Fail(j)         BY <3>4 DEF Fail
    <3>5. CASE RunJob(j) \/ LoadUploads(j) \/ Generate(j) \/ CleanUploads(j)
      BY <3>5 DEF RunJob, LoadUploads, Generate, CleanUploads
    <3> QED
      BY <2>2, <3>1, <3>2, <3>3, <3>4, <3>5 DEF RunnerNext
  <2>3. ASSUME NEW o \in Owners, NEW j \in Jobs, CancelJob(o, j) PROVE Inv'
    BY <2>3 DEF CancelJob, SetStatus, HandlerIdle, Idle, fileVars
  <2>4. CASE MarkSaved
    BY <2>4 DEF MarkSaved, InHandler, Idle, fileVars
  <2>5. ASSUME NEW u \in Users, BeginDeleteAccount(u) PROVE Inv'
    BY <2>5 DEF BeginDeleteAccount, HandlerIdle, Idle, rowVars, fileVars
  <2>6. CASE DeleteAccountFiles
    <3>1. PICK gone \in SUBSET JobsOf(loop.owner) :
            /\ \/ /\ loop' = [loop EXCEPT !.op = "deleteRows"]
                  /\ UNCHANGED faults
               \/ faults' = faults + 1 /\ loop' = Idle
            /\ results' = results \ gone
      BY <2>6 DEF DeleteAccountFiles, Fault
    <3>2. loop.op = "deleteFiles" /\ loop.owner \in Users
      BY <2>6 DEF DeleteAccountFiles, InHandler
    <3>3. UNCHANGED <<status, saved, aged, owner, runner, crashes>>
      BY <2>6 DEF DeleteAccountFiles, rowVars
    <3>4. \A j \in gone : owner[j] = loop.owner
      BY DEF JobsOf
    <3>5. CASE loop' = [loop EXCEPT !.op = "deleteRows"] /\ UNCHANGED faults
      <4>1. loop'.op = "deleteRows" /\ loop'.owner = loop.owner
        BY <3>5 DEF Handler
      <4> QED
        BY <3>1, <3>2, <3>3, <3>4, <3>5, <4>1
    <3>6. CASE faults' = faults + 1 /\ loop' = Idle
      BY <3>1, <3>2, <3>3, <3>4, <3>6 DEF Idle
    <3> QED
      BY <3>1, <3>5, <3>6
  <2>7. CASE DeleteAccountRows
    BY <2>7 DEF DeleteAccountRows, InHandler, JobsOf, HasRow, Idle, fileVars
  <2>8. ASSUME NEW s \in Sweepers, SweepNext(s) PROVE Inv'
    <3> USE DEF rowVars, fileVars, SweepsKeepToBatch, Sweepers
    <3>1. CASE QueryExpired    BY <3>1 DEF QueryExpired
    <3>2. ASSUME NEW j \in Jobs, DeleteExpired(j) PROVE Inv'
      BY <3>2 DEF DeleteExpired, Fault
    <3>3. CASE QueryStale(s)   BY <3>3 DEF QueryStale
    <3>4. ASSUME NEW j \in Jobs, RecoverFiles(s, j) PROVE Inv'
      <4>1. runner[j] # "completing" /\ status[j] # "completed"
        BY <3>4 DEF RecoverFiles, RecoveredIsDead, Live, Working
      <4> QED
        BY <3>4, <4>1 DEF RecoverFiles, Fault
    <3>5. CASE CommitRecovery(s)
      BY <3>5 DEF CommitRecovery
    <3> QED
      BY <2>8, <3>1, <3>2, <3>3, <3>4, <3>5 DEF SweepNext
  <2>9. ASSUME NEW j \in Jobs, Age(j) PROVE Inv'
    BY <2>9 DEF Age, fileVars
  <2>10. CASE ServerCrash \/ ScriptCrash
    BY <2>10 DEF ServerCrash, ScriptCrash, Idle, Live, Working, rowVars, fileVars
  <2>11. ASSUME \/ \E o \in Owners, k \in Keys \cup {NoKey} : BeginSubmit(o, k)
                \/ \E image \in Images, next \in {"garment", "schedule"} :
                      StoreUpload(image, next)
                \/ Schedule \/ CleanCancelled
                \/ \E u \in Users, j \in Jobs : BeginSave(u, j)
                \/ Restart \/ UNCHANGED vars
         PROVE  Inv'
    <3>1. CASE \E o \in Owners, k \in Keys \cup {NoKey} : BeginSubmit(o, k)
      BY <3>1 DEF BeginSubmit, HandlerIdle, Idle, rowVars, fileVars
    <3>2. CASE \E image \in Images, next \in {"garment", "schedule"} : StoreUpload(image, next)
      <4>1. loop.op \in Images /\ loop'.op \notin {"deleteFiles", "deleteRows"}
        BY <3>2 DEF StoreUpload, InHandler, Handler, Idle
      <4>2. UNCHANGED <<status, owner, saved, aged, results, runner, crashes>>
        BY <3>2 DEF StoreUpload, rowVars
      <4>3. faults' = faults \/ faults' = faults + 1
        BY <3>2 DEF StoreUpload, Fault
      <4> QED
        BY <4>1, <4>2, <4>3 DEF Images
    <3>3. CASE Schedule
      BY <3>3 DEF Schedule, InHandler, Idle, rowVars, fileVars
    <3>4. CASE CleanCancelled
      BY <3>4 DEF CleanCancelled, InHandler, Idle, rowVars
    <3>5. CASE \E u \in Users, j \in Jobs : BeginSave(u, j)
      BY <3>5 DEF BeginSave, HandlerIdle, Idle, rowVars, fileVars
    <3>6. CASE Restart \/ UNCHANGED vars
      BY <3>6 DEF Restart, vars, rowVars, fileVars
    <3> QED
      BY <2>11, <3>1, <3>2, <3>3, <3>4, <3>5, <3>6
  <2> HIDE DEF Inv, TypeOK, PromptInv
  <2> QED
    BY <2>1, <2>2, <2>3, <2>4, <2>5, <2>6, <2>7, <2>8, <2>9, <2>10, <2>11
    DEF Next, ClientNext, HandlerNext, Images
<1>3. Inv => FreshResultAvailable
  OBVIOUS
<1> QED
  BY <1>1, <1>2, <1>3, SweepsKeepToBatchHolds, PTL DEF Spec

\* Under PromptRuns a completed, unexpired job has its result file.
THEOREM FreshResultAvailableHolds == ASSUME PromptRuns PROVE Spec => []FreshResultAvailable
  BY FreshIfPrompt, PromptInvHolds, PTL

(***************************************************************************)
(* No result is left under a failed or cancelled job.  A thread that has   *)
(* stored one fails no more, since its row is the only active one of its   *)
(* key (OneActivePerKey), and a recovery has tried to delete the result of *)
(* every row it commits.                                                   *)
(***************************************************************************)
LEMMA NoStrayIfPrompt == Spec /\ []PromptInv => []NoStrayResult
<1> DEFINE Inv == NothingStoredYet /\ NoStrayResult
<1>1. Init => Inv
  BY DEF Init, NothingStoredYet, NoStrayResult, Sweepers, Off
<1>2. PromptInv /\ OneActivePerKey /\ SweepsKeepToBatch /\ Inv /\ [Next]_vars => Inv'
  <2> SUFFICES ASSUME PromptInv, OneActivePerKey, SweepsKeepToBatch, Inv, [Next]_vars
               PROVE  Inv'
    OBVIOUS
  <2> USE DEF PromptInv, TypeOK, NothingStoredYet, NoStrayResult, Sweepers
  <2>1. ASSUME NEW j \in Jobs, InsertRow(j) PROVE Inv'
    BY <2>1 DEF InsertRow, rowVars, fileVars
  <2>2. CASE Schedule
    BY <2>2 DEF Schedule, InHandler, SubmittedIsPending, rowVars, fileVars
  <2>3. ASSUME NEW o \in Owners, NEW j \in Jobs, CancelJob(o, j) PROVE Inv'
    BY <2>3 DEF CancelJob, SetStatus, fileVars
  <2>4. CASE DeleteAccountFiles
    BY <2>4 DEF DeleteAccountFiles, Fault, rowVars
  <2>5. CASE DeleteAccountRows
    BY <2>5 DEF DeleteAccountRows, fileVars
  <2>6. ASSUME NEW j \in Jobs, RunnerNext(j) PROVE Inv'
    <3> USE DEF WorkingIsProcessing, Working, Step, SetStatus, HasRow, rowVars, fileVars
    <3>1. CASE RunJob(j)       BY <3>1 DEF RunJob
    <3>2. CASE Claim(j)        BY <3>2 DEF Claim
    <3>3. CASE LoadUploads(j)  BY <3>3 DEF LoadUploads
    <3>4. CASE Generate(j)     BY <3>4 DEF Generate
    <3>5. CASE SaveResult(j)
      <4>1. \A s \in Sweepers : j \notin sweep[s].batch
        BY <3>5 DEF SaveResult, RecoveredIsDead, Live
      <4> QED
        BY <3>5, <4>1 DEF SaveResult, Fault
    <3>6. CASE Complete(j)
      <4>1. status[j] \in {"processing", "deleted"}
        BY <3>6 DEF Complete
      <4>2. HasRow(j) /\ key[j] # NoKey => ActiveFor(owner[j], key[j]) \subseteq {j}
        BY <4>1 DEF OneActivePerKey, ActiveFor, Active
      <4> QED
        BY <3>6, <4>1, <4>2 DEF Complete
    <3>7. CASE Fail(j)         BY <3>7 DEF Fail
    <3>8. CASE CleanUploads(j) BY <3>8 DEF CleanUploads
    <3> QED
      BY <2>6, <3>1, <3>2, <3>3, <3>4, <3>5, <3>6, <3>7, <3>8 DEF RunnerNext
  <2>7. ASSUME NEW s \in Sweepers, SweepNext(s) PROVE Inv'
    <3> USE DEF rowVars, fileVars, Off
    <3>1. CASE QueryExpired    BY <3>1 DEF QueryExpired
    <3>2. ASSUME NEW j \in Jobs, DeleteExpired(j) PROVE Inv'
      BY <3>2 DEF DeleteExpired, Fault
    <3>3. CASE QueryStale(s)   BY <3>3 DEF QueryStale
    <3>4. ASSUME NEW j \in Jobs, RecoverFiles(s, j) PROVE Inv'
      BY <3>4 DEF RecoverFiles, Fault
    <3>5. CASE CommitRecovery(s)
      <4>1. faults = 0 => sweep[s].batch \cap results = {}
        BY <3>5 DEF CommitRecovery
      <4> QED
        BY <3>5, <4>1 DEF CommitRecovery
    <3> QED
      BY <2>7, <3>1, <3>2, <3>3, <3>4, <3>5 DEF SweepNext
  <2>8. CASE ServerCrash \/ ScriptCrash
    BY <2>8 DEF ServerCrash, ScriptCrash, Live, Working, rowVars, fileVars, Off
  <2>9. CASE UNCHANGED <<status, results, runner, sweep>> /\ faults' \in {faults, faults + 1}
    BY <2>9
  <2>10. \/ \E j \in Jobs : InsertRow(j) \/ RunnerNext(j)
         \/ \E o \in Owners, j \in Jobs : CancelJob(o, j)
         \/ Schedule \/ DeleteAccountFiles \/ DeleteAccountRows
         \/ \E s \in Sweepers : SweepNext(s)
         \/ ServerCrash \/ ScriptCrash
         \/ UNCHANGED <<status, results, runner, sweep>> /\ faults' \in {faults, faults + 1}
    BY DEF Next, ClientNext, HandlerNext, BeginSubmit, StoreUpload, Fault, CleanCancelled,
       BeginSave, MarkSaved, BeginDeleteAccount, Age, Restart, rowVars, fileVars, vars
  <2> QED
    BY <2>1, <2>2, <2>3, <2>4, <2>5, <2>6, <2>7, <2>8, <2>9, <2>10
<1>3. Inv => NoStrayResult
  OBVIOUS
<1> QED
  BY <1>1, <1>2, <1>3, OneActivePerKeyHolds, SweepsKeepToBatchHolds, PTL DEF Spec

\* Under PromptRuns a failed or cancelled job has none.
THEOREM NoStrayResultHolds == ASSUME PromptRuns PROVE Spec => []NoStrayResult
  BY NoStrayIfPrompt, PromptInvHolds, PTL

(***************************************************************************)
(* The photos of a job that is over are gone, if cleanup_temp does what it *)
(* is asked.  Every way out of "processing" leads through the finally      *)
(* clause of its thread, cancel_job cleans up itself, and the rows of an   *)
(* account go after its files.                                             *)
(***************************************************************************)
LEMMA UploadsIfPrompt ==
    ASSUME TidyCleanup PROVE Spec /\ []PromptInv => []UploadsGoneWhenOver
<1>1. Init => UploadsFollowRows
  BY DEF Init, UploadsFollowRows, JobsOf, Terminal, Idle
<1>2. PromptInv /\ UploadsFollowRows /\ [Next]_vars => UploadsFollowRows'
  <2> SUFFICES ASSUME PromptInv, UploadsFollowRows, [Next]_vars PROVE UploadsFollowRows'
    OBVIOUS
  <2>0. \A j : CleanTemp(j) => uploads' = [uploads EXCEPT ![j] = {}]
    BY TidyCleanup DEF CleanTemp, Leftovers
  <2> USE DEF PromptInv, TypeOK, UploadsFollowRows, JobsOf, HasRow, Terminal, Live, Working
  <2>1. ASSUME NEW o \in Owners, NEW k \in Keys \cup {NoKey}, BeginSubmit(o, k)
        PROVE  UploadsFollowRows'
    BY <2>1 DEF BeginSubmit, HandlerIdle, Idle, rowVars, fileVars
  <2>2. ASSUME NEW j \in Jobs, InsertRow(j) PROVE UploadsFollowRows'
    <3>1. loop'.op \in {"idle", "person"}
      <4>1. loop' = Idle \/ loop' = [loop EXCEPT !.op = "person", !.job = j]
        BY <2>2 DEF InsertRow
      <4>2. CASE loop' = Idle
        BY <4>2 DEF Idle
      <4>3. CASE loop' = [loop EXCEPT !.op = "person", !.job = j]
        BY <4>3 DEF Handler
      <4> QED
        BY <4>1, <4>2, <4>3
    <3>2. loop.op = "insert"
      BY <2>2 DEF InsertRow, InHandler
    <3>3. \A i \in Jobs : status'[i] = status[i] \/ status'[i] = "pending"
      BY <2>2 DEF InsertRow, rowVars
    <3>4. UNCHANGED <<uploads, runner, crashes>>
      BY <2>2 DEF InsertRow, fileVars
    <3> QED
      BY <3>1, <3>2, <3>3, <3>4
  <2>3. ASSUME NEW image \in Images, NEW next \in {"garment", "schedule"},
               StoreUpload(image, next)
        PROVE  UploadsFollowRows'
    <3>1. /\ loop.op \in {"person", "garment"}
          /\ status[loop.job] = "pending" /\ loop.job \in Jobs
      BY <2>3 DEF StoreUpload, InHandler, Images, SubmittedIsPending
    <3>2. loop'.op \in {"idle", "garment", "schedule"}
      BY <2>3 DEF StoreUpload, Handler, Idle
    <3>3. UNCHANGED <<status, runner, crashes>>
      BY <2>3 DEF StoreUpload, rowVars
    <3>4. \A i \in Jobs \ {loop.job} : uploads'[i] = uploads[i]
      BY <2>3 DEF StoreUpload
    <3> QED
      BY <3>1, <3>2, <3>3, <3>4
  <2>4. CASE Schedule
    BY <2>4 DEF Schedule, InHandler, SubmittedIsPending, Idle, rowVars, fileVars
  <2>5. ASSUME NEW o \in Owners, NEW j \in Jobs, CancelJob(o, j) PROVE UploadsFollowRows'
    BY <2>5 DEF CancelJob, SetStatus, HandlerIdle, Idle, fileVars
  <2>6. CASE CleanCancelled
    BY <2>0, <2>6 DEF CleanCancelled, InHandler, Idle, rowVars
  <2>7. ASSUME NEW u \in Users, NEW j \in Jobs, BeginSave(u, j) PROVE UploadsFollowRows'
    BY <2>7 DEF BeginSave, HandlerIdle, Idle, rowVars, fileVars
  <2>8. CASE MarkSaved
    BY <2>8 DEF MarkSaved, InHandler, Idle, fileVars
  <2>9. ASSUME NEW u \in Users, BeginDeleteAccount(u) PROVE UploadsFollowRows'
    BY <2>9 DEF BeginDeleteAccount, HandlerIdle, Idle, rowVars, fileVars
  <2>10. CASE DeleteAccountFiles
    <3>1. PICK gone \in SUBSET JobsOf(loop.owner) :
            /\ \/ gone = JobsOf(loop.owner) /\ loop' = [loop EXCEPT !.op = "deleteRows"]
               \/ loop' = Idle
            /\ uploads' \in {left \in [Jobs -> SUBSET Images] :
                              \A j \in Jobs : left[j] \in IF j \in gone
                                                           THEN Leftovers(j)
                                                           ELSE {uploads[j]}}
      BY <2>10 DEF DeleteAccountFiles
    <3>2. \A j \in Jobs : uploads'[j] = IF j \in gone THEN {} ELSE uploads[j]
      BY <3>1, TidyCleanup DEF Leftovers
    <3>3. UNCHANGED <<status, owner, runner, crashes>> /\ loop.op = "deleteFiles"
      BY <2>10 DEF DeleteAccountFiles, InHandler, rowVars
    <3>4. CASE gone = JobsOf(loop.owner) /\ loop' = [loop EXCEPT !.op = "deleteRows"]
      <4>1. loop'.op = "deleteRows" /\ loop'.owner = loop.owner
        BY <3>4 DEF Handler
      <4> QED
        BY <3>2, <3>3, <3>4, <4>1
    <3>5. CASE loop' = Idle
      BY <3>2, <3>3, <3>5 DEF Idle
    <3> QED
      BY <3>1, <3>4, <3>5
  <2>11. CASE DeleteAccountRows
    BY <2>11 DEF DeleteAccountRows, InHandler, Idle, fileVars
  <2>12. ASSUME NEW j \in Jobs, RunnerNext(j) PROVE UploadsFollowRows'
    <3> USE DEF WorkingIsProcessing, Step, SetStatus, rowVars, fileVars
    <3>1. CASE RunJob(j)       BY <3>1 DEF RunJob
    <3>2. CASE Claim(j)        BY <3>2 DEF Claim
    <3>3. CASE LoadUploads(j)  BY <3>3 DEF LoadUploads
    <3>4. CASE Generate(j)     BY <3>4 DEF Generate
    <3>5. CASE SaveResult(j)   BY <3>5 DEF SaveResult
    <3>6. CASE Complete(j)     BY <3>6 DEF Complete
    <3>7. CASE Fail(j)         BY <3>7 DEF Fail
    <3>8. CASE CleanUploads(j) BY <2>0, <3>8 DEF CleanUploads
    <3> QED
      BY <2>12, <3>1, <3>2, <3>3, <3>4, <3>5, <3>6, <3>7, <3>8 DEF RunnerNext
  <2>13. ASSUME NEW s \in Sweepers, SweepNext(s) PROVE UploadsFollowRows'
    <3> USE DEF rowVars, fileVars, Sweepers
    <3>1. CASE QueryExpired    BY <3>1 DEF QueryExpired
    <3>2. ASSUME NEW j \in Jobs, DeleteExpired(j) PROVE UploadsFollowRows'
      BY <2>0, <3>2 DEF DeleteExpired
    <3>3. CASE QueryStale(s)   BY <3>3 DEF QueryStale
    <3>4. ASSUME NEW j \in Jobs, RecoverFiles(s, j) PROVE UploadsFollowRows'
      BY <2>0, <3>4 DEF RecoverFiles
    <3>5. CASE CommitRecovery(s)
      BY <3>5 DEF CommitRecovery, RecoveredIsDead
    <3> QED
      BY <2>13, <3>1, <3>2, <3>3, <3>4, <3>5 DEF SweepNext
  <2>14. CASE ServerCrash \/ ScriptCrash
    BY <2>14 DEF ServerCrash, ScriptCrash, Idle, rowVars, fileVars
  <2>15. CASE Restart \/ UNCHANGED vars \/ \E j \in Jobs : Age(j)
    BY <2>15 DEF Restart, Age, rowVars, fileVars, vars
  <2> HIDE DEF PromptInv, UploadsFollowRows
  <2> QED
    BY <2>1, <2>2, <2>3, <2>4, <2>5, <2>6, <2>7, <2>8, <2>9, <2>10, <2>11, <2>12, <2>13,
       <2>14, <2>15
    DEF Next, ClientNext, HandlerNext, Images
<1>3. PromptInv /\ UploadsFollowRows => UploadsGoneWhenOver
  <2> SUFFICES ASSUME UploadsFollowRows, NEW j \in Jobs, crashes = 0,
                      status[j] \in Terminal \cup {"deleted"}, runner[j] \notin Live,
                      loop.job # j
               PROVE  uploads[j] = {}
    BY DEF UploadsGoneWhenOver
  <2> QED
    BY DEF UploadsFollowRows
<1> QED
  BY <1>1, <1>2, <1>3, PTL DEF Spec

\* Under both assumptions the photos of a job that is over are deleted.
THEOREM UploadsGoneWhenOverHolds ==
    ASSUME PromptRuns, TidyCleanup PROVE Spec => []UploadsGoneWhenOver
  BY UploadsIfPrompt, PromptInvHolds, PTL

=============================================================================

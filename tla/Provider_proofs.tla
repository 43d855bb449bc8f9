--------------------------- MODULE Provider_proofs ---------------------------
(***************************************************************************)
(* For any number of jobs and any timeouts: one inference at a time, and,  *)
(* when the stale threshold covers both waits and the overhead of a run,   *)
(* no job is stale while a thread works on it.                             *)
(***************************************************************************)
EXTENDS Provider, TLAPS

-----------------------------------------------------------------------------
\* Every step keeps the variables in their types and each wait in its limit.
THEOREM TypeCorrect == Spec => []TypeOK
<1>. USE ParameterAssumption DEF TypeOK, Live, Timed, Untimed, Limit
<1>1. Init => TypeOK
  <2>. SUFFICES ASSUME Init PROVE TypeOK
    OBVIOUS
  <2>1. age \in [Jobs -> Nat]
    <3>1. {0, StaleThreshold + 1} \subseteq Nat
      OBVIOUS
    <3>. QED
      BY <3>1 DEF Init
  <2>. QED
    BY <2>1 DEF Init
<1>2. TypeOK /\ [Next]_vars => TypeOK'
  <2>. SUFFICES ASSUME TypeOK, [Next]_vars PROVE TypeOK'
    OBVIOUS
  <2>1. CASE UNCHANGED vars
    BY <2>1 DEF vars
  <2>2. CASE Tick
    <3>1. timer' \in [Jobs -> Nat] /\ slack' \in [Jobs -> Nat]
          /\ age' \in [Jobs -> Nat]
      BY <2>2 DEF Tick
    <3>2. \A j \in Jobs : phase'[j] \in Timed => timer'[j] <= Limit[phase'[j]]
      BY <2>2 DEF Tick
    <3>. QED
      BY <2>2, <3>1, <3>2 DEF Tick
  <2>3. ASSUME NEW j \in Jobs, Claim(j) PROVE TypeOK'
    BY <2>3 DEF Claim, Goto
  <2>4. ASSUME NEW j \in Jobs, EnterGenerate(j) \/ LoadFails(j) PROVE TypeOK'
    BY <2>4 DEF EnterGenerate, LoadFails, Goto, StartTimer
  <2>5. ASSUME NEW j \in Jobs, Acquire(j) PROVE TypeOK'
    BY <2>5 DEF Acquire, Goto
  <2>6. ASSUME NEW j \in Jobs,
               GiveUpLock(j) \/ StartThread(j) \/ StartFails(j)
        PROVE  TypeOK'
    BY <2>6 DEF GiveUpLock, StartThread, StartFails, Goto, StartTimer
  <2>7. ASSUME NEW j \in Jobs, FinishInference(j) \/ ThreadDies(j)
        PROVE  TypeOK'
    BY <2>7 DEF FinishInference, ThreadDies
  <2>8. ASSUME NEW j \in Jobs, JoinReturns(j) \/ JoinTimesOut(j) \/ End(j)
        PROVE  TypeOK'
    BY <2>8 DEF JoinReturns, JoinTimesOut, End, Goto
  <2>9. CASE Crash
    BY <2>9 DEF Crash
  <2>. QED
    BY <2>1, <2>2, <2>3, <2>4, <2>5, <2>6, <2>7, <2>8, <2>9 DEF Next, Run
<1>. QED
  BY <1>1, <1>2, PTL DEF Spec

-----------------------------------------------------------------------------
\* At most one job has the lock: the one about to start or running inference.
LEMMA LockInvHolds == Spec => []LockInv
<1>. USE DEF TypeOK, LockInv, Holds, Live, Timed, Untimed
<1>1. Init => LockInv
  BY DEF Init
<1>2. TypeOK /\ LockInv /\ [Next]_vars => LockInv'
  <2>. SUFFICES ASSUME TypeOK, LockInv, [Next]_vars PROVE LockInv'
    OBVIOUS
  <2>1. CASE UNCHANGED vars \/ Tick
    BY <2>1 DEF vars, Tick
  <2>2. ASSUME NEW j \in Jobs, Claim(j) \/ EnterGenerate(j) \/ LoadFails(j)
        PROVE  LockInv'
    BY <2>2 DEF Claim, EnterGenerate, LoadFails, Goto
  <2>3. ASSUME NEW j \in Jobs, Acquire(j) PROVE LockInv'
    BY <2>3 DEF Acquire, Goto
  <2>4. ASSUME NEW j \in Jobs, StartThread(j) PROVE LockInv'
    BY <2>4 DEF StartThread, Goto
  <2>5. ASSUME NEW j \in Jobs,
               GiveUpLock(j) \/ StartFails(j) \/ JoinReturns(j)
                 \/ JoinTimesOut(j) \/ End(j)
        PROVE  LockInv'
    BY <2>5 DEF GiveUpLock, StartFails, JoinReturns, JoinTimesOut, End, Goto
  <2>6. ASSUME NEW j \in Jobs, FinishInference(j) \/ ThreadDies(j)
        PROVE  LockInv'
    BY <2>6 DEF FinishInference, ThreadDies
  <2>7. CASE Crash
    BY <2>7 DEF Crash
  <2>. QED
    BY <2>1, <2>2, <2>3, <2>4, <2>5, <2>6, <2>7 DEF Next, Run
<1>. QED
  BY <1>1, <1>2, TypeCorrect, PTL DEF Spec

(***************************************************************************)
(* However many callers wait, time out or fail to start their thread, two  *)
(* inferences never run on the one model at once.                          *)
(***************************************************************************)
THEOREM OneGenerationHolds == Spec => []OneGeneration
<1>1. LockInv => OneGeneration
  BY DEF LockInv, Holds, OneGeneration
<1>. QED
  BY <1>1, LockInvHolds, PTL

(***************************************************************************)
(* As long as every thread could be started, a lock that is held belongs to*)
(* an inference that starts or runs, so it comes free when that one ends.  *)
(***************************************************************************)
THEOREM LockIsBackedHolds == Spec => []LockIsBacked
<1>. USE DEF TypeOK, LockIsBacked, Live, Timed, Untimed
<1>1. Init => LockIsBacked
  BY DEF Init
<1>2. TypeOK /\ LockIsBacked /\ [Next]_vars => LockIsBacked'
  <2>. SUFFICES ASSUME TypeOK, LockIsBacked, [Next]_vars PROVE LockIsBacked'
    OBVIOUS
  <2>1. CASE UNCHANGED vars \/ Tick
    BY <2>1 DEF vars, Tick
  <2>2. ASSUME NEW j \in Jobs, Claim(j) \/ EnterGenerate(j) \/ LoadFails(j)
        PROVE  LockIsBacked'
    BY <2>2 DEF Claim, EnterGenerate, LoadFails, Goto
  <2>3. ASSUME NEW j \in Jobs, Acquire(j) PROVE LockIsBacked'
    BY <2>3 DEF Acquire, Goto
  <2>4. ASSUME NEW j \in Jobs, StartThread(j) PROVE LockIsBacked'
    BY <2>4 DEF StartThread, Goto
  <2>5. ASSUME NEW j \in Jobs, StartFails(j) PROVE LockIsBacked'
    BY <2>5 DEF StartFails
  <2>6. ASSUME NEW j \in Jobs,
               GiveUpLock(j) \/ JoinReturns(j) \/ JoinTimesOut(j) \/ End(j)
        PROVE  LockIsBacked'
    BY <2>6 DEF GiveUpLock, JoinReturns, JoinTimesOut, End, Goto
  <2>7. ASSUME NEW j \in Jobs, FinishInference(j) PROVE LockIsBacked'
    BY <2>7 DEF FinishInference
  <2>8. ASSUME NEW j \in Jobs, ThreadDies(j) PROVE LockIsBacked'
    BY <2>8 DEF ThreadDies
  <2>9. CASE Crash
    BY <2>9 DEF Crash
  <2>. QED
    BY <2>1, <2>2, <2>3, <2>4, <2>5, <2>6, <2>7, <2>8, <2>9 DEF Next, Run
<1>. QED
  BY <1>1, <1>2, TypeCorrect, PTL DEF Spec

-----------------------------------------------------------------------------
\* The age of a row is bounded by the waits and the overhead behind it.
LEMMA AgeInvHolds == Spec => []AgeInv
<1>. USE ParameterAssumption DEF TypeOK, AgeInv, Live, Timed, Untimed, Limit
<1>1. Init => AgeInv
  BY DEF Init
<1>2. TypeOK /\ AgeInv /\ [Next]_vars => AgeInv'
  <2>. SUFFICES ASSUME TypeOK, AgeInv, [Next]_vars PROVE AgeInv'
    OBVIOUS
  <2>1. CASE UNCHANGED vars
    BY <2>1 DEF vars
  <2>2. CASE Tick
    <3>. SUFFICES ASSUME NEW j \in Jobs PROVE AgeInv!(j)'
      OBVIOUS
    <3>1. CASE phase[j] \in Timed
      BY <2>2, <3>1 DEF Tick
    <3>2. CASE phase[j] \in Untimed
      BY <2>2, <3>2 DEF Tick
    <3>3. CASE phase[j] \notin Live
      BY <2>2, <3>3 DEF Tick
    <3>. QED
      BY <3>1, <3>2, <3>3
  <2>3. ASSUME NEW j \in Jobs, Claim(j) PROVE AgeInv'
    BY <2>3 DEF Claim, Goto
  <2>4. ASSUME NEW j \in Jobs, EnterGenerate(j) \/ LoadFails(j) \/ Acquire(j)
        PROVE  AgeInv'
    BY <2>4 DEF EnterGenerate, LoadFails, Acquire, Goto, StartTimer
  <2>5. ASSUME NEW j \in Jobs,
               GiveUpLock(j) \/ StartThread(j) \/ StartFails(j)
        PROVE  AgeInv'
    BY <2>5 DEF GiveUpLock, StartThread, StartFails, Goto, StartTimer
  <2>6. ASSUME NEW j \in Jobs, JoinReturns(j) \/ JoinTimesOut(j) \/ End(j)
        PROVE  AgeInv'
    BY <2>6 DEF JoinReturns, JoinTimesOut, End, Goto
  <2>7. ASSUME NEW j \in Jobs, FinishInference(j) \/ ThreadDies(j)
        PROVE  AgeInv'
    BY <2>7 DEF FinishInference, ThreadDies
  <2>8. CASE Crash
    BY <2>8 DEF Crash
  <2>. QED
    BY <2>1, <2>2, <2>3, <2>4, <2>5, <2>6, <2>7, <2>8 DEF Next, Run
<1>. QED
  BY <1>1, <1>2, TypeCorrect, PTL DEF Spec

(***************************************************************************)
(* The safety half of EveryRunEnds: nobody is still responsible for a job  *)
(* once both timeouts and the overhead have passed since its claim, hung   *)
(* inferences and threads that cannot be started included.  It is the      *)
(* least threshold the recovery sweep can safely have.                     *)
(***************************************************************************)
RunBound == \A j \in Jobs : phase[j] \in Live =>
                age[j] <= LockTimeout + InferenceTimeout + Overhead

\* Every run is over within the two timeouts and the overhead.
THEOREM RunBoundHolds == Spec => []RunBound
<1>1. TypeOK /\ AgeInv => RunBound
  BY ParameterAssumption
     DEF TypeOK, AgeInv, RunBound, Live, Timed, Untimed, Limit
<1>. QED
  BY <1>1, TypeCorrect, AgeInvHolds, PTL

(***************************************************************************)
(* When the threshold is at least both timeouts and the overhead together, *)
(* the recovery sweep never finds a live job stale, which is what          *)
(* PromptRuns assumes of TryOnJobs.                                        *)
(***************************************************************************)
THEOREM StaleIsDeadHolds ==
  ASSUME StaleThreshold >= LockTimeout + InferenceTimeout + Overhead
  PROVE  Spec => []StaleIsDead
<1>1. TypeOK /\ RunBound => StaleIsDead
  BY ParameterAssumption DEF TypeOK, RunBound, StaleIsDead
<1>. QED
  BY <1>1, TypeCorrect, RunBoundHolds, PTL
=============================================================================

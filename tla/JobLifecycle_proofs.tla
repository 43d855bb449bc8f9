------------------------ MODULE JobLifecycle_proofs ------------------------
(***************************************************************************)
(* What JobLifecycle itself promises.  TryOnJobs and Admission implement   *)
(* it and TryOnFlow relies on it, so each of these holds of all of them,   *)
(* for any jobs and any requests.                                          *)
(***************************************************************************)
EXTENDS JobLifecycle, TLAPS

Final == {"completed", "failed", "cancelled"}

\* The job stands in the way of another one for its request.
Holding(j) ==
    request[j] # NoRequest /\ status[j] \notin {"absent", "failed", "deleted"}

\* A request is never at two jobs at once, unless all but one have failed.
OneHolder ==
    \A i, j \in Jobs :
        Holding(i) /\ Holding(j) /\ request[i] = request[j] => i = j

(***************************************************************************)
(* What a job was made for is fixed when it is created, it never becomes   *)
(* pending again, and a final status changes only by deletion.             *)
(***************************************************************************)
Onwards ==
    [][\A j \in Jobs : status[j] # "absent" =>
         /\ request'[j] = request[j]
         /\ status'[j] = "pending" => status[j] = "pending"
         /\ status[j] \in Final => status'[j] \in {status[j], "deleted"}
         /\ status[j] = "deleted" => status'[j] = "deleted"]_vars

-----------------------------------------------------------------------------
\* Every move keeps statuses and requests in their types.
THEOREM TypeCorrect == Spec => []TypeOK
<1>1. Init => TypeOK
  BY DEF Init, TypeOK
<1>2. TypeOK /\ [Next]_vars => TypeOK'
  <2> SUFFICES ASSUME TypeOK, [Next]_vars PROVE TypeOK'
    OBVIOUS
  <2> USE DEF TypeOK
  <2>1. ASSUME NEW j \in Jobs, NEW r \in Requests \cup {NoRequest}, Accept(j, r)
        PROVE  TypeOK'
    BY <2>1 DEF Accept
  <2>2. ASSUME NEW j \in Jobs, Start(j) \/ Cancel(j) \/ Succeed(j) PROVE TypeOK'
    BY <2>2 DEF Start, Cancel, Succeed, Move
  <2>3. ASSUME NEW S \in SUBSET Jobs, GiveUp(S) \/ Erase(S) PROVE TypeOK'
    BY <2>3 DEF GiveUp, Erase, Move
  <2>4. CASE UNCHANGED vars
    BY <2>4 DEF vars
  <2> QED
    BY <2>1, <2>2, <2>3, <2>4 DEF Next
<1> QED
  BY <1>1, <1>2, PTL DEF Spec

(***************************************************************************)
(* However jobs are accepted, cancelled, given up and erased, a request has*)
(* one job that holds it: nothing becomes a holder but a job accepted while*)
(* there was none.                                                         *)
(***************************************************************************)
THEOREM OneHolderHolds == Spec => []OneHolder
<1>1. Init => OneHolder
  BY DEF Init, OneHolder, Holding
<1>2. TypeOK /\ OneHolder /\ [Next]_vars => OneHolder'
  <2> SUFFICES ASSUME TypeOK, OneHolder, [Next]_vars PROVE OneHolder'
    OBVIOUS
  <2> USE DEF TypeOK, OneHolder, Holding
  <2>1. ASSUME NEW j \in Jobs, NEW r \in Requests \cup {NoRequest}, Accept(j, r)
        PROVE  OneHolder'
    BY <2>1 DEF Accept, Holders
  <2>2. ASSUME NEW j \in Jobs, Start(j) \/ Cancel(j) \/ Succeed(j) PROVE OneHolder'
    BY <2>2 DEF Start, Cancel, Succeed, Move
  <2>3. ASSUME NEW S \in SUBSET Jobs, GiveUp(S) \/ Erase(S) PROVE OneHolder'
    BY <2>3 DEF GiveUp, Erase, Move
  <2>4. CASE UNCHANGED vars
    BY <2>4 DEF vars
  <2> QED
    BY <2>1, <2>2, <2>3, <2>4 DEF Next
<1> QED
  BY <1>1, <1>2, TypeCorrect, PTL DEF Spec

(***************************************************************************)
(* A client that was told "completed", "failed" or "cancelled" is never    *)
(* told otherwise about that job, and the job stays the answer to the      *)
(* request it was created for.                                             *)
(***************************************************************************)
THEOREM OnwardsHolds == Spec => Onwards
<1> DEFINE Step(j) == status[j] # "absent" =>
             /\ request'[j] = request[j]
             /\ status'[j] = "pending" => status[j] = "pending"
             /\ status[j] \in Final => status'[j] \in {status[j], "deleted"}
             /\ status[j] = "deleted" => status'[j] = "deleted"
<1>1. TypeOK /\ [Next]_vars => [\A j \in Jobs : Step(j)]_vars
  <2> SUFFICES ASSUME TypeOK, Next, NEW i \in Jobs PROVE Step(i)
    OBVIOUS
  <2> USE DEF TypeOK, Final
  <2>1. ASSUME NEW j \in Jobs, NEW r \in Requests \cup {NoRequest}, Accept(j, r)
        PROVE  Step(i)
    BY <2>1 DEF Accept
  <2>2. ASSUME NEW j \in Jobs, Start(j) \/ Cancel(j) \/ Succeed(j) PROVE Step(i)
    BY <2>2 DEF Start, Cancel, Succeed, Move
  <2>3. ASSUME NEW S \in SUBSET Jobs, GiveUp(S) \/ Erase(S) PROVE Step(i)
    BY <2>3 DEF GiveUp, Erase, Move
  <2> QED
    BY <2>1, <2>2, <2>3 DEF Next
<1> QED
  BY <1>1, TypeCorrect, PTL DEF Spec, Onwards
=============================================================================

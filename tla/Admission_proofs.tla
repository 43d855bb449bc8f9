---------------------------- MODULE Admission_proofs ----------------------------
(***************************************************************************)
(* For any numbers of requests, workers, callers and keys, and any limits: *)
(* what a repeated key is given, and which of the limits hold on one       *)
(* worker.                                                                 *)
(***************************************************************************)
EXTENDS Admission, FiniteSetTheorems, TLAPS

\* The steps of a handler.
Handler(r) == Lookup(r) \/ CheckQuota(r) \/ CheckCapacity(r) \/ Insert(r) \/ Reuse(r)

-----------------------------------------------------------------------------
\* What the moves of a handler do to the variables they write.
LEMMA MoveTypes ==
    ASSUME TypeOK, NEW r \in Requests, NEW step \in Steps
    PROVE  /\ GoOn(r, step) \/ Await(r, step) =>
                /\ at' \in [Requests -> Steps]
                /\ busy' \in [Workers -> Requests \cup {Nobody}]
                /\ answer' = answer /\ job' = job
           /\ \A a \in Answers, j \in Requests \cup {Nobody} : Reply(r, a, j) =>
                /\ at' \in [Requests -> Steps]
                /\ busy' \in [Workers -> Requests \cup {Nobody}]
                /\ answer' \in [Requests -> Answers]
                /\ job' \in [Requests -> Requests \cup {Nobody}]
  BY DEF TypeOK, GoOn, Await, Reply, Steps

\* A handler leaves the other requests, and the other workers, alone.
LEMMA HandlerKeepsOthers ==
    ASSUME TypeOK, NEW r \in Requests, Handler(r)
    PROVE  /\ UNCHANGED <<req, on, today>>
           /\ \A s \in Requests \ {r} :
                 /\ at'[s] = at[s] /\ answer'[s] = answer[s] /\ job'[s] = job[s]
                 /\ status'[s] = status[s] /\ created'[s] = created[s]
           /\ \A w \in Workers \ {on[r]} : busy'[w] = busy[w]
           /\ busy[on[r]] \in {r, Nobody}
           /\ Insert(r) \/ UNCHANGED <<status, created>>
<1>. USE DEF TypeOK, GoOn, Await, Reply, ReplyExisting, Running, Resume, rowVars
<1>1. CASE Lookup(r)
  BY <1>1 DEF Lookup
<1>2. CASE CheckQuota(r)
  BY <1>2 DEF CheckQuota
<1>3. CASE CheckCapacity(r)
  BY <1>3 DEF CheckCapacity
<1>4. CASE Insert(r)
  BY <1>4 DEF Insert, InsertRow
<1>5. CASE Reuse(r)
  BY <1>5 DEF Reuse
<1>. QED
  BY <1>1, <1>2, <1>3, <1>4, <1>5 DEF Handler

\* Every step keeps the handlers and the rows in their types.
THEOREM TypeCorrect == Spec => []TypeOK
<1>. USE ParameterAssumption
<1>1. Init => TypeOK
  BY DEF Init, TypeOK, Steps, Answers
<1>2. TypeOK /\ [Next]_vars => TypeOK'
  <2>. SUFFICES ASSUME TypeOK, [Next]_vars PROVE TypeOK'
    OBVIOUS
  <2>1. ASSUME NEW r \in Requests, Lookup(r) PROVE TypeOK'
    BY <2>1, MoveTypes DEF Lookup, ReplyExisting, Holders, Jobs, rowVars, TypeOK,
       Steps, Answers
  <2>2. ASSUME NEW r \in Requests, CheckQuota(r) PROVE TypeOK'
    BY <2>2, MoveTypes DEF CheckQuota, rowVars, TypeOK, Steps, Answers
  <2>3. ASSUME NEW r \in Requests, CheckCapacity(r) PROVE TypeOK'
    BY <2>3, MoveTypes DEF CheckCapacity, rowVars, TypeOK, Steps, Answers
  <2>4. ASSUME NEW r \in Requests, Insert(r) PROVE TypeOK'
    BY <2>4, MoveTypes DEF Insert, InsertRow, rowVars, TypeOK, Steps, Answers
  <2>5. ASSUME NEW r \in Requests, Reuse(r) PROVE TypeOK'
    BY <2>5, MoveTypes DEF Reuse, ReplyExisting, Holders, Jobs, rowVars, TypeOK,
       Steps, Answers
  <2>6. ASSUME NEW r \in Requests, Advance(r) PROVE TypeOK'
    BY <2>6 DEF Advance, Progress, ActiveJobs, Jobs, TypeOK
  <2>7. CASE Midnight
    BY <2>7 DEF Midnight, TypeOK
  <2>8. CASE UNCHANGED vars
    BY <2>8 DEF vars, TypeOK
  <2>. QED
    BY <2>1, <2>2, <2>3, <2>4, <2>5, <2>6, <2>7, <2>8 DEF Next
<1>. QED
  BY <1>1, <1>2, PTL DEF Spec

-----------------------------------------------------------------------------
(***************************************************************************)
(* Keys.  The unique index: of the jobs of a key at most one has not       *)
(* failed; whoever is given a job is given one of his own key, for what he *)
(* asked.                                                                  *)
(***************************************************************************)
KeyIndex ==
    \A i, j \in Jobs : SameKey(i, j) /\ "failed" \notin {status[i], status[j]} => i = j

Given ==
    \A r \in Requests : answer[r] = "job" =>
        /\ job[r] \in Jobs
        /\ job[r] = r \/ SameKey(r, job[r])
        /\ req[job[r]].body = req[r].body

KeyInv == KeyIndex /\ Given

\* KeyInv is inductive.
LEMMA KeyInvHolds == Spec => []KeyInv
<1>1. Init => KeyInv
  BY DEF Init, KeyInv, KeyIndex, Given, Jobs
<1>2. TypeOK /\ KeyInv /\ [Next]_vars => KeyInv'
  <2>. SUFFICES ASSUME TypeOK, KeyInv, [Next]_vars PROVE KeyInv'
    OBVIOUS
  <2>. USE DEF TypeOK, KeyInv, KeyIndex, Given, SameKey, Keyed, Scope, Jobs
  <2>1. ASSUME UNCHANGED <<req, answer, job, status>> PROVE KeyInv'
    BY <2>1
  <2>2. ASSUME NEW r \in Requests, UNCHANGED <<req, status>>,
               \A s \in Requests \ {r} : answer'[s] = answer[s] /\ job'[s] = job[s],
               \/ answer'[r] \notin {"job"}
               \/ answer'[r] = answer[r] /\ job'[r] = job[r]
               \/ \E j \in Holders(r) : job'[r] = j /\ req[j].body = req[r].body
        PROVE  KeyInv'
    BY <2>2 DEF Holders
  <2>3. ASSUME NEW r \in Requests, Insert(r) PROVE KeyInv'
    <3>1. CASE Holders(r) = {}
      <4>1. /\ status' = [status EXCEPT ![r] = "pending"]
            /\ answer' = [answer EXCEPT ![r] = "job"]
            /\ job' = [job EXCEPT ![r] = r] /\ req' = req
        BY <2>3, <3>1 DEF Insert, InsertRow, Reply
      <4>2. Jobs' = Jobs \cup {r}
        BY <4>1
      <4>3. KeyIndex'
        BY <3>1, <4>1, <4>2 DEF Holders
      <4>4. Given'
        BY <4>1, <4>2
      <4>. QED
        BY <4>3, <4>4
    <3>2. CASE Holders(r) # {}
      BY <2>1, <2>3, <3>2 DEF Insert, GoOn, rowVars
    <3>. QED
      BY <3>1, <3>2
  <2>4. ASSUME NEW r \in Requests, Lookup(r) \/ Reuse(r) PROVE KeyInv'
    BY <2>2, <2>4 DEF Lookup, Reuse, ReplyExisting, GoOn, Reply, rowVars
  <2>5. ASSUME NEW r \in Requests, CheckQuota(r) \/ CheckCapacity(r) PROVE KeyInv'
    BY <2>2, <2>5 DEF CheckQuota, CheckCapacity, GoOn, Await, Reply, rowVars
  <2>6. ASSUME NEW r \in Requests, Advance(r) PROVE KeyInv'
    <3>1. /\ UNCHANGED <<req, answer, job>>
          /\ status[r] \in {"pending", "processing"}
          /\ \E s \in Progress[status[r]] : status' = [status EXCEPT ![r] = s]
      BY <2>6 DEF Advance, ActiveJobs
    <3>2. \A x \in {"pending", "processing"} :
             Progress[x] \subseteq {"processing", "cancelled", "completed", "failed"}
      BY DEF Progress
    <3>3. \E s \in {"processing", "cancelled", "completed", "failed"} :
             status' = [status EXCEPT ![r] = s]
      BY <3>1, <3>2
    <3>. QED
      BY <3>1, <3>3
  <2>7. CASE Midnight
    BY <2>1, <2>7 DEF Midnight
  <2>. QED
    BY <2>1, <2>3, <2>4, <2>5, <2>6, <2>7 DEF Next, vars
<1>. QED
  BY <1>1, <1>2, TypeCorrect, PTL DEF Spec

\* Repeating a request under its key never yields a second job that has not
\* failed, on any number of workers.
THEOREM DuplicatesShareJobHolds == Spec => []DuplicatesShareJob
<1>1. TypeOK /\ KeyInv => DuplicatesShareJob
  <2>. SUFFICES ASSUME TypeOK, KeyInv, NEW r \in Requests, NEW s \in Requests,
                       answer[r] = "job", answer[s] = "job", SameKey(r, s),
                       job[r] # job[s]
                PROVE  "failed" \in {status[job[r]], status[job[s]]}
    BY DEF DuplicatesShareJob
  <2>1. /\ job[r] \in Jobs /\ job[s] \in Jobs
        /\ job[r] = r \/ SameKey(r, job[r])
        /\ job[s] = s \/ SameKey(s, job[s])
    BY DEF KeyInv, Given
  <2>2. SameKey(job[r], job[s])
    BY <2>1 DEF SameKey, Keyed
  <2>. QED
    BY <2>1, <2>2 DEF KeyInv, KeyIndex
<1>. QED
  BY <1>1, TypeCorrect, KeyInvHolds, PTL

\* The job a client is given is for what it asked, and its own.
THEOREM JobIsAsAskedHolds == Spec => []JobIsAsAsked
<1>1. KeyInv => JobIsAsAsked
  BY DEF KeyInv, Given, JobIsAsAsked, SameKey
<1>. QED
  BY <1>1, KeyInvHolds, PTL

-----------------------------------------------------------------------------
(***************************************************************************)
(* One worker.  A handler past its lookup or its checks still has the event*)
(* loop, so what it has found still holds: nobody holds its key, the caller*)
(* has a generation left, and there is room for a job.                     *)
(***************************************************************************)
Between(r) == at[r] \in {"quota", "capacity", "insert"}

HasLoop ==
    \A r \in Requests :
        at[r] \in {"quota", "capacity", "insert", "clash"} => busy[on[r]] = r

FoundFree ==
    \A r \in Requests : Between(r) /\ Keyed(r) => Holders(r) = {}

QuotaLeft ==
    \A r \in Requests : at[r] \in {"capacity", "insert"} =>
        /\ Cardinality({j \in Charged(r) : created[j] = today}) < DayLimit
        /\ Cardinality(Charged(r)) < MonthLimit

RoomLeft ==
    \A r \in Requests : at[r] = "insert" => Cardinality(ActiveJobs) < MaxActive

CreatedByToday == \A j \in Jobs : created[j] <= today

LoopInv ==
    /\ HasLoop
    /\ CreatedByToday
    /\ OneWorker => FoundFree /\ QuotaLeft /\ RoomLeft

\* Sets of jobs are finite.
LEMMA JobsFinite ==
    ASSUME NEW S, S \subseteq Requests
    PROVE  IsFiniteSet(S) /\ Cardinality(S) \in Nat
  BY ParameterAssumption, FS_Subset, FS_CardinalityType

LEMMA FewerJobs ==
    ASSUME NEW S, NEW T, S \subseteq T, T \subseteq Requests
    PROVE  Cardinality(S) <= Cardinality(T)
  BY JobsFinite, FS_Subset

LEMMA StillWithin ==
    ASSUME NEW S, NEW T, S \subseteq T, T \subseteq Requests,
           NEW n \in Nat, Cardinality(T) <= n
    PROVE  Cardinality(S) <= n
<1>1. S \subseteq Requests
  OBVIOUS
<1>2. /\ Cardinality(S) <= Cardinality(T)
      /\ Cardinality(S) \in Nat /\ Cardinality(T) \in Nat
  BY <1>1, FewerJobs, JobsFinite
<1>. QED
  BY <1>2

LEMMA OneMoreJob ==
    ASSUME NEW S, NEW T, NEW r \in Requests, S \subseteq T \cup {r}, T \subseteq Requests
    PROVE  Cardinality(S) <= Cardinality(T) + 1
<1>1. IsFiniteSet(T) /\ Cardinality(T) \in Nat
  BY JobsFinite
<1>2. Cardinality(T \cup {r}) <= Cardinality(T) + 1
  <2>1. Cardinality(T \cup {r}) = IF r \in T THEN Cardinality(T)
                                              ELSE Cardinality(T) + 1
    BY <1>1, FS_AddElement
  <2>. QED
    BY <1>1, <2>1
<1>3. /\ Cardinality(S) <= Cardinality(T \cup {r})
      /\ Cardinality(S) \in Nat /\ Cardinality(T \cup {r}) \in Nat
  <2>1. T \cup {r} \subseteq Requests /\ S \subseteq Requests
    OBVIOUS
  <2>. QED
    BY <2>1, FewerJobs, JobsFinite
<1>. QED
  BY <1>1, <1>2, <1>3

\* Two handlers on one worker are not both between their steps.
LEMMA OthersAreElsewhere ==
    ASSUME TypeOK, HasLoop, OneWorker, NEW r \in Requests, Handler(r),
           NEW s \in Requests, s # r
    PROVE  /\ at[s] \notin {"quota", "capacity", "insert", "clash"}
           /\ at'[s] \notin {"quota", "capacity", "insert", "clash"}
<1>1. at[s] = at'[s] /\ busy[on[r]] \in {r, Nobody}
  BY HandlerKeepsOthers
<1>2. on[s] = on[r] /\ s # Nobody
  BY ParameterAssumption DEF OneWorker
<1>. QED
  BY <1>1, <1>2 DEF HasLoop

\* LoopInv is inductive.
LEMMA LoopInvHolds == Spec => []LoopInv
<1>. USE ParameterAssumption
<1>1. Init => LoopInv
  BY DEF Init, LoopInv, HasLoop, CreatedByToday, FoundFree, QuotaLeft, RoomLeft,
         Between, Jobs
<1>2. ASSUME TypeOK, LoopInv, NEW r \in Requests, Handler(r)
      PROVE  HasLoop' /\ CreatedByToday'
  <2>. USE DEF TypeOK, GoOn, Await, Reply, ReplyExisting
  <2>0. /\ UNCHANGED <<req, on, today>>
        /\ \A s \in Requests \ {r} :
              /\ at'[s] = at[s] /\ status'[s] = status[s] /\ created'[s] = created[s]
        /\ \A w \in Workers \ {on[r]} : busy'[w] = busy[w]
        /\ busy[on[r]] \in {r, Nobody}
        /\ Insert(r) \/ UNCHANGED <<status, created>>
    BY <1>2, HandlerKeepsOthers
  <2>1. at'[r] \in {"quota", "capacity", "insert", "clash"} => busy'[on[r]] = r
    <3>1. CASE Lookup(r)         BY <1>2, <3>1 DEF Lookup
    <3>2. CASE CheckQuota(r)     BY <1>2, <3>2 DEF CheckQuota
    <3>3. CASE CheckCapacity(r)  BY <1>2, <3>3 DEF CheckCapacity
    <3>4. CASE Insert(r)         BY <1>2, <3>4 DEF Insert, InsertRow
    <3>5. CASE Reuse(r)          BY <1>2, <3>5 DEF Reuse
    <3>. QED
      BY <1>2, <3>1, <3>2, <3>3, <3>4, <3>5 DEF Handler
  <2>2. HasLoop'
    BY <1>2, <2>0, <2>1 DEF LoopInv, HasLoop
  <2>3. CreatedByToday'
    BY <1>2, <2>0 DEF LoopInv, CreatedByToday, Jobs, Insert, InsertRow, rowVars
  <2>. QED
    BY <2>2, <2>3
<1>3. ASSUME TypeOK, LoopInv, OneWorker, NEW r \in Requests, Handler(r)
      PROVE  FoundFree' /\ QuotaLeft' /\ RoomLeft'
  <2>. USE DEF TypeOK
  <2>1. \A s \in Requests \ {r} :
           at'[s] \notin {"quota", "capacity", "insert", "clash"}
    BY <1>3, OthersAreElsewhere DEF LoopInv
  <2>2. SUFFICES /\ Between(r)' /\ Keyed(r)' => Holders(r)' = {}
                 /\ at'[r] \in {"capacity", "insert"} =>
                      /\ Cardinality({j \in Charged(r)' : created'[j] = today'}) < DayLimit
                      /\ Cardinality(Charged(r)') < MonthLimit
                 /\ at'[r] = "insert" => Cardinality(ActiveJobs') < MaxActive
    BY <2>1 DEF FoundFree, QuotaLeft, RoomLeft, Between
  <2>3. ASSUME UNCHANGED <<req, status, created, today>>
        PROVE  /\ Holders(r)' = Holders(r) /\ Charged(r)' = Charged(r)
               /\ ActiveJobs' = ActiveJobs /\ Keyed(r)' = Keyed(r)
    BY <2>3 DEF Holders, Charged, ActiveJobs, Jobs, SameKey, Keyed, Scope
  <2>4. CASE Lookup(r)
    <3>1. UNCHANGED <<req, status, created, today>>
      BY <2>4 DEF Lookup, rowVars
    <3>2. CASE Holders(r) = {} /\ GoOn(r, "quota")
      BY <1>3, <2>3, <3>1, <3>2 DEF GoOn, Between
    <3>3. CASE at'[r] = "done"
      BY <3>3 DEF Between
    <3>. QED
      BY <1>3, <2>4, <3>2, <3>3 DEF Lookup, ReplyExisting, Reply
  <2>5. CASE CheckQuota(r)
    <3>1. UNCHANGED <<req, status, created, today>>
      BY <2>5 DEF CheckQuota, rowVars
    <3>2. CASE ~QuotaExceeded(r) /\ GoOn(r, "capacity")
      <4>1. Charged(r) \subseteq Requests
        BY DEF Charged, Jobs
      <4>2. /\ Cardinality({j \in Charged(r) : created[j] = today}) \in Nat
            /\ Cardinality(Charged(r)) \in Nat
        <5>1. {j \in Charged(r) : created[j] = today} \subseteq Requests
          BY <4>1
        <5>. QED
          BY <4>1, <5>1, JobsFinite
      <4>3. /\ Cardinality({j \in Charged(r) : created[j] = today}) < DayLimit
            /\ Cardinality(Charged(r)) < MonthLimit
        BY <3>2, <4>2 DEF QuotaExceeded
      <4>4. Keyed(r) => Holders(r) = {}
        BY <1>3, <2>5 DEF CheckQuota, Running, LoopInv, FoundFree, Between
      <4>. QED
        BY <1>3, <2>3, <3>1, <3>2, <4>3, <4>4 DEF GoOn
    <3>3. CASE at'[r] = "done"
      BY <3>3 DEF Between
    <3>. QED
      BY <1>3, <2>5, <3>2, <3>3 DEF CheckQuota, Reply
  <2>6. CASE CheckCapacity(r)
    <3>1. UNCHANGED <<req, status, created, today>> /\ at[r] = "capacity"
      BY <2>6 DEF CheckCapacity, rowVars, Running
    <3>2. CASE ~AtCapacity /\ GoOn(r, "insert")
      <4>1. Cardinality(ActiveJobs) \in Nat
        BY JobsFinite DEF ActiveJobs, Jobs
      <4>2. Cardinality(ActiveJobs) < MaxActive
        BY <3>2, <4>1 DEF AtCapacity
      <4>3. /\ Keyed(r) => Holders(r) = {}
            /\ Cardinality({j \in Charged(r) : created[j] = today}) < DayLimit
            /\ Cardinality(Charged(r)) < MonthLimit
        BY <1>3, <3>1 DEF LoopInv, FoundFree, QuotaLeft, Between
      <4>. QED
        BY <2>3, <3>1, <4>2, <4>3
    <3>3. CASE at'[r] \in {"reading", "done"}
      BY <3>3 DEF Between
    <3>. QED
      BY <1>3, <2>6, <3>2, <3>3 DEF CheckCapacity, Reply, Await
  <2>7. CASE Insert(r) \/ Reuse(r)
    <3>1. at'[r] \in {"clash", "done"}
      <4>1. CASE Insert(r)
        BY <1>3, <4>1 DEF Insert, InsertRow, Reply, GoOn
      <4>2. CASE Reuse(r)
        BY <1>3, <4>2 DEF Reuse, ReplyExisting, Reply
      <4>. QED
        BY <2>7, <4>1, <4>2
    <3>. QED
      BY <3>1 DEF Between
  <2>. QED
    BY <1>3, <2>4, <2>5, <2>6, <2>7 DEF Handler
<1>4. ASSUME TypeOK, LoopInv, NEW j \in Requests, Advance(j) PROVE LoopInv'
  <2>. USE DEF TypeOK
  <2>1. /\ UNCHANGED <<at, req, on, busy, created, today>>
        /\ status[j] \in {"pending", "processing"}
        /\ \E s \in Progress[status[j]] : status' = [status EXCEPT ![j] = s]
    BY <1>4 DEF Advance, ActiveJobs
  <2>2. \A x \in {"pending", "processing"} :
           Progress[x] \subseteq {"processing", "cancelled", "completed", "failed"}
    BY DEF Progress
  <2>3. Jobs' = Jobs
    BY <2>1, <2>2 DEF Jobs
  <2>4. ActiveJobs' \subseteq ActiveJobs
    BY <2>1, <2>3 DEF ActiveJobs
  <2>5. \A r \in Requests : /\ Holders(r)' \subseteq Holders(r)
                            /\ Charged(r)' = Charged(r)
                            /\ Keyed(r)' = Keyed(r)
    BY <2>1, <2>2, <2>3 DEF Holders, Charged, SameKey, Keyed, Scope
  <2>6. /\ Cardinality(ActiveJobs') <= Cardinality(ActiveJobs)
        /\ Cardinality(ActiveJobs') \in Nat /\ Cardinality(ActiveJobs) \in Nat
    <3>1. ActiveJobs \subseteq Requests
      BY DEF ActiveJobs, Jobs
    <3>2. ActiveJobs' \subseteq Requests
      BY <2>4, <3>1
    <3>. QED
      BY <2>4, <3>1, <3>2, FewerJobs, JobsFinite
  <2>7. HasLoop' /\ CreatedByToday' /\ (OneWorker' <=> OneWorker)
    BY <1>4, <2>1, <2>3 DEF LoopInv, HasLoop, CreatedByToday, OneWorker
  <2>8. OneWorker => FoundFree'
    BY <1>4, <2>1, <2>5 DEF LoopInv, FoundFree, Between
  <2>9. OneWorker => QuotaLeft'
    <3>. SUFFICES ASSUME OneWorker, NEW r \in Requests,
                         at'[r] \in {"capacity", "insert"}
                  PROVE  /\ Cardinality({k \in Charged(r)' : created'[k] = today'})
                               < DayLimit
                         /\ Cardinality(Charged(r)') < MonthLimit
      BY DEF QuotaLeft
    <3>1. /\ Cardinality({k \in Charged(r) : created[k] = today}) < DayLimit
          /\ Cardinality(Charged(r)) < MonthLimit
      BY <1>4, <2>1 DEF LoopInv, QuotaLeft
    <3>2. Charged(r)' = Charged(r) /\ created' = created /\ today' = today
      BY <2>1, <2>5
    <3>. QED
      BY <3>1, <3>2
  <2>10. OneWorker => RoomLeft'
    BY <1>4, <2>1, <2>6 DEF LoopInv, RoomLeft
  <2>. QED
    BY <2>7, <2>8, <2>9, <2>10 DEF LoopInv
<1>5. ASSUME TypeOK, LoopInv, Midnight PROVE LoopInv'
  <2>. USE DEF TypeOK
  <2>1. UNCHANGED <<at, req, on, busy, status, created>> /\ today' = today + 1
    BY <1>5 DEF Midnight
  <2>2. \A r \in Requests : /\ Holders(r)' = Holders(r)
                            /\ Charged(r)' = Charged(r)
                            /\ Keyed(r)' = Keyed(r)
    BY <2>1 DEF Holders, Charged, Jobs, SameKey, Keyed, Scope
  <2>3. /\ HasLoop' /\ CreatedByToday' /\ (OneWorker' <=> OneWorker)
        /\ FoundFree' <=> FoundFree
        /\ RoomLeft' <=> RoomLeft
    BY <1>5, <2>1, <2>2 DEF LoopInv, HasLoop, CreatedByToday, OneWorker, Jobs,
       FoundFree, RoomLeft, Between, ActiveJobs
  <2>4. ASSUME OneWorker, NEW r \in Requests, at[r] \in {"capacity", "insert"}
        PROVE  /\ Cardinality({j \in Charged(r)' : created'[j] = today'}) < DayLimit
               /\ Cardinality(Charged(r)') < MonthLimit
    <3>1. {j \in Charged(r)' : created'[j] = today'} = {}
      BY <1>5, <2>1, <2>2 DEF LoopInv, CreatedByToday, Charged, Jobs
    <3>2. Cardinality({j \in Charged(r) : created[j] = today}) \in Nat
      <4>1. {j \in Charged(r) : created[j] = today} \subseteq Requests
        BY DEF Charged, Jobs
      <4>. QED
        BY <4>1, JobsFinite
    <3>3. /\ Cardinality({j \in Charged(r) : created[j] = today}) < DayLimit
          /\ Cardinality(Charged(r)) < MonthLimit
      BY <1>5, <2>4 DEF LoopInv, QuotaLeft
    <3>4. Cardinality({j \in Charged(r)' : created'[j] = today'}) = 0
      BY <3>1, FS_EmptySet
    <3>5. 0 < DayLimit
      BY <3>2, <3>3
    <3>. QED
      BY <2>2, <3>3, <3>4, <3>5
  <2>5. OneWorker => QuotaLeft'
    BY <2>1, <2>4 DEF QuotaLeft
  <2>. QED
    BY <1>5, <2>3, <2>5 DEF LoopInv
<1>6. ASSUME TypeOK, LoopInv, [Next]_vars PROVE LoopInv'
  <2>1. ASSUME NEW r \in Requests, Handler(r) PROVE LoopInv'
    <3>1. OneWorker' <=> OneWorker
      BY <1>6, <2>1, HandlerKeepsOthers DEF OneWorker
    <3>. QED
      BY <1>2, <1>3, <1>6, <2>1, <3>1 DEF LoopInv
  <2>2. CASE UNCHANGED vars
    BY <1>6, <2>2 DEF vars, LoopInv, HasLoop, CreatedByToday, OneWorker, FoundFree,
       QuotaLeft, RoomLeft, Between, Holders, Charged, ActiveJobs, Jobs, SameKey,
       Keyed, Scope
  <2>. QED
    BY <1>4, <1>5, <1>6, <2>1, <2>2 DEF Next, Handler
<1>. QED
  BY <1>1, <1>6, TypeCorrect, PTL DEF Spec

\* On one worker a retry is not turned away on account of the job it repeats.
THEOREM RetryNeverBlockedHolds == Spec => RetryNeverBlocked
<1>. DEFINE Blocked ==
        \E r \in Requests : /\ OneWorker /\ answer[r] = "none"
                            /\ answer'[r] \in {"quota", "capacity"}
                            /\ \E j \in Holders(r) : req[j].body = req[r].body
<1>1. ASSUME TypeOK, LoopInv, [Next]_vars PROVE ~Blocked
  <2>. SUFFICES ASSUME NEW r \in Requests, OneWorker, answer[r] = "none",
                       answer'[r] \in {"quota", "capacity"}, Holders(r) # {}
                PROVE  FALSE
    OBVIOUS
  <2>. USE DEF TypeOK
  <2>1. CASE CheckQuota(r)
    BY <1>1, <2>1 DEF CheckQuota, Running, LoopInv, FoundFree, Between, Holders,
       SameKey
  <2>2. CASE CheckCapacity(r)
    BY <1>1, <2>2 DEF CheckCapacity, Running, LoopInv, FoundFree, Between, Holders,
       SameKey
  <2>3. CASE Lookup(r)
    BY <1>1, <2>3 DEF Lookup, ReplyExisting, Reply, GoOn
  <2>4. CASE Reuse(r)
    BY <1>1, <2>4 DEF Reuse, ReplyExisting, Reply
  <2>5. CASE Insert(r)
    BY <1>1, <2>5 DEF Insert, InsertRow, Reply, GoOn
  <2>6. ASSUME NEW s \in Requests, s # r, Handler(s) PROVE FALSE
    <3>1. answer'[r] = answer[r]
      BY <1>1, <2>6, HandlerKeepsOthers
    <3>. QED
      BY <3>1
  <2>7. CASE UNCHANGED answer
    BY <2>7
  <2>. QED
    BY <1>1, <2>1, <2>2, <2>3, <2>4, <2>5, <2>6, <2>7
       DEF Next, Advance, Midnight, vars, Handler
<1>2. TypeOK /\ LoopInv /\ [Next]_vars
        => [\A r \in Requests :
              /\ OneWorker
              /\ answer[r] = "none"
              /\ answer'[r] \in {"quota", "capacity"}
              => \A j \in Holders(r) : req[j].body # req[r].body]_vars
  BY <1>1
<1>. QED
  BY <1>2, TypeCorrect, LoopInvHolds, PTL DEF Spec, RetryNeverBlocked

-----------------------------------------------------------------------------
(***************************************************************************)
(* The limits.  Without a key images are read after the checks, so the     *)
(* bounds are those of the jobs that have one.                             *)
(***************************************************************************)
ReadingHasNoKey == \A r \in Requests : at[r] = "reading" => ~Keyed(r)

KeyedOn(r, d) == {j \in KeyedOf(r) : created[j] = d}

KeyedActive == {j \in ActiveJobs : Keyed(j)}

LimitsKept ==
    OneWorker =>
        /\ \A r \in Requests : /\ \A d \in Nat : Cardinality(KeyedOn(r, d)) <= DayLimit
                                /\ Cardinality(KeyedOf(r)) <= MonthLimit
        /\ Cardinality(KeyedActive) <= MaxActive

\* Callers of one scope are charged for the same jobs.
LEMMA ScopeIsCharged ==
    ASSUME TypeOK, NEW r \in Requests, NEW s \in Requests, Scope(r) = Scope(s)
    PROVE  Charged(r) = Charged(s)
<1>. req[r] \in Request /\ req[s] \in Request
  BY DEF TypeOK
<1>1. \/ req[r].user # NoUser /\ req[s].user = req[r].user
      \/ req[r].user = NoUser /\ req[s].user = NoUser /\ req[s].ip = req[r].ip
  BY ParameterAssumption DEF Scope, Request
<1>. QED
  BY <1>1 DEF Charged

\* ReadingHasNoKey and LimitsKept are inductive.
LEMMA LimitsKeptHold == Spec => [](ReadingHasNoKey /\ LimitsKept)
<1>. USE ParameterAssumption
<1>1. Init => ReadingHasNoKey /\ LimitsKept
  <2>. SUFFICES ASSUME Init PROVE ReadingHasNoKey /\ LimitsKept
    OBVIOUS
  <2>1. Jobs = {} /\ \A r \in Requests : at[r] = "new"
    BY DEF Init, Jobs
  <2>2. /\ KeyedActive = {}
        /\ \A r : KeyedOf(r) = {} /\ \A d : KeyedOn(r, d) = {}
    BY <2>1 DEF ActiveJobs, KeyedActive, KeyedOf, KeyedOn, Charged
  <2>. QED
    BY <2>1, <2>2, FS_EmptySet DEF ReadingHasNoKey, LimitsKept
<1>2. ASSUME TypeOK, ReadingHasNoKey, [Next]_vars PROVE ReadingHasNoKey'
  <2>. USE DEF TypeOK, ReadingHasNoKey, Keyed
  <2>1. ASSUME NEW r \in Requests, Handler(r) PROVE ReadingHasNoKey'
    <3>1. at'[r] = "reading" => ~Keyed(r)
      BY <1>2, <2>1 DEF Handler, Lookup, CheckQuota, CheckCapacity, Insert, Reuse,
         InsertRow, ReplyExisting, Reply, GoOn, Await
    <3>. QED
      BY <1>2, <2>1, <3>1, HandlerKeepsOthers
  <2>2. CASE UNCHANGED <<at, req>>
    BY <1>2, <2>2
  <2>. QED
    BY <1>2, <2>1, <2>2 DEF Next, Handler, Advance, Midnight, vars
<1>3. ASSUME TypeOK, OneWorker, LimitsKept, UNCHANGED <<req, on, created>>,
             Jobs' = Jobs, ActiveJobs' \subseteq ActiveJobs
      PROVE  LimitsKept'
  <2>1. \A r \in Requests : /\ KeyedOf(r)' = KeyedOf(r)
                            /\ \A d : KeyedOn(r, d)' = KeyedOn(r, d)
    BY <1>3 DEF KeyedOf, KeyedOn, Charged, Keyed, Scope
  <2>2. Cardinality(KeyedActive') <= MaxActive
    <3>1. /\ KeyedActive' \subseteq KeyedActive
          /\ KeyedActive \subseteq Requests
      BY <1>3 DEF KeyedActive, Keyed, ActiveJobs, Jobs
    <3>2. /\ Cardinality(KeyedActive') \in Nat
          /\ Cardinality(KeyedActive) \in Nat
          /\ Cardinality(KeyedActive')
               <= Cardinality(KeyedActive)
      BY <3>1, FewerJobs, JobsFinite
    <3>. QED
      BY <1>3, <3>2 DEF LimitsKept
  <2>3. OneWorker'
    BY <1>3 DEF OneWorker
  <2>. QED
    BY <1>3, <2>1, <2>2, <2>3 DEF LimitsKept
<1>4. ASSUME TypeOK, ReadingHasNoKey, LoopInv, OneWorker, LimitsKept,
             NEW r \in Requests, Insert(r), Holders(r) = {}
      PROVE  LimitsKept'
  <2>. USE DEF TypeOK
  <2>1. /\ UNCHANGED <<req, on, today>>
        /\ status' = [status EXCEPT ![r] = "pending"]
        /\ created' = [created EXCEPT ![r] = today]
        /\ at[r] \in {"insert", "reading"}
    BY <1>4 DEF Insert, InsertRow, Running, Resume
  <2>2. /\ Jobs' = Jobs \cup {r} /\ ActiveJobs' = ActiveJobs \cup {r}
        /\ Jobs \subseteq Requests /\ ActiveJobs \subseteq Requests
    BY <1>4, <2>1 DEF Jobs, ActiveJobs
  <2>3. \A s \in Requests : /\ Keyed(s)' = Keyed(s) /\ Scope(s)' = Scope(s)
                            /\ Charged(s)' \subseteq Charged(s) \cup {r}
                            /\ Charged(s) \subseteq Requests
    BY <2>1, <2>2 DEF Keyed, Scope, Charged
  <2>4. CASE ~Keyed(r)
    <3>1. \A s \in Requests : /\ KeyedOf(s)' \subseteq KeyedOf(s)
                              /\ KeyedOf(s) \subseteq Requests
                              /\ \A d : /\ KeyedOn(s, d)' \subseteq KeyedOn(s, d)
                                        /\ KeyedOn(s, d) \subseteq Requests
      BY <2>1, <2>2, <2>3, <2>4 DEF KeyedOf, KeyedOn, Charged
    <3>2. /\ KeyedActive' \subseteq KeyedActive
          /\ KeyedActive \subseteq Requests
      BY <2>2, <2>3, <2>4 DEF KeyedActive
    <3>4. Cardinality(KeyedActive') <= MaxActive
      BY <1>4, <3>2, StillWithin DEF LimitsKept
    <3>5. ASSUME NEW s \in Requests
          PROVE  /\ Cardinality(KeyedOf(s)') <= MonthLimit
                 /\ \A d \in Nat : Cardinality(KeyedOn(s, d)') <= DayLimit
      <4>1. Cardinality(KeyedOf(s)') <= MonthLimit
        <5>1. Cardinality(KeyedOf(s)) <= MonthLimit
          BY <1>4 DEF LimitsKept
        <5>. QED
          BY <3>1, <5>1, StillWithin
      <4>2. ASSUME NEW d \in Nat PROVE Cardinality(KeyedOn(s, d)') <= DayLimit
        <5>1. Cardinality(KeyedOn(s, d)) <= DayLimit
          BY <1>4 DEF LimitsKept
        <5>. QED
          BY <3>1, <5>1, StillWithin
      <4>. QED
        BY <4>1, <4>2
    <3>. QED
      BY <3>4, <3>5 DEF LimitsKept
  <2>5. CASE Keyed(r)
    <3>1. at[r] = "insert"
      BY <1>4, <2>1, <2>5 DEF ReadingHasNoKey
    <3>2. /\ Cardinality({j \in Charged(r) : created[j] = today}) < DayLimit
          /\ Cardinality(Charged(r)) < MonthLimit
          /\ Cardinality(ActiveJobs) < MaxActive
      BY <1>4, <3>1 DEF LoopInv, QuotaLeft, RoomLeft
    <3>3. \A S, T : S \subseteq T \cup {r} /\ T \subseteq Requests =>
                /\ Cardinality(S) \in Nat /\ Cardinality(T) \in Nat
                /\ Cardinality(S) <= Cardinality(T) + 1
      <4>. SUFFICES ASSUME NEW S, NEW T, S \subseteq T \cup {r}, T \subseteq Requests
                    PROVE  /\ Cardinality(S) \in Nat /\ Cardinality(T) \in Nat
                           /\ Cardinality(S) <= Cardinality(T) + 1
        OBVIOUS
      <4>1. S \subseteq Requests
        OBVIOUS
      <4>. QED
        BY <4>1, OneMoreJob, JobsFinite
    <3>4. Cardinality(KeyedActive') <= MaxActive
      <4>1. KeyedActive' \subseteq ActiveJobs \cup {r}
        BY <2>2 DEF KeyedActive
      <4>. QED
        BY <2>2, <3>2, <3>3, <4>1
    <3>5. ASSUME NEW s \in Requests
          PROVE  /\ Cardinality(KeyedOf(s)') <= MonthLimit
                 /\ \A d \in Nat : Cardinality(KeyedOn(s, d)') <= DayLimit
      <4>1. /\ KeyedOf(s)' \subseteq KeyedOf(s) \cup {r}
            /\ KeyedOf(s) \subseteq Requests
            /\ \A d : KeyedOn(s, d) \subseteq Requests
            /\ \A d : d # today => KeyedOn(s, d)' \subseteq KeyedOn(s, d)
        BY <1>4, <2>1, <2>2, <2>3, <3>5 DEF KeyedOf, KeyedOn, Charged
      <4>2. CASE r \in KeyedOf(s)'
        <5>1. Charged(s) = Charged(r)
          <6>1. Scope(r) = Scope(s)
            BY <2>3, <4>2 DEF KeyedOf
          <6>. QED
            BY <1>4, <6>1, ScopeIsCharged
        <5>2. /\ KeyedOf(s)' \subseteq Charged(r) \cup {r}
              /\ Charged(r) \subseteq Requests
          BY <2>3, <5>1 DEF KeyedOf
        <5>3. Cardinality(KeyedOf(s)') <= MonthLimit
          BY <3>2, <3>3, <5>2
        <5>4. Cardinality(KeyedOn(s, today)') <= DayLimit
          <6>. DEFINE T == {j \in Charged(r) : created[j] = today}
          <6>1. KeyedOn(s, today)' \subseteq T \cup {r} /\ T \subseteq Requests
            BY <2>1, <5>2 DEF KeyedOn
          <6>. HIDE DEF T
          <6>2. Cardinality(T) < DayLimit
            BY <3>2 DEF T
          <6>. QED
            BY <3>3, <6>1, <6>2
        <5>5. ASSUME NEW d \in Nat, d # today
              PROVE  Cardinality(KeyedOn(s, d)') <= DayLimit
          <6>1. Cardinality(KeyedOn(s, d)) <= DayLimit
            BY <1>4, <5>5 DEF LimitsKept
          <6>. QED
            BY <4>1, <5>5, <6>1, StillWithin
        <5>. QED
          BY <2>1, <5>3, <5>4, <5>5
      <4>3. CASE r \notin KeyedOf(s)'
        <5>1. /\ KeyedOf(s)' \subseteq KeyedOf(s)
              /\ \A d : KeyedOn(s, d)' \subseteq KeyedOn(s, d)
          BY <2>1, <4>1, <4>3 DEF KeyedOn
        <5>3. Cardinality(KeyedOf(s)') <= MonthLimit
          <6>1. Cardinality(KeyedOf(s)) <= MonthLimit
            BY <1>4 DEF LimitsKept
          <6>. QED
            BY <4>1, <5>1, <6>1, StillWithin
        <5>4. ASSUME NEW d \in Nat PROVE Cardinality(KeyedOn(s, d)') <= DayLimit
          <6>1. Cardinality(KeyedOn(s, d)) <= DayLimit
            BY <1>4 DEF LimitsKept
          <6>. QED
            BY <4>1, <5>1, <6>1, StillWithin
        <5>. QED
          BY <5>3, <5>4
      <4>. QED
        BY <4>2, <4>3
    <3>. QED
      BY <3>4, <3>5 DEF LimitsKept
  <2>. QED
    BY <2>4, <2>5
<1>5. ASSUME TypeOK, ReadingHasNoKey, LoopInv, LimitsKept, [Next]_vars
      PROVE  LimitsKept'
  <2>1. CASE ~OneWorker
    <3>1. on' = on
      BY <1>5, HandlerKeepsOthers DEF Next, Handler, Advance, Midnight, vars
    <3>. QED
      BY <2>1, <3>1 DEF LimitsKept, OneWorker
  <2>2. ASSUME OneWorker, UNCHANGED <<req, on, created, status>> PROVE LimitsKept'
    BY <1>3, <1>5, <2>2 DEF Jobs, ActiveJobs
  <2>3. ASSUME OneWorker, NEW r \in Requests, Handler(r) PROVE LimitsKept'
    <3>1. CASE Insert(r) /\ Holders(r) = {}
      BY <1>4, <1>5, <2>3, <3>1
    <3>2. CASE Insert(r) /\ Holders(r) # {}
      BY <2>2, <2>3, <3>2 DEF Insert, rowVars
    <3>3. CASE UNCHANGED <<status, created>>
      BY <1>5, <2>2, <2>3, <3>3, HandlerKeepsOthers
    <3>. QED
      BY <1>5, <2>3, <3>1, <3>2, <3>3, HandlerKeepsOthers
  <2>4. ASSUME OneWorker, NEW j \in Requests, Advance(j) PROVE LimitsKept'
    <3>1. /\ UNCHANGED <<req, on, created>>
          /\ status[j] \in {"pending", "processing"}
          /\ \E s \in Progress[status[j]] : status' = [status EXCEPT ![j] = s]
      BY <2>4 DEF Advance, ActiveJobs
    <3>2. \A x \in {"pending", "processing"} :
             Progress[x] \subseteq {"processing", "cancelled", "completed", "failed"}
      BY DEF Progress
    <3>3. Jobs' = Jobs
      BY <1>5, <3>1, <3>2 DEF Jobs, TypeOK
    <3>4. ActiveJobs' \subseteq ActiveJobs
      BY <1>5, <3>1, <3>3 DEF ActiveJobs, TypeOK
    <3>. QED
      BY <1>3, <1>5, <2>4, <3>1, <3>3, <3>4
  <2>5. CASE OneWorker /\ (Midnight \/ UNCHANGED vars)
    BY <2>2, <2>5 DEF Midnight, vars
  <2>. QED
    BY <1>5, <2>1, <2>3, <2>4, <2>5 DEF Next, Handler
<1>. QED
  BY <1>1, <1>2, <1>5, TypeCorrect, LoopInvHolds, PTL DEF Spec

\* On one worker the jobs of a caller that have a key stay within the plan.
THEOREM KeyedWithinQuotaHolds == Spec => []KeyedWithinQuota
<1>1. TypeOK /\ LimitsKept => KeyedWithinQuota
  <2>. SUFFICES ASSUME TypeOK, LimitsKept, OneWorker, NEW r \in Jobs
                PROVE  /\ \A d \in 0 .. today : Cardinality(KeyedOn(r, d)) <= DayLimit
                       /\ Cardinality(KeyedOf(r)) <= MonthLimit
    BY DEF KeyedWithinQuota, KeyedOn
  <2>. QED
    BY DEF LimitsKept, Jobs, TypeOK
<1>. QED
  BY <1>1, TypeCorrect, LimitsKeptHold, PTL

\* On one worker the active jobs that have a key stay within the capacity.
THEOREM KeyedWithinCapacityHolds == Spec => []KeyedWithinCapacity
<1>1. LimitsKept => KeyedWithinCapacity
  BY DEF LimitsKept, KeyedWithinCapacity, KeyedActive
<1>. QED
  BY <1>1, LimitsKeptHold, PTL

-----------------------------------------------------------------------------
\* A request without an answer has no job.
NoJobYet == \A r \in Requests : at[r] # "done" => status[r] = "none"

\* NoJobYet is inductive.
LEMMA NoJobYetHolds == Spec => []NoJobYet
<1>1. Init => NoJobYet
  BY DEF Init, NoJobYet
<1>2. TypeOK /\ NoJobYet /\ [Next]_vars => NoJobYet'
  <2>. SUFFICES ASSUME TypeOK, NoJobYet, [Next]_vars PROVE NoJobYet'
    OBVIOUS
  <2>. USE DEF TypeOK, NoJobYet
  <2>1. ASSUME NEW r \in Requests, Handler(r) PROVE NoJobYet'
    <3>1. at[r] # "done" /\ (at'[r] = "done" \/ status'[r] = status[r])
      BY <2>1 DEF Handler, Lookup, CheckQuota, CheckCapacity, Insert, Reuse, InsertRow,
         Reply, rowVars, Running, Resume
    <3>. QED
      BY <2>1, <3>1, HandlerKeepsOthers
  <2>2. ASSUME NEW r \in Requests, Advance(r) PROVE NoJobYet'
    BY <2>2 DEF Advance, ActiveJobs, Jobs
  <2>3. CASE UNCHANGED <<at, status>>
    BY <2>3
  <2>. QED
    BY <2>1, <2>2, <2>3 DEF Next, Handler, Midnight, vars
<1>. QED
  BY <1>1, <1>2, TypeCorrect, PTL DEF Spec

(***************************************************************************)
(* The jobs of any number of workers are those of JobLifecycle: an insert  *)
(* accepts a job for a request whose key is free, since the unique index   *)
(* is consulted in the INSERT itself, and the threads move it on.          *)
(***************************************************************************)
THEOREM ImplementsLifecycleHolds == Spec => ImplementsLifecycle
<1>. DEFINE column == [r \in Requests |-> IF r \in Jobs THEN status[r] ELSE "absent"]
            asked  == [r \in Requests |-> IF r \in Jobs /\ Keyed(r)
                                            THEN <<Scope(r), req[r].key>> ELSE <<>>]
<1>1. Init => Lifecycle!Init
  BY DEF Init, Lifecycle!Init, Jobs
<1>2. TypeOK /\ NoJobYet /\ [Next]_vars => [Lifecycle!Next]_(Lifecycle!vars)
  <2>. SUFFICES ASSUME TypeOK, NoJobYet, [Next]_vars
                PROVE  Lifecycle!Next \/ UNCHANGED <<column, asked>>
    BY DEF Lifecycle!vars
  <2>1. UNCHANGED <<req, status>> => UNCHANGED <<column, asked>>
    BY DEF Jobs, Keyed, Scope
  <2>2. ASSUME NEW r \in Requests, Insert(r), Holders(r) = {} PROVE Lifecycle!Next
    <3>1. /\ status' = [status EXCEPT ![r] = "pending"]
          /\ req' = req /\ status[r] = "none"
      BY <2>2 DEF Insert, InsertRow, NoJobYet, Running, Resume
    <3>2. Jobs' = Jobs \cup {r} /\ r \notin Jobs
      BY <3>1 DEF Jobs, TypeOK
    <3>3. column' = [column EXCEPT ![r] = "pending"] /\ column[r] = "absent"
      BY <3>1, <3>2 DEF TypeOK
    <3>4. CASE Keyed(r)
      <4>. DEFINE key == <<Scope(r), req[r].key>>
      <4>1. key \in (Users \cup Ips) \X Keys
        BY <3>4 DEF Scope, Keyed, Request, TypeOK
      <4>2. asked' = [asked EXCEPT ![r] = key]
        BY <3>1, <3>2, <3>4 DEF Keyed, Scope
      <4>3. Lifecycle!Holders(key) = {}
        <5>1. ASSUME NEW j \in Requests, asked[j] = key,
                     column[j] \notin {"absent", "failed", "deleted"}
              PROVE  FALSE
          <6>1. j \in Jobs /\ Keyed(j) /\ Scope(j) = Scope(r) /\ req[j].key = req[r].key
            BY <5>1
          <6>2. status[j] # "failed"
            BY <5>1, <6>1
          <6>. QED
            BY <2>2, <3>4, <6>1, <6>2 DEF Holders, SameKey
        <5>. QED
          BY <5>1 DEF Lifecycle!Holders
      <4>4. PICK k \in (Users \cup Ips) \X Keys : k = key
        BY <4>1
      <4>5. Lifecycle!Accept(r, k)
        BY <3>3, <4>2, <4>3, <4>4 DEF Lifecycle!Accept, Lifecycle!Holders
      <4>. QED
        BY <4>5 DEF Lifecycle!Next
    <3>5. CASE ~Keyed(r)
      <4>1. asked' = [asked EXCEPT ![r] = <<>>]
        BY <3>1, <3>2, <3>5 DEF Keyed, Scope
      <4>2. Lifecycle!Accept(r, <<>>)
        BY <3>3, <4>1 DEF Lifecycle!Accept
      <4>. QED
        BY <4>2 DEF Lifecycle!Next
    <3>. QED
      BY <3>4, <3>5
  <2>3. ASSUME NEW j \in Requests, Advance(j) PROVE Lifecycle!Next
    <3>1. PICK s \in Progress[status[j]] : status' = [status EXCEPT ![j] = s]
      BY <2>3 DEF Advance
    <3>2. /\ req' = req /\ j \in Jobs
          /\ \/ status[j] = "pending" /\ s \in {"processing", "cancelled"}
             \/ status[j] = "processing" /\ s \in {"completed", "failed"}
      BY <2>3 DEF Advance, ActiveJobs, Progress
    <3>3. Jobs' = Jobs
      BY <3>1, <3>2 DEF Jobs, TypeOK
    <3>4. /\ column' = [r \in Requests |-> IF r \in {j} THEN s ELSE column[r]]
          /\ column[j] = status[j] /\ asked' = asked
      BY <3>1, <3>2, <3>3 DEF TypeOK, Keyed, Scope
    <3>. HIDE DEF column, asked
    <3>5. CASE status[j] = "pending" /\ s = "processing"
      <4>1. Lifecycle!Start(j)
        BY <3>4, <3>5 DEF Lifecycle!Start, Lifecycle!Move, column, asked
      <4>. QED
        BY <4>1 DEF Lifecycle!Next
    <3>6. CASE status[j] = "pending" /\ s = "cancelled"
      <4>1. Lifecycle!Cancel(j)
        BY <3>4, <3>6 DEF Lifecycle!Cancel, Lifecycle!Move, column, asked
      <4>. QED
        BY <4>1 DEF Lifecycle!Next
    <3>7. CASE status[j] = "processing" /\ s = "completed"
      <4>1. Lifecycle!Succeed(j)
        BY <3>4, <3>7 DEF Lifecycle!Succeed, Lifecycle!Move, column, asked
      <4>. QED
        BY <4>1 DEF Lifecycle!Next
    <3>8. CASE status[j] = "processing" /\ s = "failed"
      <4>1. Lifecycle!GiveUp({j})
        BY <3>4, <3>8 DEF Lifecycle!GiveUp, Lifecycle!Move, column, asked
      <4>. QED
        BY <4>1 DEF Lifecycle!Next
    <3>. QED
      BY <3>2, <3>5, <3>6, <3>7, <3>8
  <2>4. ASSUME NEW r \in Requests, Handler(r), ~(Insert(r) /\ Holders(r) = {})
        PROVE  UNCHANGED <<column, asked>>
    <3>1. UNCHANGED <<req, status>>
      BY <2>4, HandlerKeepsOthers DEF Insert, rowVars
    <3>. QED
      BY <2>1, <3>1
  <2>5. CASE Midnight \/ UNCHANGED vars
    BY <2>1, <2>5 DEF Midnight, vars
  <2>. QED
    BY <2>2, <2>3, <2>4, <2>5 DEF Next, Handler
<1>. QED
  BY <1>1, <1>2, TypeCorrect, NoJobYetHolds, PTL
     DEF Spec, ImplementsLifecycle, Lifecycle!Spec

=============================================================================

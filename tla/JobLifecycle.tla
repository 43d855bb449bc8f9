---------------------------- MODULE JobLifecycle ----------------------------
(***************************************************************************)
(* What the job service promises its clients, without threads, sweeps,     *)
(* files or crashes: the states JobStatus names, the moves between them    *)
(* that the docstrings of run_job, cancel_job and job_recovery.py describe,*)
(* and at most one job per idempotent request unless the earlier ones      *)
(* failed.                                                                 *)
(***************************************************************************)
CONSTANTS
    Jobs,
    Requests,   \* idempotent requests: a scope and a key
    NoRequest   \* a submission without an Idempotency-Key

VARIABLES
    status,     \* of each job
    request     \* the request each job was created for

vars == <<status, request>>

TypeOK ==
    /\ status \in [Jobs -> {"absent", "pending", "processing", "completed",
                            "failed", "cancelled", "deleted"}]
    /\ request \in [Jobs -> Requests \cup {NoRequest}]

Init ==
    /\ status = [j \in Jobs |-> "absent"]
    /\ request = [j \in Jobs |-> NoRequest]

\* The jobs that stand in the way of a new one for request r.
Holders(r) ==
    {j \in Jobs : /\ request[j] = r
                  /\ status[j] \notin {"absent", "failed", "deleted"}}

Move(S, from, to) ==
    /\ \A j \in S : status[j] \in from
    /\ status' = [j \in Jobs |-> IF j \in S THEN to ELSE status[j]]
    /\ UNCHANGED request

Accept(j, r) ==
    /\ status[j] = "absent"
    /\ r # NoRequest => Holders(r) = {}
    /\ status' = [status EXCEPT ![j] = "pending"]
    /\ request' = [request EXCEPT ![j] = r]

Start(j)   == Move({j}, {"pending"}, "processing")
Cancel(j)  == Move({j}, {"pending"}, "cancelled")
Succeed(j) == Move({j}, {"processing"}, "completed")

\* A run fails one job, a recovery sweep any number at once.
GiveUp(S)  == Move(S, {"processing", "failed"}, "failed")

\* Deleting an account takes all of its jobs.
Erase(S)   == Move(S, {"pending", "processing", "completed", "failed",
                       "cancelled"}, "deleted")

Next ==
    \/ \E j \in Jobs :
          \/ \E r \in Requests \cup {NoRequest} : Accept(j, r)
          \/ Start(j) \/ Cancel(j) \/ Succeed(j)
    \/ \E S \in SUBSET Jobs : GiveUp(S) \/ Erase(S)

Spec == Init /\ [][Next]_vars

=============================================================================

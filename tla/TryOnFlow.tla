------------------------------ MODULE TryOnFlow ------------------------------
(***************************************************************************)
(* The try-on flow in one tab of the browser (useTryOnFlow.ts) and the job *)
(* service it talks to, which is JobLifecycle here: what TryOnJobs is      *)
(* shown to implement is all the tab can rely on.                          *)
(*                                                                         *)
(* submit, poll and cancel are asynchronous functions.  Each of their      *)
(* calls has a request under way, which the server serves at some moment,  *)
(* whose answer reaches the tab at a later one, and which may fail before  *)
(* or after it is served.  What the function does with the answer runs     *)
(* whatever the user has done in the meantime: nothing aborts a request.   *)
(*                                                                         *)
(* Left out: the token of a request, texts, and whether a result is saved. *)
(***************************************************************************)
EXTENDS Naturals, FiniteSets

CONSTANTS
    MaxJobs,           \* bound on the jobs created
    MaxCalls,          \* bound on the asynchronous calls under way
    MaxKeys,           \* bound on the idempotency keys made
    MaxTaps,           \* how often a button can be hit before a new render
    MaxCancels         \* bound on the taps on Cancel

ASSUME FlowAssumption ==
    {MaxJobs, MaxCalls, MaxKeys, MaxTaps, MaxCancels} \subseteq Nat

VARIABLES
    status, request,           \* of the server: see JobLifecycle
    person, garment, category, \* the selection
    lastKey,                   \* the key in idempotencyKeyCacheRef
    submission,                \* what the screen shows
    call,                      \* the functions under way
    timer,                     \* pollTimeoutRef: whose timer it holds, until it fires
    cancels                    \* taps on Cancel so far

serverVars == <<status, request>>
selection  == <<person, garment, category>>
vars == <<serverVars, selection, lastKey, submission, call, timer, cancels>>

\* Jobs and calls are numbered as they are made, a call by the first free number.
Jobs   == 1 .. MaxJobs
Calls  == 1 .. MaxCalls
NoJob  == 0   \* of a submission the server has not answered
NoKey  == 0
NoCall == 0

\* What is selected is what idempotencyKeyCacheRef remembers, or differs from it.
Choice == {"none", "cached", "new"}
Keys   == 1 .. MaxKeys

Server == INSTANCE JobLifecycle WITH Requests <- Keys, NoRequest <- NoKey

-----------------------------------------------------------------------------
\* What an answer says; "none" until it is there.
Answers == {"none", "error", "pending", "processing", "completed", "failed",
            "cancelled"}

Free == [fn |-> "none"]

Submitting(k) == [fn |-> "submit", key |-> k, job |-> NoJob, answer |-> "none"]
Asking(j, late) ==
    [fn |-> "poll", at |-> "asking", job |-> j, late |-> late, answer |-> "none"]
Cancelling(j, shown) ==
    [fn |-> "cancel", job |-> j, shown |-> shown, answer |-> "none"]

Running(c) == call[c] # Free

\* S are the n calls that start next.
Starting(S, n) ==
    /\ S \subseteq {c \in Calls : ~Running(c)}
    /\ Cardinality(S) = n
    /\ \A c \in S, d \in Calls : d < c => Running(d) \/ d \in S

Unanswered(c) ==
    /\ Running(c)
    /\ call[c].answer = "none"
    /\ call[c].fn = "poll" => call[c].at = "asking"

\* A timer that has been set and has not fired.
Waiting(c) == Running(c) /\ call[c].fn = "poll" /\ call[c].at = "waiting"

ShownStatus == {"pending", "processing"}
Idle           == [status |-> "idle"]
InFlight(s, j) == [status |-> s, job |-> j]
Completed(j)   == [status |-> "completed", job |-> j]
\* why and job stand for the message
Failed(why, j) == [status |-> "failed", why |-> why, job |-> j]

Screens ==
    {Idle}
    \cup {InFlight(s, j) : s \in ShownStatus, j \in Jobs \cup {NoJob}}
    \cup {Completed(j) : j \in Jobs}
    \cup {Failed(w, j) : w \in {"error", "job", "cancelled", "timeout"},
                        j \in Jobs \cup {NoJob}}

CallStates ==
    {Free}
    \cup [fn : {"submit"}, key : Keys, job : Jobs \cup {NoJob}, answer : Answers]
    \cup [fn : {"poll"}, at : {"asking", "waiting"}, job : Jobs \cup {NoJob},
          late : BOOLEAN, answer : Answers]
    \cup [fn : {"cancel"}, job : Jobs \cup {NoJob}, shown : ShownStatus,
          answer : Answers]

TypeOK ==
    /\ Server!TypeOK
    /\ person \in Choice /\ garment \in Choice
    /\ category \in Choice \ {"none"}
    /\ lastKey \in Keys \cup {NoKey}
    /\ submission \in Screens
    /\ call \in [Calls -> CallStates]
    /\ timer \in Calls \cup {NoCall}
    /\ cancels \in 0 .. MaxCancels

Init ==
    /\ Server!Init
    /\ person = "none" /\ garment = "none" /\ category = "new"
    /\ lastKey = NoKey
    /\ submission = Idle
    /\ call = [c \in Calls |-> Free]
    /\ timer = NoCall
    /\ cancels = 0

-----------------------------------------------------------------------------
(* The screens of App.tsx *)

ProcessingShown == submission.status \in ShownStatus
ResultShown == submission.status = "completed" /\ person # "none"
HomeShown   == ~ProcessingShown /\ ~ResultShown

\* A file picked is a new File, even if it was picked before.
PickPerson ==
    /\ HomeShown
    /\ person' = "new"
    /\ UNCHANGED <<serverVars, garment, category, lastKey, submission, call, timer, cancels>>

PickGarment ==
    /\ HomeShown
    /\ garment' = "new"
    /\ UNCHANGED <<serverVars, person, category, lastKey, submission, call, timer, cancels>>

\* Going back to the category that is remembered restores it.
PickCategory ==
    /\ HomeShown
    /\ category' \in Choice \ {"none"}
    /\ UNCHANGED <<serverVars, person, garment, lastKey, submission, call, timer, cancels>>

DismissError ==
    /\ submission.status = "failed"
    /\ submission' = Idle
    /\ UNCHANGED <<serverVars, selection, lastKey, call, timer, cancels>>

\* stopPolling: clearTimeout does nothing to a timer that has fired.
StopPolling(calls) ==
    IF timer = NoCall THEN calls ELSE [calls EXCEPT ![timer] = Free]

\* The category is "tops" again; without new files no key is reused, whatever it is.
TryAnother ==
    /\ ResultShown
    /\ call' = StopPolling(call)
    /\ timer' = NoCall
    /\ person' = "none" /\ garment' = "none" /\ category' = "new"
    /\ submission' = Idle
    /\ UNCHANGED <<serverVars, lastKey, cancels>>

ChangeClothing ==
    /\ ResultShown
    /\ call' = StopPolling(call)
    /\ timer' = NoCall
    /\ garment' = "none"
    /\ submission' = Idle
    /\ UNCHANGED <<serverVars, person, category, lastKey, cancels>>

-----------------------------------------------------------------------------
(* submit *)

\* The one remembered key, or a new one that takes its place.
IdempotencyKey ==
    IF person = "cached" /\ garment = "cached" /\ category = "cached"
    THEN lastKey
    ELSE lastKey + 1

\* Every tap before the screen changes is a call of its own.
Submit ==
    /\ HomeShown
    /\ person # "none" /\ garment # "none"
    /\ IdempotencyKey \in Keys
    /\ \E S \in SUBSET Calls, taps \in 1 .. MaxTaps :
          /\ Starting(S, taps)
          /\ call' = [c \in Calls |-> IF c \in S THEN Submitting(IdempotencyKey)
                                                 ELSE call[c]]
    /\ lastKey' = IdempotencyKey
    /\ person' = "cached" /\ garment' = "cached" /\ category' = "cached"
    /\ submission' = InFlight("pending", NoJob)
    /\ UNCHANGED <<serverVars, timer, cancels>>

\* poll asks at once, in the same call of submit or cancel.
SubmitAnswered(c) ==
    /\ Running(c) /\ call[c].fn = "submit" /\ call[c].answer # "none"
    /\ LET a == call[c].answer
           j == call[c].job
       IN  CASE a = "error"     -> /\ submission' = Failed("error", NoJob)
                                   /\ call' = [call EXCEPT ![c] = Free]
             [] a = "failed"    -> /\ submission' = Failed("job", j)
                                   /\ call' = [call EXCEPT ![c] = Free]
             [] a = "completed" -> /\ submission' = Completed(j)
                                   /\ call' = [call EXCEPT ![c] = Free]
             [] a = "cancelled" -> /\ submission' = Failed("cancelled", j)
                                   /\ call' = [call EXCEPT ![c] = Free]
             [] OTHER           -> /\ submission' = InFlight(a, j)
                                   /\ call' = [call EXCEPT ![c] = Asking(j, FALSE)]
    /\ UNCHANGED <<serverVars, selection, lastKey, timer, cancels>>

-----------------------------------------------------------------------------
(* poll *)

NeverOverdue(c) == FALSE

\* More than MAX_POLL_DURATION_MS since this loop began.
Overdue(c) == call[c].late

\* An answer ends the loop, or shows the status and sets the next timer.
PollAnswered(c) ==
    /\ Running(c) /\ call[c].fn = "poll"
    /\ call[c].at = "asking" /\ call[c].answer # "none"
    /\ LET a == call[c].answer
           j == call[c].job
           Ends(s) == /\ submission' = s
                      /\ call' = [call EXCEPT ![c] = Free]
                      /\ UNCHANGED timer
       IN  CASE a = "error"     -> Ends(Failed("error", NoJob))
             [] a = "completed" -> Ends(Completed(j))
             [] a = "failed"    -> Ends(Failed("job", j))
             [] a = "cancelled" -> Ends(Failed("cancelled", j))
             [] OTHER ->
                  IF Overdue(c)
                  THEN Ends(Failed("timeout", NoJob))
                  ELSE /\ submission' = InFlight(a, j)
                       /\ call' = [call EXCEPT ![c].at = "waiting",
                                               ![c].answer = "none"]
                       /\ timer' = c
    /\ UNCHANGED <<serverVars, selection, lastKey, cancels>>

\* After POLL_INTERVAL_MS.
TimerFires(c) ==
    /\ Waiting(c)
    /\ call' = [call EXCEPT ![c].at = "asking"]
    /\ timer' = IF timer = c THEN NoCall ELSE timer
    /\ UNCHANGED <<serverVars, selection, lastKey, submission, cancels>>

\* MAX_POLL_DURATION_MS since this loop began pass while it asks: when it waits
\* instead, nobody looks at the time before it has asked once more.
GrowsLate(c) ==
    /\ Unanswered(c) /\ call[c].fn = "poll" /\ ~call[c].late
    /\ call' = [call EXCEPT ![c].late = TRUE]
    /\ UNCHANGED <<serverVars, selection, lastKey, submission, timer, cancels>>

-----------------------------------------------------------------------------
(* cancel *)

CancelTap ==
    /\ ProcessingShown
    /\ cancels < MaxCancels
    /\ \E c \in Calls :
          /\ Starting({c}, 1)
          /\ call' = [StopPolling(call) EXCEPT
                        ![c] = Cancelling(submission.job, submission.status)]
    /\ timer' = NoCall
    /\ cancels' = cancels + 1
    /\ UNCHANGED <<serverVars, selection, lastKey, submission>>

\* A refusal is only noted.
CancelAnsweredNoPoll(c) ==
    /\ Running(c) /\ call[c].fn = "cancel" /\ call[c].answer # "none"
    /\ submission' = IF call[c].answer = "cancelled"
                     THEN Failed("cancelled", call[c].job)
                     ELSE InFlight(call[c].shown, call[c].job)
    /\ call' = [call EXCEPT ![c] = Free]
    /\ UNCHANGED <<serverVars, selection, lastKey, timer, cancels>>

\* The answer is taken for a success whatever it says.
CancelAnsweredBlindly(c) ==
    /\ Running(c) /\ call[c].fn = "cancel" /\ call[c].answer # "none"
    /\ submission' = Failed("cancelled", call[c].job)
    /\ call' = [call EXCEPT ![c] = Free]
    /\ UNCHANGED <<serverVars, selection, lastKey, timer, cancels>>

\* A refusal shows what was shown when Cancel was hit, and polls again.
CancelAnswered(c) ==
    /\ Running(c) /\ call[c].fn = "cancel" /\ call[c].answer # "none"
    /\ LET j == call[c].job
       IN  IF call[c].answer = "cancelled"
           THEN /\ submission' = Failed("cancelled", j)
                /\ call' = [call EXCEPT ![c] = Free]
           ELSE /\ submission' = InFlight(call[c].shown, j)
                /\ call' = [call EXCEPT ![c] = Asking(j, FALSE)]
    /\ UNCHANGED <<serverVars, selection, lastKey, timer, cancels>>

-----------------------------------------------------------------------------
(* The server, and the network *)

Answer(c, a, j) == call' = [call EXCEPT ![c].answer = a, ![c].job = j]

tabVars == <<selection, lastKey, submission, timer, cancels>>

\* A key that has a job gets that job, in the state it is in.
ServeSubmit(c) ==
    /\ Unanswered(c) /\ call[c].fn = "submit"
    /\ \/ \E j \in Server!Holders(call[c].key) :
             /\ Answer(c, status[j], j)
             /\ UNCHANGED serverVars
       \/ \E j \in Jobs :
             /\ \A i \in Jobs : i < j => status[i] # "absent"
             /\ Server!Accept(j, call[c].key)
             /\ Answer(c, "pending", j)
    /\ UNCHANGED tabVars

\* There is no route for the empty id.
ServePoll(c) ==
    /\ Unanswered(c) /\ call[c].fn = "poll"
    /\ Answer(c, IF call[c].job = NoJob THEN "error" ELSE status[call[c].job],
              call[c].job)
    /\ UNCHANGED <<serverVars, tabVars>>

ServeCancel(c) ==
    /\ Unanswered(c) /\ call[c].fn = "cancel"
    /\ IF call[c].job # NoJob /\ status[call[c].job] = "pending"
       THEN /\ Server!Cancel(call[c].job)
            /\ Answer(c, "cancelled", call[c].job)
       ELSE /\ Answer(c, "error", call[c].job)
            /\ UNCHANGED serverVars
    /\ UNCHANGED tabVars

\* Lost, refused, or failed, before or after it was served.
Break(c) ==
    /\ Running(c)
    /\ call[c].answer # "error"
    /\ call[c].fn = "poll" => call[c].at = "asking"
    /\ Answer(c, "error", IF call[c].fn = "submit" THEN NoJob ELSE call[c].job)
    /\ UNCHANGED <<serverVars, tabVars>>

Work ==
    /\ \E j \in Jobs : Server!Start(j) \/ Server!Succeed(j) \/ Server!GiveUp({j})
    /\ UNCHANGED <<tabVars, call>>

-----------------------------------------------------------------------------
Serve(c)    == ServeSubmit(c) \/ ServePoll(c) \/ ServeCancel(c)
Continue(c) == SubmitAnswered(c) \/ PollAnswered(c) \/ CancelAnswered(c) \/ TimerFires(c)

User ==
    \/ PickPerson \/ PickGarment \/ PickCategory \/ DismissError
    \/ TryAnother \/ ChangeClothing \/ Submit \/ CancelTap

Next ==
    \/ User \/ Work
    \/ \E c \in Calls : Serve(c) \/ Continue(c) \/ GrowsLate(c) \/ Break(c)

Spec == Init /\ [][Next]_vars

(***************************************************************************)
(* A request is answered or fails, the browser runs what is ready, and     *)
(* time passes.  The user need do nothing, and no job need ever end.       *)
(***************************************************************************)
Fairness ==
    \A c \in Calls :
        /\ WF_vars(Serve(c) \/ Break(c))
        /\ WF_vars(Continue(c))
        /\ SF_vars(GrowsLate(c))

FairSpec == Spec /\ Fairness

-----------------------------------------------------------------------------
(***************************************************************************)
(* The screen is never stuck "showing neither progress nor an error": as   *)
(* long as it shows a job in progress, a request or a timer is under way   *)
(* that will change it, whichever timer stopPolling has cleared.           *)
(***************************************************************************)
InProgressIsWatched == ProcessingShown => \E c \in Calls : Running(c)

(***************************************************************************)
(* A final screen is true of its job, however late and in whatever order   *)
(* the answers came.                                                       *)
(***************************************************************************)
ShownIsTrue ==
    LET Is(st) == submission.job \in Jobs /\ status[submission.job] = st IN
    /\ submission.status = "completed" => Is("completed")
    /\ submission.status = "failed" =>
         /\ submission.why = "cancelled" => Is("cancelled")
         /\ submission.why = "job" => Is("failed")

(***************************************************************************)
(* An abandoned tab does not poll for ever: the bound on a loop brings the *)
(* processing screen to an end even if the job itself never ends.          *)
(***************************************************************************)
ProcessingScreenEnds == ProcessingShown ~> ~ProcessingShown

-----------------------------------------------------------------------------
(* Why they hold: the inductive invariants *)

\* What is shown or asked about was made, and the tab erases nothing.
JobsAreKnown ==
    /\ \A j \in Jobs : status[j] # "deleted"
    /\ \A c \in Calls :
          Running(c) /\ call[c].job \in Jobs => status[call[c].job] # "absent"
    /\ ProcessingShown /\ submission.job \in Jobs => status[submission.job] # "absent"

\* An answer is about a job, and stays true if it says that the job is over.
AnswersStayTrue ==
    \A c \in Calls : Running(c) /\ call[c].answer \notin {"none", "error"} =>
        /\ call[c].job \in Jobs
        /\ call[c].fn = "cancel" => call[c].answer = "cancelled"
        /\ call[c].answer \in {"completed", "failed", "cancelled"} =>
              status[call[c].job] = call[c].answer

=============================================================================

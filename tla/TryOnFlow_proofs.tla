--------------------------- MODULE TryOnFlow_proofs ---------------------------
(***************************************************************************)
(* For any number of jobs, calls and keys, and however requests are lost,  *)
(* served and answered: what the tab shows is watched and, at the end,     *)
(* true.                                                                   *)
(***************************************************************************)
EXTENDS TryOnFlow, FiniteSetTheorems, TLAPS

-----------------------------------------------------------------------------
(* The states of a call *)

\* A call that is under way is of one of three kinds.
LEMMA CallShape ==
    ASSUME NEW x \in CallStates, x # Free
    PROVE  /\ x.fn \in {"submit", "poll", "cancel"}
           /\ x.job \in Jobs \cup {NoJob}
           /\ x.answer \in Answers
           /\ x.fn = "poll" => x.at \in {"asking", "waiting"} /\ x.late \in BOOLEAN
           /\ x.fn = "cancel" => x.shown \in ShownStatus
  BY DEF CallStates, Free

\* The states calls start in.
LEMMA StartShape ==
    /\ \A k \in Keys :
          /\ Submitting(k) \in CallStates
          /\ Submitting(k) # Free
          /\ Submitting(k).job = NoJob /\ Submitting(k).answer = "none"
    /\ \A j \in Jobs \cup {NoJob}, late \in BOOLEAN :
          /\ Asking(j, late) \in CallStates
          /\ Asking(j, late) # Free
          /\ Asking(j, late).job = j /\ Asking(j, late).answer = "none"
    /\ \A j \in Jobs \cup {NoJob}, shown \in ShownStatus :
          /\ Cancelling(j, shown) \in CallStates
          /\ Cancelling(j, shown) # Free
          /\ Cancelling(j, shown).job = j /\ Cancelling(j, shown).answer = "none"
<1> USE DEF CallStates, Free, Answers
<1>1. ASSUME NEW k \in Keys
      PROVE  /\ Submitting(k) \in CallStates
             /\ Submitting(k) # Free
             /\ Submitting(k).job = NoJob /\ Submitting(k).answer = "none"
  <2>1. Submitting(k).fn # Free.fn
    BY DEF Submitting
  <2> QED
    BY <2>1 DEF Submitting
<1>2. ASSUME NEW j \in Jobs \cup {NoJob}, NEW late \in BOOLEAN
      PROVE  /\ Asking(j, late) \in CallStates
             /\ Asking(j, late) # Free
             /\ Asking(j, late).job = j /\ Asking(j, late).answer = "none"
  <2>1. Asking(j, late).fn # Free.fn
    BY DEF Asking
  <2> QED
    BY <2>1 DEF Asking
<1>3. ASSUME NEW j \in Jobs \cup {NoJob}, NEW shown \in ShownStatus
      PROVE  /\ Cancelling(j, shown) \in CallStates
             /\ Cancelling(j, shown) # Free
             /\ Cancelling(j, shown).job = j /\ Cancelling(j, shown).answer = "none"
  <2>1. Cancelling(j, shown).fn # Free.fn
    BY DEF Cancelling
  <2> QED
    BY <2>1 DEF Cancelling
<1> QED
  BY <1>1, <1>2, <1>3

\* An answer changes nothing of a call but its answer and its job.
LEMMA AnswerShape ==
    ASSUME TypeOK, NEW c \in Calls, Running(c), NEW a \in Answers,
           NEW j \in Jobs \cup {NoJob}, Answer(c, a, j)
    PROVE  /\ call' \in [Calls -> CallStates]
           /\ call'[c] # Free
           /\ call'[c].fn = call[c].fn
           /\ call'[c].answer = a /\ call'[c].job = j
           /\ \A d \in Calls \ {c} : call'[d] = call[d]
<1> DEFINE x == call[c]
           y == [x EXCEPT !.answer = a]
           z == [y EXCEPT !.job = j]
<1>1. x \in CallStates /\ x # Free
  BY DEF TypeOK, Running
<1>2. call' = [call EXCEPT ![c] = z]
  BY DEF Answer, TypeOK
<1>3. z \in CallStates /\ z.fn = x.fn /\ z.answer = a /\ z.job = j
  <2>1. CASE x \in [fn : {"submit"}, key : Keys, job : Jobs \cup {NoJob}, answer : Answers]
    <3>1. z \in [fn : {"submit"}, key : Keys, job : Jobs \cup {NoJob}, answer : Answers]
      BY <2>1
    <3> QED
      BY <2>1, <3>1 DEF CallStates
  <2>2. CASE x \in [fn : {"poll"}, at : {"asking", "waiting"}, job : Jobs \cup {NoJob},
                    late : BOOLEAN, answer : Answers]
    <3>1. z \in [fn : {"poll"}, at : {"asking", "waiting"}, job : Jobs \cup {NoJob},
                 late : BOOLEAN, answer : Answers]
      BY <2>2
    <3> QED
      BY <2>2, <3>1 DEF CallStates
  <2>3. CASE x \in [fn : {"cancel"}, job : Jobs \cup {NoJob}, shown : ShownStatus,
                    answer : Answers]
    <3>1. z \in [fn : {"cancel"}, job : Jobs \cup {NoJob}, shown : ShownStatus,
                 answer : Answers]
      BY <2>3
    <3> QED
      BY <2>3, <3>1 DEF CallStates
  <2> QED
    BY <1>1, <2>1, <2>2, <2>3 DEF CallStates
<1>4. z # Free
  <2>1. z.fn # Free.fn
    BY <1>1, <1>3, CallShape DEF Free
  <2> QED
    BY <2>1
<1> HIDE DEF z
<1> QED
  BY <1>2, <1>3, <1>4 DEF TypeOK

\* What a polling loop becomes as it waits, asks again or grows late.
LEMMA PollShape ==
    ASSUME TypeOK, NEW c \in Calls, call[c] # Free, call[c].fn = "poll", NEW x,
           \/ x = [[call[c] EXCEPT !.at = "waiting"] EXCEPT !.answer = "none"]
           \/ x = [call[c] EXCEPT !.at = "asking"]
           \/ x = [call[c] EXCEPT !.late = TRUE]
    PROVE  /\ x \in CallStates /\ x # Free
           /\ x.fn = "poll" /\ x.job = call[c].job
           /\ x.answer \in {call[c].answer, "none"}
<1> DEFINE Polls == [fn : {"poll"}, at : {"asking", "waiting"}, job : Jobs \cup {NoJob},
                     late : BOOLEAN, answer : Answers]
<1>1. call[c] \in Polls
  BY DEF TypeOK, CallStates, Free
<1>2. x \in Polls /\ x.job = call[c].job /\ x.answer \in {call[c].answer, "none"}
  BY <1>1 DEF Answers
<1>3. x.fn = "poll" /\ x \in CallStates
  BY <1>2 DEF CallStates
<1>4. x # Free
  <2>1. x.fn # Free.fn
    BY <1>3 DEF Free
  <2> QED
    BY <2>1
<1> QED
  BY <1>2, <1>3, <1>4

\* stopPolling ends at most the call whose timer it clears.
LEMMA StopPollingShape ==
    ASSUME TypeOK
    PROVE  /\ StopPolling(call) \in [Calls -> CallStates]
           /\ \A d \in Calls : StopPolling(call)[d] \in {call[d], Free}
  BY DEF TypeOK, StopPolling, CallStates

\* The screens.
LEMMA ScreenShape ==
    /\ Idle \in Screens /\ Idle.status = "idle"
    /\ \A s \in ShownStatus, j \in Jobs \cup {NoJob} :
          /\ InFlight(s, j) \in Screens
          /\ InFlight(s, j).status = s /\ InFlight(s, j).job = j
    /\ \A j \in Jobs :
          /\ Completed(j) \in Screens
          /\ Completed(j).status = "completed" /\ Completed(j).job = j
    /\ \A w \in {"error", "job", "cancelled", "timeout"}, j \in Jobs \cup {NoJob} :
          /\ Failed(w, j) \in Screens
          /\ Failed(w, j).status = "failed"
          /\ Failed(w, j).why = w /\ Failed(w, j).job = j
<1>1. Idle \in Screens /\ Idle.status = "idle"
  BY DEF Screens, Idle
<1>2. ASSUME NEW s \in ShownStatus, NEW j \in Jobs \cup {NoJob}
      PROVE  /\ InFlight(s, j) \in Screens
             /\ InFlight(s, j).status = s /\ InFlight(s, j).job = j
  BY DEF Screens, InFlight
<1>3. ASSUME NEW j \in Jobs
      PROVE  /\ Completed(j) \in Screens
             /\ Completed(j).status = "completed" /\ Completed(j).job = j
  BY DEF Screens, Completed
<1>4. ASSUME NEW w \in {"error", "job", "cancelled", "timeout"}, NEW j \in Jobs \cup {NoJob}
      PROVE  /\ Failed(w, j) \in Screens
             /\ Failed(w, j).status = "failed"
             /\ Failed(w, j).why = w /\ Failed(w, j).job = j
  <2>1. Failed(w, j) \in Screens
    BY DEF Screens
  <2> QED
    BY <2>1 DEF Failed
<1> QED
  BY <1>1, <1>2, <1>3, <1>4

-----------------------------------------------------------------------------
(* The invariant *)

Inv == TypeOK /\ JobsAreKnown /\ AnswersStayTrue /\ InProgressIsWatched /\ ShownIsTrue

(***************************************************************************)
(* Every continuation of a call replaces its state and the screen: what    *)
(* such a step has to show.                                                *)
(***************************************************************************)
LEMMA ContinueKeepsInv ==
    ASSUME Inv, NEW c \in Calls, NEW x \in CallStates,
           call' = [call EXCEPT ![c] = x],
           submission' \in Screens,
           timer' \in Calls \cup {NoCall},
           UNCHANGED <<serverVars, selection, lastKey, cancels>>,
           x # Free =>
              /\ x.answer = "none" \/ x.answer = call[c].answer
              /\ x.fn = call[c].fn \/ x.answer = "none"
              /\ x.job = call[c].job /\ Running(c),
           ProcessingShown' /\ submission'.job \in Jobs => status[submission'.job] # "absent",
           ProcessingShown' => x # Free \/ \E d \in Calls \ {c} : Running(d),
           ShownIsTrue'
    PROVE  Inv'
<1> USE DEF Inv
<1>1. TypeOK'
  BY DEF TypeOK, Server!TypeOK, serverVars, selection
<1>2. JobsAreKnown'
  BY DEF JobsAreKnown, Running, serverVars, TypeOK
<1>3. AnswersStayTrue'
  BY DEF AnswersStayTrue, Running, serverVars, TypeOK
<1>4. InProgressIsWatched'
  BY DEF InProgressIsWatched, Running, TypeOK
<1> QED
  BY <1>1, <1>2, <1>3, <1>4

\* The answer of submit.
LEMMA SubmitAnsweredKeepsInv ==
    ASSUME Inv, NEW c \in Calls, SubmitAnswered(c)
    PROVE  Inv'
<1> DEFINE a == call[c].answer
           j == call[c].job
<1>1. /\ call[c] \in CallStates /\ call[c] # Free /\ Running(c)
      /\ j \in Jobs \cup {NoJob}
      /\ a \in Answers \ {"none"}
      /\ a # "error" => j \in Jobs
      /\ a \in {"completed", "failed", "cancelled"} => status[j] = a
      /\ j \in Jobs => status[j] # "absent"
  <2>1. call[c] \in CallStates /\ call[c] # Free /\ Running(c) /\ a # "none"
    BY DEF Inv, TypeOK, SubmitAnswered, Running
  <2> QED
    BY <2>1, CallShape DEF Inv, AnswersStayTrue, JobsAreKnown, Running
<1>2. /\ UNCHANGED <<serverVars, selection, lastKey, timer, cancels>>
      /\ timer' \in Calls \cup {NoCall}
  BY DEF SubmitAnswered, Inv, TypeOK
<1>3. Free \in CallStates
  BY DEF CallStates
<1>4. CASE a = "error"
  <2>1. submission' = Failed("error", NoJob) /\ call' = [call EXCEPT ![c] = Free]
    BY <1>4 DEF SubmitAnswered
  <2>2. /\ submission' \in Screens /\ submission'.status = "failed"
        /\ submission'.why = "error"
    BY <2>1, ScreenShape
  <2>3. ~ProcessingShown' /\ ShownIsTrue'
    BY <2>2 DEF ProcessingShown, ShownStatus, ShownIsTrue
  <2> QED
    BY <1>2, <1>3, <2>1, <2>2, <2>3, ContinueKeepsInv
<1>5. CASE a = "failed"
  <2>1. submission' = Failed("job", j) /\ call' = [call EXCEPT ![c] = Free]
    BY <1>5 DEF SubmitAnswered
  <2>2. /\ submission' \in Screens /\ submission'.status = "failed"
        /\ submission'.why = "job" /\ submission'.job = j
    BY <1>1, <2>1, ScreenShape
  <2>3. ~ProcessingShown' /\ ShownIsTrue'
    BY <1>1, <1>2, <1>5, <2>2 DEF ProcessingShown, ShownStatus, ShownIsTrue, serverVars
  <2> QED
    BY <1>2, <1>3, <2>1, <2>2, <2>3, ContinueKeepsInv
<1>6. CASE a = "completed"
  <2>1. submission' = Completed(j) /\ call' = [call EXCEPT ![c] = Free]
    BY <1>6 DEF SubmitAnswered
  <2>2. /\ submission' \in Screens /\ submission'.status = "completed"
        /\ submission'.job = j
    BY <1>1, <1>6, <2>1, ScreenShape
  <2>3. ~ProcessingShown' /\ ShownIsTrue'
    BY <1>1, <1>2, <1>6, <2>2 DEF ProcessingShown, ShownStatus, ShownIsTrue, serverVars
  <2> QED
    BY <1>2, <1>3, <2>1, <2>2, <2>3, ContinueKeepsInv
<1>7. CASE a = "cancelled"
  <2>1. submission' = Failed("cancelled", j) /\ call' = [call EXCEPT ![c] = Free]
    BY <1>7 DEF SubmitAnswered
  <2>2. /\ submission' \in Screens /\ submission'.status = "failed"
        /\ submission'.why = "cancelled" /\ submission'.job = j
    BY <1>1, <2>1, ScreenShape
  <2>3. ~ProcessingShown' /\ ShownIsTrue'
    BY <1>1, <1>2, <1>7, <2>2 DEF ProcessingShown, ShownStatus, ShownIsTrue, serverVars
  <2> QED
    BY <1>2, <1>3, <2>1, <2>2, <2>3, ContinueKeepsInv
<1>8. CASE a \in {"pending", "processing"}
  <2>1. /\ submission' = InFlight(a, j)
        /\ call' = [call EXCEPT ![c] = Asking(j, FALSE)]
    BY <1>8 DEF SubmitAnswered
  <2>2. /\ submission' \in Screens /\ submission'.status = a /\ submission'.job = j
    BY <1>1, <1>8, <2>1, ScreenShape DEF ShownStatus
  <2>3. ShownIsTrue' /\ (ProcessingShown' /\ submission'.job \in Jobs
                           => status[submission'.job] # "absent")
    BY <1>1, <1>8, <2>2 DEF ShownIsTrue
  <2>4. /\ Asking(j, FALSE) \in CallStates /\ Asking(j, FALSE) # Free
        /\ Asking(j, FALSE).job = j /\ Asking(j, FALSE).answer = "none"
    BY <1>1, StartShape
  <2> QED
    BY <1>1, <1>2, <2>1, <2>2, <2>3, <2>4, ContinueKeepsInv
<1> QED
  BY <1>1, <1>4, <1>5, <1>6, <1>7, <1>8 DEF Answers

\* The answer of poll.
LEMMA PollAnsweredKeepsInv ==
    ASSUME Inv, NEW c \in Calls, PollAnswered(c)
    PROVE  Inv'
<1> DEFINE a == call[c].answer
           j == call[c].job
<1>1. /\ call[c] \in CallStates /\ call[c] # Free /\ Running(c)
      /\ j \in Jobs \cup {NoJob}
      /\ a \in Answers \ {"none"}
      /\ a # "error" => j \in Jobs
      /\ a \in {"completed", "failed", "cancelled"} => status[j] = a
      /\ j \in Jobs => status[j] # "absent"
  <2>1. call[c] \in CallStates /\ call[c] # Free /\ Running(c) /\ a # "none"
    BY DEF Inv, TypeOK, PollAnswered, Running
  <2> QED
    BY <2>1, CallShape DEF Inv, AnswersStayTrue, JobsAreKnown, Running
<1>2. UNCHANGED <<serverVars, selection, lastKey, cancels>>
  BY DEF PollAnswered
<1>3. Free \in CallStates /\ timer \in Calls \cup {NoCall}
  BY DEF CallStates, Inv, TypeOK
<1>4. ASSUME NEW why \in {"error", "timeout"},
             submission' = Failed(why, NoJob), call' = [call EXCEPT ![c] = Free],
             UNCHANGED timer
      PROVE  Inv'
  <2>1. /\ submission' \in Screens /\ submission'.status = "failed"
        /\ submission'.why = why
    BY <1>4, ScreenShape
  <2>2. ~ProcessingShown' /\ ShownIsTrue'
    BY <2>1 DEF ProcessingShown, ShownStatus, ShownIsTrue
  <2> QED
    BY <1>2, <1>3, <1>4, <2>1, <2>2, ContinueKeepsInv
<1>5. CASE a = "error"
  BY <1>4, <1>5 DEF PollAnswered
<1>6. CASE a = "failed"
  <2>1. submission' = Failed("job", j) /\ call' = [call EXCEPT ![c] = Free] /\ UNCHANGED timer
    BY <1>6 DEF PollAnswered
  <2>2. /\ submission' \in Screens /\ submission'.status = "failed"
        /\ submission'.why = "job" /\ submission'.job = j
    BY <1>1, <2>1, ScreenShape
  <2>3. ~ProcessingShown' /\ ShownIsTrue'
    BY <1>1, <1>2, <1>6, <2>2 DEF ProcessingShown, ShownStatus, ShownIsTrue, serverVars
  <2> QED
    BY <1>2, <1>3, <2>1, <2>2, <2>3, ContinueKeepsInv
<1>7. CASE a = "completed"
  <2>1. submission' = Completed(j) /\ call' = [call EXCEPT ![c] = Free] /\ UNCHANGED timer
    BY <1>7 DEF PollAnswered
  <2>2. /\ submission' \in Screens /\ submission'.status = "completed"
        /\ submission'.job = j
    BY <1>1, <1>7, <2>1, ScreenShape
  <2>3. ~ProcessingShown' /\ ShownIsTrue'
    BY <1>1, <1>2, <1>7, <2>2 DEF ProcessingShown, ShownStatus, ShownIsTrue, serverVars
  <2> QED
    BY <1>2, <1>3, <2>1, <2>2, <2>3, ContinueKeepsInv
<1>8. CASE a = "cancelled"
  <2>1. submission' = Failed("cancelled", j) /\ call' = [call EXCEPT ![c] = Free] /\ UNCHANGED timer
    BY <1>8 DEF PollAnswered
  <2>2. /\ submission' \in Screens /\ submission'.status = "failed"
        /\ submission'.why = "cancelled" /\ submission'.job = j
    BY <1>1, <2>1, ScreenShape
  <2>3. ~ProcessingShown' /\ ShownIsTrue'
    BY <1>1, <1>2, <1>8, <2>2 DEF ProcessingShown, ShownStatus, ShownIsTrue, serverVars
  <2> QED
    BY <1>2, <1>3, <2>1, <2>2, <2>3, ContinueKeepsInv
<1>9. CASE a \in {"pending", "processing"}
  <2>1. CASE Overdue(c)
    BY <1>4, <1>9, <2>1 DEF PollAnswered
  <2>2. CASE ~Overdue(c)
    <3> DEFINE x == [[call[c] EXCEPT !.at = "waiting"] EXCEPT !.answer = "none"]
    <3>1. submission' = InFlight(a, j) /\ timer' = c
      BY <1>9, <2>2 DEF PollAnswered
    <3>2. call' = [call EXCEPT ![c] = x]
      BY <1>9, <2>2 DEF PollAnswered, Inv, TypeOK
    <3>3. /\ submission' \in Screens /\ submission'.status = a /\ submission'.job = j
      BY <1>1, <1>9, <3>1, ScreenShape DEF ShownStatus
    <3>4. ShownIsTrue' /\ (ProcessingShown' /\ submission'.job \in Jobs
                             => status[submission'.job] # "absent")
      BY <1>1, <1>9, <3>3 DEF ShownIsTrue
    <3>5. /\ x \in CallStates /\ x # Free
          /\ x.fn = call[c].fn /\ x.job = call[c].job
          /\ x.answer \in {call[c].answer, "none"}
      <4>1. call[c].fn = "poll"
        BY DEF PollAnswered
      <4> QED
        BY <1>1, <4>1, PollShape DEF Inv
    <3> HIDE DEF x
    <3> QED
      BY <1>1, <1>2, <3>1, <3>2, <3>3, <3>4, <3>5, ContinueKeepsInv
  <2> QED
    BY <2>1, <2>2
<1> QED
  BY <1>1, <1>5, <1>6, <1>7, <1>8, <1>9 DEF Answers

\* The answer of cancel.
LEMMA CancelAnsweredKeepsInv ==
    ASSUME Inv, NEW c \in Calls, CancelAnswered(c)
    PROVE  Inv'
<1> DEFINE a == call[c].answer
           j == call[c].job
<1>1. /\ call[c] \in CallStates /\ call[c] # Free /\ Running(c)
      /\ j \in Jobs \cup {NoJob}
      /\ a = "cancelled" => j \in Jobs /\ status[j] = a
      /\ j \in Jobs => status[j] # "absent"
      /\ call[c].shown \in ShownStatus
  <2>1. /\ call[c] \in CallStates /\ call[c] # Free /\ Running(c)
        /\ call[c].fn = "cancel"
    BY DEF Inv, TypeOK, CancelAnswered, Running
  <2> QED
    BY <2>1, CallShape DEF Inv, AnswersStayTrue, JobsAreKnown, Running
<1>2. /\ UNCHANGED <<serverVars, selection, lastKey, timer, cancels>>
      /\ timer' \in Calls \cup {NoCall} /\ Free \in CallStates
  BY DEF CancelAnswered, Inv, TypeOK, CallStates
<1>3. CASE a = "cancelled"
  <2>1. submission' = Failed("cancelled", j) /\ call' = [call EXCEPT ![c] = Free]
    BY <1>3 DEF CancelAnswered
  <2>2. /\ submission' \in Screens /\ submission'.status = "failed"
        /\ submission'.why = "cancelled" /\ submission'.job = j
    BY <1>1, <2>1, ScreenShape
  <2>3. ~ProcessingShown' /\ ShownIsTrue'
    BY <1>1, <1>2, <1>3, <2>2 DEF ProcessingShown, ShownStatus, ShownIsTrue, serverVars
  <2> QED
    BY <1>2, <2>1, <2>2, <2>3, ContinueKeepsInv
<1>4. CASE a # "cancelled"
  <2>1. /\ submission' = InFlight(call[c].shown, j)
        /\ call' = [call EXCEPT ![c] = Asking(j, FALSE)]
    BY <1>4 DEF CancelAnswered
  <2>2. /\ submission' \in Screens /\ submission'.status \in ShownStatus
        /\ submission'.job = j
    BY <1>1, <2>1, ScreenShape
  <2>3. ShownIsTrue' /\ (ProcessingShown' /\ submission'.job \in Jobs
                           => status[submission'.job] # "absent")
    BY <1>1, <2>2 DEF ShownIsTrue, ShownStatus
  <2>4. /\ Asking(j, FALSE) \in CallStates /\ Asking(j, FALSE) # Free
        /\ Asking(j, FALSE).job = j /\ Asking(j, FALSE).answer = "none"
    BY <1>1, StartShape
  <2> QED
    BY <1>1, <1>2, <2>1, <2>2, <2>3, <2>4, ContinueKeepsInv
<1> QED
  BY <1>3, <1>4

\* A timer fires, or a loop grows late: the screen stays.
LEMMA LoopKeepsInv ==
    ASSUME Inv, NEW c \in Calls, TimerFires(c) \/ GrowsLate(c)
    PROVE  Inv'
<1>1. call[c] \in CallStates /\ call[c] # Free /\ Running(c) /\ call[c].fn = "poll"
  BY DEF TimerFires, Waiting, GrowsLate, Unanswered, Running, Inv, TypeOK
<1>2. /\ UNCHANGED <<serverVars, selection, lastKey, submission, cancels>>
      /\ timer' \in Calls \cup {NoCall} /\ submission' \in Screens
  BY DEF TimerFires, GrowsLate, Inv, TypeOK
<1>3. PICK x : /\ call' = [call EXCEPT ![c] = x]
               /\ \/ x = [call[c] EXCEPT !.at = "asking"]
                  \/ x = [call[c] EXCEPT !.late = TRUE]
  BY DEF TimerFires, GrowsLate
<1>4. /\ x \in CallStates /\ x # Free
      /\ x.fn = call[c].fn /\ x.job = call[c].job
      /\ x.answer \in {call[c].answer, "none"}
  BY <1>1, <1>3, PollShape DEF Inv
<1>5. ShownIsTrue' /\ (ProcessingShown' /\ submission'.job \in Jobs
                         => status[submission'.job] # "absent")
  BY <1>2 DEF Inv, ShownIsTrue, JobsAreKnown, ProcessingShown, serverVars
<1> QED
  BY <1>1, <1>2, <1>3, <1>4, <1>5, ContinueKeepsInv

(***************************************************************************)
(* What the server does with a job keeps what was true of it: a job that   *)
(* is over stays as it is, and one that exists stays.                      *)
(***************************************************************************)
Lasting ==
    /\ Server!TypeOK'
    /\ \A j \in Jobs :
          /\ status'[j] # "deleted"
          /\ status[j] # "absent" => status'[j] # "absent"
          /\ status[j] \in {"completed", "failed", "cancelled"} => status'[j] = status[j]

LEMMA ServerLasts ==
    ASSUME Inv,
           \/ UNCHANGED serverVars
           \/ \E j \in Jobs, k \in Keys : Server!Accept(j, k)
           \/ \E j \in Jobs : \/ Server!Start(j) \/ Server!Cancel(j)
                            \/ Server!Succeed(j) \/ Server!GiveUp({j})
    PROVE  Lasting
<1> USE DEF Inv, TypeOK, JobsAreKnown, Lasting, Server!TypeOK
<1>1. CASE UNCHANGED serverVars
  BY <1>1 DEF serverVars
<1>2. ASSUME NEW j \in Jobs, NEW k \in Keys, Server!Accept(j, k) PROVE Lasting
  BY <1>2 DEF Server!Accept
<1>3. ASSUME NEW j \in Jobs, Server!Start(j) PROVE Lasting
  BY <1>3 DEF Server!Start, Server!Move
<1>4. ASSUME NEW j \in Jobs, Server!Cancel(j) PROVE Lasting
  BY <1>4 DEF Server!Cancel, Server!Move
<1>5. ASSUME NEW j \in Jobs, Server!Succeed(j) PROVE Lasting
  BY <1>5 DEF Server!Succeed, Server!Move
<1>6. ASSUME NEW j \in Jobs, Server!GiveUp({j}) PROVE Lasting
  BY <1>6 DEF Server!GiveUp, Server!Move
<1> QED
  BY <1>1, <1>2, <1>3, <1>4, <1>5, <1>6

\* The server and the network leave the tab alone but for one answer.
LEMMA AnswerKeepsInv ==
    ASSUME Inv, Lasting, NEW c \in Calls, Running(c), NEW a \in Answers \ {"none"},
           NEW j \in Jobs \cup {NoJob}, Answer(c, a, j),
           UNCHANGED tabVars,
           j \in Jobs => status'[j] # "absent",
           a # "error" => /\ j \in Jobs
                          /\ call[c].fn = "cancel" => a = "cancelled"
                          /\ a \in {"completed", "failed", "cancelled"} => status'[j] = a
    PROVE  Inv'
<1>1. /\ call' \in [Calls -> CallStates]
      /\ call'[c] # Free
      /\ call'[c].fn = call[c].fn
      /\ call'[c].answer = a /\ call'[c].job = j
      /\ \A d \in Calls \ {c} : call'[d] = call[d]
  BY AnswerShape DEF Inv
<1>2. TypeOK'
  BY <1>1 DEF Inv, Lasting, TypeOK, Server!TypeOK, tabVars, selection
<1>3. JobsAreKnown'
  BY <1>1 DEF Inv, Lasting, JobsAreKnown, ProcessingShown, Running, tabVars
<1>4. AnswersStayTrue'
  <2> SUFFICES ASSUME NEW d \in Calls, Running(d)', call'[d].answer \notin {"none", "error"}
               PROVE  /\ call'[d].job \in Jobs
                      /\ call'[d].fn = "cancel" => call'[d].answer = "cancelled"
                      /\ call'[d].answer \in {"completed", "failed", "cancelled"} =>
                            status'[call'[d].job] = call'[d].answer
    BY DEF AnswersStayTrue
  <2>1. CASE d = c
    BY <1>1, <2>1
  <2>2. CASE d # c
    BY <1>1, <2>2 DEF Inv, AnswersStayTrue, Lasting, Running
  <2> QED
    BY <2>1, <2>2
<1>5. InProgressIsWatched'
  BY <1>1 DEF Inv, InProgressIsWatched, ProcessingShown, Running, tabVars
<1>6. ShownIsTrue'
  BY DEF Inv, ShownIsTrue, Lasting, tabVars
<1> QED
  BY <1>2, <1>3, <1>4, <1>5, <1>6 DEF Inv

LEMMA NetworkKeepsInv ==
    ASSUME Inv, NEW c \in Calls, Serve(c) \/ Break(c)
    PROVE  Inv'
<1>1. /\ Running(c) /\ call[c].job \in Jobs \cup {NoJob}
      /\ call[c].job \in Jobs => status[call[c].job] # "absent"
  <2>1. Running(c)
    BY DEF Serve, ServeSubmit, ServePoll, ServeCancel, Break, Unanswered
  <2> QED
    BY <2>1, CallShape DEF Inv, TypeOK, JobsAreKnown, Running
<1>2. ASSUME ServeSubmit(c) PROVE Inv'
  <2>1. UNCHANGED tabVars /\ call[c].fn = "submit"
    BY <1>2 DEF ServeSubmit
  <2>2. CASE \E j \in Server!Holders(call[c].key) :
                Answer(c, status[j], j) /\ UNCHANGED serverVars
    <3>1. PICK j \in Server!Holders(call[c].key) :
                Answer(c, status[j], j) /\ UNCHANGED serverVars
      BY <2>2
    <3>2. /\ j \in Jobs /\ status[j] \in {"pending", "processing", "completed", "cancelled"}
      BY DEF Server!Holders, Inv, TypeOK, Server!TypeOK
    <3>3. Lasting /\ status' = status
      BY <3>1, ServerLasts DEF serverVars
    <3> QED
      BY <1>1, <2>1, <3>1, <3>2, <3>3, AnswerKeepsInv DEF Answers
  <2>3. ASSUME NEW j \in Jobs, Server!Accept(j, call[c].key), Answer(c, "pending", j)
        PROVE  Inv'
    <3>1. call[c].key \in Keys
      BY <1>1, <2>1 DEF Inv, TypeOK, CallStates, Running, Free
    <3>2. Lasting /\ status'[j] # "absent"
      <4>1. Lasting
        BY <2>3, <3>1, ServerLasts
      <4> QED
        BY <2>3, <4>1 DEF Server!Accept, Inv, TypeOK, Server!TypeOK
    <3> QED
      BY <1>1, <2>1, <2>3, <3>2, AnswerKeepsInv DEF Answers
  <2> QED
    BY <1>2, <2>2, <2>3 DEF ServeSubmit
<1>3. ASSUME ServePoll(c) PROVE Inv'
  <2> DEFINE j == call[c].job
  <2>1. /\ Answer(c, IF j = NoJob THEN "error" ELSE status[j], j)
        /\ UNCHANGED <<serverVars, tabVars>> /\ call[c].fn = "poll"
    BY <1>3 DEF ServePoll
  <2>2. Lasting /\ status' = status
    BY <2>1, ServerLasts DEF serverVars
  <2>3. CASE j = NoJob
    BY <1>1, <2>1, <2>2, <2>3, AnswerKeepsInv DEF Answers, Jobs, NoJob
  <2>4. CASE j # NoJob
    <3>1. j \in Jobs /\ status[j] \in Answers \ {"none", "error"}
      BY <1>1, <2>4 DEF Inv, TypeOK, Server!TypeOK, JobsAreKnown, Answers
    <3> QED
      BY <1>1, <2>1, <2>2, <2>4, <3>1, AnswerKeepsInv
  <2> QED
    BY <2>3, <2>4
<1>4. ASSUME ServeCancel(c) PROVE Inv'
  <2> DEFINE j == call[c].job
  <2>1. UNCHANGED tabVars
    BY <1>4 DEF ServeCancel
  <2>2. CASE j # NoJob /\ status[j] = "pending"
    <3>1. Server!Cancel(j) /\ Answer(c, "cancelled", j) /\ j \in Jobs
      BY <1>1, <1>4, <2>2 DEF ServeCancel
    <3>2. Lasting
      BY <3>1, ServerLasts
    <3>3. status'[j] = "cancelled"
      BY <3>1 DEF Server!Cancel, Server!Move
    <3> QED
      BY <1>1, <2>1, <3>1, <3>2, <3>3, AnswerKeepsInv DEF Answers
  <2>3. CASE ~(j # NoJob /\ status[j] = "pending")
    <3>1. Answer(c, "error", j) /\ UNCHANGED serverVars
      BY <1>4, <2>3 DEF ServeCancel
    <3>2. Lasting /\ status' = status
      BY <3>1, ServerLasts DEF serverVars
    <3> QED
      BY <1>1, <2>1, <3>1, <3>2, AnswerKeepsInv DEF Answers
  <2> QED
    BY <2>2, <2>3
<1>5. ASSUME Break(c) PROVE Inv'
  <2>1. PICK j \in {NoJob, call[c].job} : Answer(c, "error", j)
    BY <1>5 DEF Break
  <2>2. Lasting /\ status' = status /\ UNCHANGED tabVars
    BY <1>5, ServerLasts DEF Break, serverVars
  <2>3. j \in Jobs \cup {NoJob} /\ (j \in Jobs => status'[j] # "absent")
    BY <1>1, <2>1, <2>2 DEF Jobs, NoJob
  <2> QED
    BY <1>1, <2>1, <2>2, <2>3, AnswerKeepsInv DEF Answers
<1> QED
  BY <1>2, <1>3, <1>4, <1>5 DEF Serve

LEMMA WorkKeepsInv ==
    ASSUME Inv, Work
    PROVE  Inv'
<1>1. Lasting
  BY ServerLasts DEF Work
<1>2. UNCHANGED <<tabVars, call>>
  BY DEF Work
<1>3. TypeOK' /\ InProgressIsWatched'
  BY <1>1, <1>2
  DEF Inv, Lasting, TypeOK, Server!TypeOK, InProgressIsWatched, ProcessingShown, Running,
      tabVars, selection
<1>4. JobsAreKnown' /\ ShownIsTrue'
  BY <1>1, <1>2
  DEF Inv, Lasting, JobsAreKnown, ShownIsTrue, ProcessingShown, Running, tabVars
<1>5. AnswersStayTrue'
  BY <1>1, <1>2 DEF Inv, Lasting, AnswersStayTrue, Running
<1> QED
  BY <1>3, <1>4, <1>5 DEF Inv

-----------------------------------------------------------------------------
(* The user *)

\* Leaving a result, or cancelling: what became of the calls.
LEMMA StartCalls ==
    ASSUME Inv, NEW before \in [Calls -> CallStates],
           \A d \in Calls : before[d] \in {call[d], Free},
           NEW S \in SUBSET Calls, NEW x \in CallStates, x # Free, x.answer = "none",
           x.job \in Jobs => status[x.job] # "absent",
           call' = [d \in Calls |-> IF d \in S THEN x ELSE before[d]],
           UNCHANGED serverVars
    PROVE  /\ call' \in [Calls -> CallStates]
           /\ \A d \in Calls : Running(d)' /\ call'[d].job \in Jobs
                                 => status'[call'[d].job] # "absent"
           /\ AnswersStayTrue'
           /\ \A d \in S : Running(d)'
<1>1. call' \in [Calls -> CallStates] /\ \A d \in S : Running(d)'
  BY DEF Running
<1>2. UNCHANGED status
  BY DEF serverVars
<1>3. \A d \in Calls : Running(d)' /\ call'[d].job \in Jobs
                        => status'[call'[d].job] # "absent"
  BY <1>2 DEF Inv, JobsAreKnown, Running
<1>4. AnswersStayTrue'
  BY <1>2 DEF Inv, AnswersStayTrue, Running
<1> QED
  BY <1>1, <1>3, <1>4

LEMMA UserKeepsInv ==
    ASSUME Inv, User
    PROVE  Inv'
<1>1. ASSUME /\ UNCHANGED <<serverVars, lastKey, submission, call, timer, cancels>>
             /\ person' \in Choice /\ garment' \in Choice
             /\ category' \in Choice \ {"none"}
      PROVE  Inv'
  <2>1. TypeOK' /\ InProgressIsWatched' /\ ShownIsTrue'
    BY <1>1 DEF Inv, TypeOK, Server!TypeOK, InProgressIsWatched, ShownIsTrue,
                ProcessingShown, Running, serverVars
  <2>2. JobsAreKnown' /\ AnswersStayTrue'
    BY <1>1 DEF Inv, JobsAreKnown, AnswersStayTrue, ProcessingShown, Running, serverVars
  <2> QED
    BY <2>1, <2>2 DEF Inv
<1>2. CASE PickPerson \/ PickGarment \/ PickCategory
  BY <1>1, <1>2 DEF PickPerson, PickGarment, PickCategory, Choice, Inv, TypeOK
<1>3. ASSUME /\ submission' = Idle
             /\ call' = call \/ call' = StopPolling(call)
             /\ timer' \in Calls \cup {NoCall}
             /\ person' \in Choice /\ garment' \in Choice
             /\ category' \in Choice \ {"none"}
             /\ UNCHANGED <<serverVars, lastKey, cancels>>
      PROVE  Inv'
  <2>1. call' \in [Calls -> CallStates] /\ \A d \in Calls : call'[d] \in {call[d], Free}
    BY <1>3, StopPollingShape DEF Inv, TypeOK
  <2>2. submission' \in Screens /\ submission'.status = "idle"
    BY <1>3, ScreenShape
  <2>3. TypeOK'
    BY <1>3, <2>1, <2>2 DEF Inv, TypeOK, Server!TypeOK, serverVars
  <2>4. InProgressIsWatched' /\ ShownIsTrue'
    BY <2>2 DEF InProgressIsWatched, ShownIsTrue, ProcessingShown, ShownStatus
  <2>5. JobsAreKnown' /\ AnswersStayTrue'
    BY <1>3, <2>1, <2>2
    DEF Inv, JobsAreKnown, AnswersStayTrue, ProcessingShown, ShownStatus, Running, serverVars
  <2> QED
    BY <2>3, <2>4, <2>5 DEF Inv
<1>4. CASE DismissError
  BY <1>3, <1>4 DEF DismissError, selection, Inv, TypeOK
<1>5. CASE TryAnother
  BY <1>3, <1>5 DEF TryAnother, Choice
<1>6. CASE ChangeClothing
  BY <1>3, <1>6 DEF ChangeClothing, Choice, Inv, TypeOK
<1>7. CASE Submit
  <2> DEFINE x == Submitting(IdempotencyKey)
  <2>1. PICK S \in SUBSET Calls, taps \in 1 .. MaxTaps :
          /\ Starting(S, taps)
          /\ call' = [c \in Calls |-> IF c \in S THEN x ELSE call[c]]
    BY <1>7 DEF Submit
  <2>2. S # {}
    BY <2>1, FS_EmptySet, FlowAssumption DEF Starting
  <2>3. /\ x \in CallStates /\ x # Free /\ x.answer = "none" /\ x.job \notin Jobs
        /\ lastKey' \in Keys
    BY <1>7, StartShape DEF Submit, Jobs, NoJob
  <2>4. /\ submission' \in Screens /\ submission'.status = "pending"
        /\ submission'.job \notin Jobs
    BY <1>7, ScreenShape DEF Submit, ShownStatus, Jobs, NoJob
  <2>5. /\ UNCHANGED <<serverVars, timer, cancels>>
        /\ person' = "cached" /\ garment' = "cached" /\ category' = "cached"
    BY <1>7 DEF Submit
  <2>6. /\ call' \in [Calls -> CallStates]
        /\ \A d \in Calls : Running(d)' /\ call'[d].job \in Jobs
                              => status'[call'[d].job] # "absent"
        /\ AnswersStayTrue'
        /\ \A d \in S : Running(d)'
    BY <2>1, <2>3, <2>5, StartCalls DEF Inv, TypeOK
  <2>7. TypeOK'
    BY <2>3, <2>4, <2>5, <2>6 DEF Inv, TypeOK, Server!TypeOK, Choice, serverVars
  <2>8. InProgressIsWatched' /\ ShownIsTrue'
    BY <2>2, <2>4, <2>6 DEF InProgressIsWatched, ShownIsTrue
  <2>9. JobsAreKnown'
    BY <2>4, <2>5, <2>6 DEF Inv, JobsAreKnown, serverVars
  <2> QED
    BY <2>6, <2>7, <2>8, <2>9 DEF Inv
<1>8. CASE CancelTap
  <2> DEFINE x == Cancelling(submission.job, submission.status)
  <2>1. PICK c \in Calls : call' = [StopPolling(call) EXCEPT ![c] = x]
    BY <1>8 DEF CancelTap
  <2>2. /\ StopPolling(call) \in [Calls -> CallStates]
        /\ \A d \in Calls : StopPolling(call)[d] \in {call[d], Free}
    BY StopPollingShape DEF Inv
  <2>3. call' = [d \in Calls |-> IF d \in {c} THEN x ELSE StopPolling(call)[d]]
    BY <2>1, <2>2
  <2>4. ProcessingShown /\ submission.job \in Jobs \cup {NoJob}
    <3>1. ProcessingShown /\ submission \in Screens
      BY <1>8 DEF CancelTap, Inv, TypeOK
    <3> QED
      BY <3>1 DEF Screens, ProcessingShown, ShownStatus, Idle, InFlight, Completed, Failed
  <2>5. /\ x \in CallStates /\ x # Free /\ x.answer = "none" /\ x.job = submission.job
    BY <2>4, StartShape DEF ProcessingShown
  <2>6. x.job \in Jobs => status[x.job] # "absent"
    BY <2>4, <2>5 DEF Inv, JobsAreKnown
  <2>7. /\ UNCHANGED <<serverVars, selection, lastKey, submission>>
        /\ timer' = NoCall /\ cancels' \in 0 .. MaxCancels
    BY <1>8, FlowAssumption DEF CancelTap, Inv, TypeOK
  <2>8. /\ call' \in [Calls -> CallStates]
        /\ \A d \in Calls : Running(d)' /\ call'[d].job \in Jobs
                              => status'[call'[d].job] # "absent"
        /\ AnswersStayTrue'
        /\ \A d \in {c} : Running(d)'
    <3> HIDE DEF x
    <3>1. UNCHANGED serverVars /\ {c} \in SUBSET Calls
      BY <2>7
    <3> QED
      BY <2>2, <2>3, <2>5, <2>6, <3>1, StartCalls
  <2>9. TypeOK'
    BY <2>7, <2>8 DEF Inv, TypeOK, Server!TypeOK, serverVars, selection
  <2>10. InProgressIsWatched' /\ ShownIsTrue' /\ JobsAreKnown'
    BY <2>7, <2>8
    DEF Inv, InProgressIsWatched, ShownIsTrue, JobsAreKnown, ProcessingShown, serverVars
  <2> QED
    BY <2>8, <2>9, <2>10 DEF Inv
<1> QED
  BY <1>2, <1>4, <1>5, <1>6, <1>7, <1>8 DEF User

-----------------------------------------------------------------------------
LEMMA InvHolds == Spec => []Inv
<1>1. Init => Inv
  <2> SUFFICES ASSUME Init PROVE Inv
    OBVIOUS
  <2>1. submission \in Screens /\ submission.status = "idle"
    BY ScreenShape DEF Init
  <2>2. TypeOK
    BY <2>1, FlowAssumption
    DEF Init, Server!Init, TypeOK, Server!TypeOK, Choice, CallStates
  <2>3. \A c \in Calls : ~Running(c)
    BY DEF Init, Running
  <2>4. JobsAreKnown
    BY <2>1, <2>3 DEF Init, Server!Init, JobsAreKnown, ProcessingShown, ShownStatus
  <2>5. AnswersStayTrue /\ InProgressIsWatched /\ ShownIsTrue
    BY <2>1, <2>3
    DEF AnswersStayTrue, InProgressIsWatched, ShownIsTrue, ProcessingShown, ShownStatus
  <2> QED
    BY <2>2, <2>4, <2>5 DEF Inv
<1>2. Inv /\ [Next]_vars => Inv'
  <2> SUFFICES ASSUME Inv, [Next]_vars PROVE Inv'
    OBVIOUS
  <2>1. CASE User
    BY <2>1, UserKeepsInv
  <2>2. CASE Work
    BY <2>2, WorkKeepsInv
  <2>3. ASSUME NEW c \in Calls, Serve(c) \/ Continue(c) \/ GrowsLate(c) \/ Break(c)
        PROVE  Inv'
    BY <2>3, NetworkKeepsInv, LoopKeepsInv, SubmitAnsweredKeepsInv, PollAnsweredKeepsInv,
       CancelAnsweredKeepsInv DEF Continue
  <2>4. CASE UNCHANGED vars
    <3>1. TypeOK' /\ JobsAreKnown'
      BY <2>4 DEF Inv, TypeOK, Server!TypeOK, JobsAreKnown, ProcessingShown, Running, vars,
                  serverVars, selection
    <3>2. AnswersStayTrue' /\ InProgressIsWatched' /\ ShownIsTrue'
      BY <2>4 DEF Inv, AnswersStayTrue, InProgressIsWatched, ShownIsTrue, ProcessingShown,
                  Running, vars, serverVars
    <3> QED
      BY <3>1, <3>2 DEF Inv
  <2> QED
    BY <2>1, <2>2, <2>3, <2>4 DEF Next
<1> QED
  BY <1>1, <1>2, PTL DEF Spec

\* The tab and the jobs it knows stay in their types.
THEOREM TypeCorrect == Spec => []TypeOK
<1>1. Inv => TypeOK
  BY DEF Inv
<1> QED
  BY <1>1, InvHolds, PTL

(***************************************************************************)
(* The screen is never stuck: what ends a call also replaces the screen,   *)
(* and the one exception, a timer that stopPolling clears, is followed by  *)
(* another call or by the home screen.                                     *)
(***************************************************************************)
THEOREM InProgressIsWatchedHolds == Spec => []InProgressIsWatched
<1>1. Inv => InProgressIsWatched
  BY DEF Inv
<1> QED
  BY <1>1, InvHolds, PTL

(***************************************************************************)
(* A final screen is true of its job: an answer that says a job is over    *)
(* stays true however late it arrives, because nothing leaves a final      *)
(* status, and only such answers lead to a final screen about a job.       *)
(***************************************************************************)
THEOREM ShownIsTrueHolds == Spec => []ShownIsTrue
<1>1. Inv => ShownIsTrue
  BY DEF Inv
<1> QED
  BY <1>1, InvHolds, PTL

=============================================================================

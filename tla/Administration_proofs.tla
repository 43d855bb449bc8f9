------------------------- MODULE Administration_proofs -------------------------
(***************************************************************************)
(* For any numbers of accounts, links and workers.                         *)
(***************************************************************************)
EXTENDS Administration, TLAPS

-----------------------------------------------------------------------------
\* The shape of a transaction follows from the step it is at.
LEMMA Shapes ==
    ASSUME NEW t \in Transactions
    PROVE  /\ t.at \in {"deleting", "sending", "committing"} => t \in Issuing
           /\ t.at = "resetting" => t \in Resetting
           /\ t.at = "setting" => t \in SettingActive
           /\ t.at = "planning" => t \in UpdatingPlan
           /\ t \in Issuing => t.at \in {"deleting", "sending", "committing"}
           /\ t # Idle <=> t.at # "idle"
  BY DEF Transactions, Idle, Issuing, Resetting, SettingActive, UpdatingPlan

\* Forgot-password moves from step to step with its account and its link.
LEMMA IssuingStep ==
    ASSUME NEW t \in Issuing, NEW at \in {"deleting", "sending", "committing"}
    PROVE  [t EXCEPT !.at = at] \in Issuing
  BY DEF Issuing

\* Deleting an account leaves the log a log of the same length.
LEMMA UnlinkTypes ==
    ASSUME log \in Seq(UserEntry \cup PlanEntry), NEW a, Unlink(a)
    PROVE  log' \in Seq(UserEntry \cup PlanEntry) /\ Len(log') = Len(log)
<1>1. \A e \in UserEntry \cup PlanEntry :
         [e EXCEPT !.actor = NoAccount] \in UserEntry \cup PlanEntry
  BY DEF UserEntry, PlanEntry, Actors
<1>2. \A i \in 1 .. Len(log) :
         (IF log[i].actor = a THEN [log[i] EXCEPT !.actor = NoAccount]
                              ELSE log[i]) \in UserEntry \cup PlanEntry
  BY <1>1
<1>3. /\ DOMAIN log = 1 .. Len(log)
      /\ log' \in [1 .. Len(log) -> UserEntry \cup PlanEntry]
  BY <1>2 DEF Unlink
<1>. QED
  BY <1>3

\* Only a link that has not been issued lacks an account.
OpenIsOwned == \A l \in Links : link[l] = "open" => linkOf[l] # NoAccount

\* Every step keeps the tables, the transactions and the log in their types.
THEOREM TypeCorrect == Spec => []TypeOK
<1>. USE AccountsAssumption, LimitsAssumption DEF TypeOK
<1>1. Init => TypeOK /\ OpenIsOwned
  BY DEF Init, AccountsInit, Versions, Actors, Transactions, OpenIsOwned
<1>2. TypeOK /\ OpenIsOwned /\ [Next]_vars => TypeOK'
  <2>. SUFFICES ASSUME TypeOK, OpenIsOwned, [Next]_vars PROVE TypeOK'
    OBVIOUS
  <2>. USE DEF userVars, linkVars
  <2>1. CASE UNCHANGED vars
    BY <2>1 DEF vars, accountVars
  <2>2. CASE AccountStep /\ UNCHANGED <<limits, log, script>>
    <3>1. ASSUME NEW w \in Workers, NEW a \in Accounts,
                 Signup(w, a) \/ Login(w, a)
          PROVE  TypeOK'
      <4>1. sessions' \in [Accounts -> SUBSET Versions]
        <5>1. {version[a]} \in SUBSET Versions
                /\ sessions[a] \cup {version[a]} \in SUBSET Versions
          OBVIOUS
        <5>2. sessions' = [sessions EXCEPT ![a] = {version[a]}]
                \/ sessions' = [sessions EXCEPT ![a] = @ \cup {version[a]}]
          BY <3>1 DEF Signup, Login
        <5>. QED
          BY <5>1, <5>2
      <4>. QED
        BY <2>2, <3>1, <4>1 DEF Signup, Login
    <3>2. ASSUME NEW w \in Workers, NEW a \in Accounts, BeginForgot(w, a)
          PROVE  TypeOK'
      BY <2>2, <3>2 DEF BeginForgot, Outstanding, Transactions, Issuing
    <3>3. ASSUME NEW w \in Workers, LockOldLinks(w) PROVE TypeOK'
      <4>1. txn[w] \in Issuing
        BY <3>3, Shapes DEF LockOldLinks
      <4>2. [at |-> "sending", account |-> txn[w].account, link |-> txn[w].link,
             drops |-> {l \in txn[w].drops : link[l] = "open"}] \in Issuing
        BY <4>1 DEF Issuing
      <4>. QED
        BY <2>2, <3>3, <4>2 DEF LockOldLinks, Transactions
    <3>4. ASSUME NEW w \in Workers, MailAccepted(w) PROVE TypeOK'
      <4>1. txn[w] \in Issuing
        BY <3>4, Shapes DEF MailAccepted
      <4>2. [txn[w] EXCEPT !.at = "committing"] \in Issuing
        BY <4>1, IssuingStep
      <4>. QED
        BY <2>2, <3>4, <4>1, <4>2 DEF MailAccepted, Transactions, Issuing
    <3>5. ASSUME NEW w \in Workers, MailFails(w) PROVE TypeOK'
      <4>1. txn[w] \in Issuing
        BY <3>5, Shapes DEF MailFails
      <4>. QED
        BY <2>2, <3>5, <4>1 DEF MailFails, Transactions, Issuing
    <3>6. ASSUME NEW w \in Workers, CommitForgot(w) PROVE TypeOK'
      <4>1. txn[w] \in Issuing
        BY <3>6, Shapes DEF CommitForgot
      <4>. QED
        BY <2>2, <3>6, <4>1 DEF CommitForgot, Transactions, Issuing, Actors
    <3>7. ASSUME NEW w \in Workers, CommitReset(w) PROVE TypeOK'
      <4>1. txn[w] \in Resetting
        BY <3>7, Shapes DEF CommitReset
      <4>2. txn[w].read + 1 \in Versions
        BY <4>1 DEF Resetting, Versions
      <4>. QED
        BY <2>2, <3>7, <4>1, <4>2 DEF CommitReset, Transactions, Resetting
    <3>8. ASSUME NEW w \in Workers, Abort(w) PROVE TypeOK'
      BY <2>2, <3>8 DEF Abort, Transactions
    <3>9. ASSUME NEW w \in Workers, NEW l \in Links, BeginReset(w, l)
          PROVE  TypeOK'
      <4>1. linkOf[l] \in Accounts
        BY <3>9 DEF BeginReset, Usable, OpenIsOwned, Actors
      <4>2. version[linkOf[l]] \in 1 .. MaxVersion - 1
        BY <3>9, <4>1 DEF BeginReset, Versions
      <4>. QED
        BY <2>2, <3>9, <4>1, <4>2 DEF BeginReset, Transactions, Resetting
    <3>10. ASSUME NEW l \in Links, LinkExpires(l) PROVE TypeOK'
      BY <2>2, <3>10 DEF LinkExpires
    <3>11. CASE Purge
      BY <2>2, <3>11 DEF Purge
    <3>12. ASSUME NEW a \in Accounts, AskDelete(a) PROVE TypeOK'
      BY <2>2, <3>12 DEF AskDelete, Request
    <3>13. ASSUME NEW w \in Workers, NEW r \in held, DeleteRefused(w, r)
           PROVE  TypeOK'
      BY <2>2, <3>13 DEF DeleteRefused
    <3>. QED
      BY <2>2, <3>1, <3>2, <3>3, <3>4, <3>5, <3>6, <3>7, <3>8, <3>9, <3>10,
         <3>11, <3>12, <3>13 DEF AccountStep
  <2>3. CASE Deletion
    BY <2>3, UnlinkTypes DEF Deletion, DeleteAccount
  <2>4. CASE AdminStep
    <3>1. CASE AskAdmin
      BY <3>1 DEF AskAdmin, Ask, Request
    <3>2. ASSUME NEW w \in Workers, NEW r \in held,
                 BeginSetActive(w, r) \/ SetActiveRefused(w, r)
                   \/ BeginUpdatePlan(w, r)
          PROVE  TypeOK'
      <4>1. CASE BeginSetActive(w, r)
        <5>1. r \in [op : {"delete", "disable", "enable"}, actor : Accounts,
                     target : Accounts]
          BY <4>1 DEF BeginSetActive, Request
        <5>2. [at |-> "setting", actor |-> r.actor, account |-> r.target,
               loaded |-> active[r.target], value |-> (r.op = "enable")]
                \in SettingActive
          BY <5>1 DEF SettingActive
        <5>. QED
          BY <4>1, <5>2 DEF BeginSetActive, Transactions
      <4>2. CASE SetActiveRefused(w, r)
        BY <4>2 DEF SetActiveRefused
      <4>3. CASE BeginUpdatePlan(w, r)
        <5>1. r \in [op : {"plan"}, actor : Accounts, target : Limits]
          BY <4>3 DEF BeginUpdatePlan, Request
        <5>2. [at |-> "planning", actor |-> r.actor, before |-> limits,
               after |-> r.target] \in UpdatingPlan
          BY <5>1 DEF UpdatingPlan
        <5>. QED
          BY <4>3, <5>2 DEF BeginUpdatePlan, Transactions
      <4>. QED
        BY <3>2, <4>1, <4>2, <4>3
    <3>3. ASSUME NEW w \in Workers, CommitSetActive(w) PROVE TypeOK'
      <4>1. txn[w] \in SettingActive
        BY <3>3, Shapes DEF CommitSetActive
      <4>2. [action |-> IF txn[w].value THEN "enabled" ELSE "disabled",
             actor |-> txn[w].actor, target |-> txn[w].account]
              \in UserEntry \cup PlanEntry
        BY <4>1 DEF SettingActive, UserEntry, Actors
      <4>. QED
        BY <3>3, <4>1, <4>2 DEF CommitSetActive, Transactions, SettingActive
    <3>4. ASSUME NEW w \in Workers, CommitUpdatePlan(w) PROVE TypeOK'
      <4>1. txn[w] \in UpdatingPlan
        BY <3>4, Shapes DEF CommitUpdatePlan
      <4>2. [action |-> "plan", actor |-> txn[w].actor,
             before |-> txn[w].before, after |-> txn[w].after]
              \in UserEntry \cup PlanEntry
        BY <4>1 DEF UpdatingPlan, PlanEntry, Actors
      <4>. QED
        BY <3>4, <4>1, <4>2 DEF CommitUpdatePlan, Transactions, UpdatingPlan
    <3>5. ASSUME NEW a \in Accounts, BeginPromote(a) PROVE TypeOK'
      BY <3>5 DEF BeginPromote, accountVars, Actors
    <3>6. CASE CommitPromote
      <4>1. script \in Accounts
        BY <3>6 DEF CommitPromote, Actors
      <4>2. [action |-> "promoted", actor |-> NoAccount, target |-> script]
              \in UserEntry \cup PlanEntry
        BY <4>1 DEF UserEntry, Actors
      <4>. QED
        BY <3>6, <4>1, <4>2 DEF CommitPromote, Actors
    <3>7. CASE AbortPromote
      BY <3>7 DEF AbortPromote, accountVars, Actors
    <3>. QED
      BY <2>4, <3>1, <3>2, <3>3, <3>4, <3>5, <3>6, <3>7 DEF AdminStep
  <2>. QED
    BY <2>1, <2>2, <2>3, <2>4 DEF Next
<1>3. TypeOK /\ OpenIsOwned /\ [Next]_vars => OpenIsOwned'
  <2>. SUFFICES ASSUME TypeOK, OpenIsOwned, [Next]_vars PROVE OpenIsOwned'
    OBVIOUS
  <2>. USE DEF userVars, linkVars, OpenIsOwned
  <2>1. ASSUME NEW w \in Workers, CommitForgot(w) PROVE OpenIsOwned'
    <3>1. txn[w] \in Issuing
      BY <2>1, Shapes DEF CommitForgot
    <3>. QED
      BY <2>1, <3>1 DEF CommitForgot, Issuing
  <2>2. CASE link' = link /\ linkOf' = linkOf
    BY <2>2
  <2>3. ASSUME NEW w \in Workers, CommitReset(w) PROVE OpenIsOwned'
    BY <2>3 DEF CommitReset
  <2>4. CASE Purge
    BY <2>4 DEF Purge
  <2>5. CASE Deletion
    BY <2>5 DEF Deletion, DeleteAccount
  <2>6. CASE AdminStep
    BY <2>6, <2>2 DEF AdminStep, AskAdmin, Ask, BeginSetActive, SetActiveRefused,
       BeginUpdatePlan, CommitSetActive, CommitUpdatePlan, BeginPromote,
       CommitPromote, AbortPromote, accountVars
  <2>7. CASE AccountStep
    BY <2>7, <2>1, <2>2, <2>3, <2>4 DEF AccountStep, Signup, Login, BeginForgot,
       LockOldLinks, MailAccepted, MailFails, Abort, BeginReset, LinkExpires,
       AskDelete, DeleteRefused
  <2>. QED
    BY <2>2, <2>5, <2>6, <2>7 DEF Next, vars, accountVars
<1>. QED
  BY <1>1, <1>2, <1>3, PTL DEF Spec

-----------------------------------------------------------------------------
(***************************************************************************)
(* Links.  LinkInv relates the transactions of all workers to the rows they*)
(* have read: a link being issued is not in the table and no other worker  *)
(* issues it; a link being claimed is open, claimed by one worker, and in  *)
(* the DELETE of none that got through; a link that can still be claimed   *)
(* has set no password.                                                    *)
(***************************************************************************)
Issues(w) == txn[w].at \in {"deleting", "sending", "committing"}
HasDeleted(w) == txn[w].at \in {"sending", "committing"}
Resets(w) == txn[w].at = "resetting"

IssuedIsFresh ==
    /\ \A w \in Workers : Issues(w) => link[txn[w].link] = "unissued"
    /\ \A v, w \in Workers :
          Issues(v) /\ Issues(w) /\ txn[v].link = txn[w].link => v = w

ClaimedIsOpen ==
    /\ \A w \in Workers : Resets(w) => /\ link[txn[w].link] = "open"
                                       /\ linkOf[txn[w].link] = txn[w].account
    /\ \A v, w \in Workers :
          Resets(v) /\ Resets(w) /\ txn[v].link = txn[w].link => v = w
    /\ \A v, w \in Workers :
          HasDeleted(v) /\ Resets(w) => txn[w].link \notin txn[v].drops

DroppedWereIssued ==
    \A w \in Workers : Issues(w) =>
        \A l \in txn[w].drops : /\ link[l] # "unissued"
                                /\ linkOf[l] = txn[w].account

UnissuedHasNoAccount ==
    \A l \in Links : link[l] = "unissued" => linkOf[l] = NoAccount

ClaimableIsUnused ==
    \A l \in Links : /\ honoured[l] <= 1
                     /\ link[l] \in {"unissued", "open"} => honoured[l] = 0

MailedBeforeCommit ==
    /\ \A w \in Workers : txn[w].at = "committing" => txn[w].link \in mailed
    /\ OpenLinkWasMailed

LinkInv ==
    /\ IssuedIsFresh
    /\ ClaimedIsOpen
    /\ DroppedWereIssued
    /\ UnissuedHasNoAccount
    /\ ClaimableIsUnused
    /\ MailedBeforeCommit

\* LinkInv is inductive.
LEMMA LinkInvHolds == Spec => []LinkInv
<1>. USE AccountsAssumption
<1>. USE DEF userVars, linkVars, Issues, HasDeleted, Resets, IssuedIsFresh,
             ClaimedIsOpen, DroppedWereIssued, UnissuedHasNoAccount,
             ClaimableIsUnused, MailedBeforeCommit, OpenLinkWasMailed, LinkInv
<1>1. Init => LinkInv
  BY DEF Init, AccountsInit, Idle
<1>2. TypeOK /\ LinkInv /\ [Next]_vars => LinkInv'
  <2>. SUFFICES ASSUME TypeOK, LinkInv, [Next]_vars PROVE LinkInv'
    OBVIOUS
  <2>. /\ txn \in [Workers -> Transactions] /\ link \in [Links -> {"unissued", "open", "used", "gone"}]
       /\ linkOf \in [Links -> Actors] /\ honoured \in [Links -> Nat]
    BY DEF TypeOK
  <2>1. CASE UNCHANGED <<link, linkOf, mailed, honoured, txn>>
    BY <2>1
  <2>2. ASSUME NEW w \in Workers, NEW a \in Accounts, BeginForgot(w, a)
        PROVE  LinkInv'
    BY <2>2 DEF BeginForgot, Outstanding, Free, Idle
  <2>3. ASSUME NEW w \in Workers, LockOldLinks(w) PROVE LinkInv'
    BY <2>3, Shapes DEF LockOldLinks, LockedByOthers, Locks, Issuing
  <2>4. ASSUME NEW w \in Workers, MailAccepted(w) PROVE LinkInv'
    BY <2>4, Shapes DEF MailAccepted, Issuing
  <2>5. ASSUME NEW w \in Workers, MailFails(w) \/ Abort(w) PROVE LinkInv'
    BY <2>5 DEF MailFails, Abort, Idle
  <2>6. ASSUME NEW w \in Workers, CommitForgot(w) PROVE LinkInv'
    <3>1. /\ txn[w] \in Issuing /\ txn[w].link \in Links
          /\ link[txn[w].link] = "unissued" /\ txn[w].link \in mailed
      BY <2>6, Shapes DEF CommitForgot, Issuing
    <3>2. /\ txn' = [txn EXCEPT ![w] = Idle] /\ mailed' = mailed
          /\ honoured' = honoured
          /\ linkOf' = [linkOf EXCEPT ![txn[w].link] = txn[w].account]
          /\ \A l \in Links : link'[l] = IF l = txn[w].link THEN "open"
                                         ELSE IF l \in txn[w].drops THEN "gone"
                                         ELSE link[l]
      BY <2>6 DEF CommitForgot
    <3>3. \A v \in Workers \ {w} : txn'[v] = txn[v]
      BY <3>2
    <3>4. txn'[w].at = "idle"
      BY <3>2 DEF Idle
    <3>5. \A v \in Workers : Issues(v) => txn[v].link \in Links
                                       /\ txn[v].drops \subseteq Links
      BY Shapes DEF Issuing
    <3>6. \A v \in Workers : Resets(v) => txn[v].link \in Links
      BY Shapes DEF Resetting
    <3>7. IssuedIsFresh'
      BY <2>6, <3>1, <3>2, <3>3, <3>4, <3>5 DEF CommitForgot
    <3>8. ClaimedIsOpen'
      BY <2>6, <3>1, <3>2, <3>3, <3>4, <3>6 DEF CommitForgot
    <3>9. DroppedWereIssued'
      BY <3>1, <3>2, <3>3, <3>4, <3>5
    <3>10. UnissuedHasNoAccount' /\ ClaimableIsUnused'
      BY <3>1, <3>2
    <3>11. MailedBeforeCommit'
      BY <3>1, <3>2, <3>3, <3>4
    <3>. QED
      BY <3>7, <3>8, <3>9, <3>10, <3>11
  <2>7. ASSUME NEW w \in Workers, CommitReset(w) PROVE LinkInv'
    BY <2>7, Shapes DEF CommitReset, Idle, Resetting
  <2>8. ASSUME NEW w \in Workers, NEW l \in Links, BeginReset(w, l)
        PROVE  LinkInv'
    BY <2>8 DEF BeginReset, Usable, LockedByOthers, Locks, Free, Idle
  <2>9. CASE Purge
    <3>1. \A l \in Links : link'[l] = link[l] \/ link'[l] = "gone"
      BY <2>9 DEF Purge
    <3>2. ASSUME NEW w \in Workers, Resets(w) PROVE link'[txn[w].link] = "open"
      <4>1. txn[w].link \in Links
        BY <3>2, Shapes DEF Resetting
      <4>2. Locks(w) = {txn[w].link}
        BY <3>2 DEF Locks
      <4>. QED
        BY <2>9, <3>2, <4>1, <4>2 DEF Purge
    <3>3. ASSUME NEW w \in Workers, Issues(w)
          PROVE  link'[txn[w].link] = "unissued"
      <4>1. txn[w].link \in Links
        BY <3>3, Shapes DEF Issuing
      <4>. QED
        BY <2>9, <3>3, <4>1 DEF Purge
    <3>4. \A w \in Workers : Issues(w) => txn[w].drops \subseteq Links
      BY Shapes DEF Issuing
    <3>5. UNCHANGED <<txn, linkOf, mailed, honoured>>
      BY <2>9 DEF Purge
    <3>. QED
      BY <3>1, <3>2, <3>3, <3>4, <3>5
  <2>10. ASSUME NEW w \in Workers, NEW r \in held, DeleteAccount(w, r)
         PROVE  LinkInv'
    <3>1. r.actor \in Accounts
      BY <2>10 DEF TypeOK, Request
    <3>. QED
      BY <2>10, <3>1, Shapes DEF DeleteAccount, Pinned, Issuing, Resetting
  <2>11. ASSUME NEW w \in Workers,
                \/ \E r \in held : BeginSetActive(w, r) \/ BeginUpdatePlan(w, r)
                \/ CommitSetActive(w)
                \/ CommitUpdatePlan(w)
         PROVE  LinkInv'
    <3>1. UNCHANGED <<link, linkOf, mailed, honoured>>
      BY <2>11 DEF BeginSetActive, BeginUpdatePlan, CommitSetActive,
                   CommitUpdatePlan
    <3>2. /\ \A v \in Workers \ {w} : txn'[v] = txn[v]
          /\ txn'[w].at \in {"setting", "planning", "idle"}
      BY <2>11 DEF BeginSetActive, BeginUpdatePlan, CommitSetActive,
                   CommitUpdatePlan, Idle
    <3>. QED
      BY <3>1, <3>2
  <2>12. CASE AccountStep
    BY <2>1, <2>2, <2>3, <2>4, <2>5, <2>6, <2>7, <2>8, <2>9, <2>12
       DEF AccountStep, Signup, Login, LinkExpires, AskDelete, DeleteRefused
  <2>13. CASE AdminStep
    BY <2>1, <2>11, <2>13
       DEF AdminStep, AskAdmin, Ask, SetActiveRefused, BeginPromote,
           CommitPromote, AbortPromote, accountVars
  <2>. QED
    BY <2>1, <2>10, <2>12, <2>13 DEF Next, Deletion, vars, accountVars
<1>. QED
  BY <1>1, <1>2, TypeCorrect, PTL DEF Spec

\* No link ever sets a second password, whatever the number of workers and
\* however their transactions interleave.
THEOREM LinkHonouredOnceHolds == Spec => []LinkHonouredOnce
<1>1. LinkInv => LinkHonouredOnce
  BY DEF LinkInv, ClaimableIsUnused, LinkHonouredOnce
<1>. QED
  BY <1>1, LinkInvHolds, PTL

\* A link the database honours has been mailed.
THEOREM OpenLinkWasMailedHolds == Spec => []OpenLinkWasMailed
<1>1. LinkInv => OpenLinkWasMailed
  BY DEF LinkInv, MailedBeforeCommit
<1>. QED
  BY <1>1, LinkInvHolds, PTL

\* A usable link is only lost to its use, to a mailed successor, or with its
\* account: of all steps only those that commit forgot-password, purge or
\* delete an account remove links.
THEOREM LinkLostToSuccessorHolds == Spec => LinkLostToSuccessor
<1>. DEFINE Kept(l) ==
        \/ link'[l] \in {"open", "used"}
        \/ row'[linkOf[l]] = "deleted"
        \/ \E m \in mailed : /\ link[m] # "open" /\ link'[m] = "open"
                             /\ linkOf'[m] = linkOf[l]
<1>. USE DEF userVars, linkVars
<1>1. ASSUME TypeOK, LinkInv, [Next]_vars, NEW l \in Links, Usable(l)
      PROVE  Kept(l)
  <2>1. CASE UNCHANGED link
    BY <1>1, <2>1 DEF Usable
  <2>2. ASSUME NEW w \in Workers, CommitForgot(w) PROVE Kept(l)
    <3>. DEFINE m == txn[w].link
    <3>1. /\ m \in Links /\ m \in mailed /\ link[m] = "unissued"
          /\ link'[m] = "open" /\ linkOf'[m] = txn[w].account
      BY <1>1, <2>2, Shapes
         DEF CommitForgot, Issuing, LinkInv, MailedBeforeCommit, IssuedIsFresh,
             Issues, TypeOK
    <3>2. l \in txn[w].drops => linkOf[l] = txn[w].account
      BY <1>1, <2>2 DEF LinkInv, DroppedWereIssued, Issues, CommitForgot
    <3>3. l \notin txn[w].drops => link'[l] = "open"
      BY <1>1, <2>2 DEF CommitForgot, Usable
    <3>. QED
      BY <3>1, <3>2, <3>3
  <2>3. ASSUME NEW w \in Workers, CommitReset(w) PROVE Kept(l)
    BY <1>1, <2>3 DEF CommitReset, Usable, TypeOK
  <2>4. CASE Purge
    BY <1>1, <2>4 DEF Purge, Usable
  <2>5. ASSUME NEW w \in Workers, NEW r \in held, DeleteAccount(w, r)
        PROVE  Kept(l)
    <3>1. r.actor \in Accounts
      BY <1>1, <2>5 DEF TypeOK, Request
    <3>. QED
      BY <1>1, <2>5, <3>1 DEF DeleteAccount, Usable, TypeOK
  <2>6. CASE AccountStep
    BY <2>1, <2>2, <2>3, <2>4, <2>6
       DEF AccountStep, Signup, Login, BeginForgot, LockOldLinks, MailAccepted,
           MailFails, Abort, BeginReset, LinkExpires, AskDelete, DeleteRefused
  <2>7. CASE AdminStep
    BY <2>1, <2>7
       DEF AdminStep, AskAdmin, Ask, BeginSetActive, SetActiveRefused,
           BeginUpdatePlan, CommitSetActive, CommitUpdatePlan, BeginPromote,
           CommitPromote, AbortPromote, accountVars
  <2>. QED
    BY <1>1, <2>1, <2>5, <2>6, <2>7 DEF Next, Deletion, vars, accountVars
<1>2. TypeOK /\ LinkInv /\ [Next]_vars
        => [\A l \in Links : Usable(l) => Kept(l)]_vars
  BY <1>1
<1>. QED
  BY <1>2, TypeCorrect, LinkInvHolds, PTL DEF Spec, LinkLostToSuccessor

-----------------------------------------------------------------------------
(***************************************************************************)
(* With one worker nothing changes between what a handler reads and what it*)
(* writes, except for the script that promotes an account.                 *)
(***************************************************************************)
OnlyDeployed == \A w \in Workers : txn[w] # Idle => w \in deployed

OneOpenLink ==
    \A l, m \in Links : link[l] = "open" /\ link[m] = "open"
                          /\ linkOf[l] = linkOf[m] => l = m

AllOldDropped ==
    \A w \in Workers : Issues(w) => Outstanding(txn[w].account) \subseteq txn[w].drops

ReadIsCurrent ==
    \A w \in Workers : Resets(w) => txn[w].read = version[txn[w].account]

SessionsPrecede ==
    \A a \in Accounts : /\ sessions[a] \subseteq 1 .. version[a]
                        /\ revoked[a] \subseteq 1 .. version[a] - 1

AloneInv ==
    /\ OnlyDeployed
    /\ OneWorker => OneOpenLink /\ AllOldDropped /\ ReadIsCurrent
                     /\ SessionsPrecede

\* While one worker's handler is between statements no other's is.
LEMMA Alone ==
    ASSUME OnlyDeployed, OneWorker, NEW v \in Workers, NEW w \in Workers,
           w \in deployed \/ txn[w] # Idle, txn[v] # Idle
    PROVE  v = w
  BY DEF OnlyDeployed, OneWorker

\* AloneInv is inductive.
LEMMA AloneInvHolds == Spec => []AloneInv
<1>. USE AccountsAssumption
<1>. USE DEF userVars, linkVars, Issues, Resets, OneOpenLink, AllOldDropped,
             ReadIsCurrent, SessionsPrecede, Outstanding
<1>1. Init => AloneInv
  BY DEF Init, AccountsInit, Idle, AloneInv, OnlyDeployed
<1>2. TypeOK /\ [Next]_vars /\ OnlyDeployed => OnlyDeployed' /\ deployed' = deployed
  <2>. SUFFICES ASSUME TypeOK, [Next]_vars, OnlyDeployed
                PROVE  OnlyDeployed' /\ deployed' = deployed
    OBVIOUS
  <2>1. CASE UNCHANGED <<txn, deployed>>
    BY <2>1 DEF OnlyDeployed
  <2>2. ASSUME NEW w \in Workers, w \in deployed, deployed' = deployed,
               \A v \in Workers \ {w} : txn'[v] = txn[v]
        PROVE  OnlyDeployed' /\ deployed' = deployed
    BY <2>2 DEF OnlyDeployed
  <2>3. CASE AccountStep
    <3>1. ASSUME NEW w \in Workers, txn[w].at # "idle", deployed' = deployed,
                 \A v \in Workers \ {w} : txn'[v] = txn[v]
          PROVE  OnlyDeployed' /\ deployed' = deployed
      BY <3>1, <2>2 DEF OnlyDeployed, Idle
    <3>. QED
      BY <2>1, <2>2, <2>3, <3>1
         DEF TypeOK, AccountStep, Signup, Login, BeginForgot, LockOldLinks,
             MailAccepted, MailFails, CommitForgot, CommitReset, Abort,
             BeginReset, LinkExpires, Purge, AskDelete, DeleteRefused, Free,
             OnlyDeployed
  <2>4. CASE AdminStep
    BY <2>1, <2>2, <2>4
       DEF TypeOK, AdminStep, AskAdmin, Ask, BeginSetActive, SetActiveRefused,
           BeginUpdatePlan, CommitSetActive, CommitUpdatePlan, BeginPromote,
           CommitPromote, AbortPromote, accountVars, Free, Idle, OnlyDeployed
  <2>. QED
    BY <2>1, <2>3, <2>4 DEF Next, Deletion, DeleteAccount, vars, accountVars
<1>. DEFINE Parts == OneOpenLink /\ AllOldDropped /\ ReadIsCurrent
                       /\ SessionsPrecede
<1>3. TypeOK /\ LinkInv /\ AloneInv /\ OneWorker /\ [Next]_vars => Parts'
  <2>. SUFFICES ASSUME TypeOK, LinkInv, Parts, OnlyDeployed, OneWorker, [Next]_vars
                PROVE  Parts'
    BY DEF AloneInv
  <2>. /\ txn \in [Workers -> Transactions] /\ version \in [Accounts -> Nat]
       /\ link \in [Links -> {"unissued", "open", "used", "gone"}]
       /\ linkOf \in [Links -> Actors]
       /\ sessions \in [Accounts -> SUBSET Nat]
       /\ revoked \in [Accounts -> SUBSET Nat]
       /\ \A a \in Accounts : version[a] >= 1
    BY DEF TypeOK, Versions
  <2>. /\ \A w \in Workers : Issues(w) => /\ txn[w].account \in Accounts
                                         /\ txn[w].link \in Links
                                         /\ txn[w].drops \subseteq Links
       /\ \A w \in Workers : Resets(w) => /\ txn[w].account \in Accounts
                                         /\ txn[w].link \in Links
    BY Shapes DEF Issuing, Resetting
  <2>1. CASE UNCHANGED <<link, linkOf, txn, version, sessions, revoked>>
    BY <2>1
  <2>2. ASSUME NEW w \in Workers, NEW a \in Accounts, Signup(w, a) \/ Login(w, a)
        PROVE  Parts'
    <3>1. UNCHANGED <<link, linkOf, txn, version, revoked>>
      BY <2>2 DEF Signup, Login
    <3>2. \A b \in Accounts : sessions'[b] \subseteq sessions[b] \cup {version[b]}
      BY <2>2 DEF Signup, Login
    <3>. QED
      BY <3>1, <3>2
  <2>3. ASSUME NEW w \in Workers, NEW a \in Accounts, BeginForgot(w, a)
        PROVE  Parts'
    <3>1. /\ UNCHANGED <<link, linkOf, version, sessions, revoked>>
          /\ txn'[w].at = "deleting" /\ txn'[w].account = a
          /\ txn'[w].drops = Outstanding(a)
          /\ \A v \in Workers \ {w} : txn'[v] = txn[v]
      BY <2>3 DEF BeginForgot
    <3>. QED
      BY <3>1
  <2>4. ASSUME NEW w \in Workers, LockOldLinks(w) PROVE Parts'
    <3>1. /\ UNCHANGED <<link, linkOf, version, sessions, revoked>>
          /\ txn'[w].at = "sending" /\ txn'[w].account = txn[w].account
          /\ txn'[w].drops = {l \in txn[w].drops : link[l] = "open"}
          /\ \A v \in Workers \ {w} : txn'[v] = txn[v]
          /\ Issues(w)
      BY <2>4 DEF LockOldLinks
    <3>. QED
      BY <3>1
  <2>5. ASSUME NEW w \in Workers, MailAccepted(w) PROVE Parts'
    <3>1. /\ UNCHANGED <<link, linkOf, version, sessions, revoked>>
          /\ txn'[w].at = "committing" /\ txn'[w].account = txn[w].account
          /\ txn'[w].drops = txn[w].drops
          /\ \A v \in Workers \ {w} : txn'[v] = txn[v]
          /\ Issues(w)
      BY <2>5, Shapes DEF MailAccepted, Issuing
    <3>. QED
      BY <3>1
  <2>6. ASSUME NEW w \in Workers, MailFails(w) \/ Abort(w) PROVE Parts'
    <3>1. /\ UNCHANGED <<link, linkOf, version, sessions, revoked>>
          /\ txn'[w].at = "idle"
          /\ \A v \in Workers \ {w} : txn'[v] = txn[v]
      BY <2>6 DEF MailFails, Abort, Idle
    <3>. QED
      BY <3>1
  <2>7. ASSUME NEW w \in Workers, CommitForgot(w) PROVE Parts'
    <3>1. \A v \in Workers : txn'[v] = Idle
      BY <2>7, Alone, Shapes DEF CommitForgot, Idle
    <3>2. AllOldDropped' /\ ReadIsCurrent'
      BY <3>1 DEF Idle
    <3>3. SessionsPrecede'
      BY <2>7 DEF CommitForgot
    <3>4. /\ Issues(w)
          /\ \A l \in Links : link'[l] = IF l = txn[w].link THEN "open"
                                         ELSE IF l \in txn[w].drops THEN "gone"
                                         ELSE link[l]
          /\ linkOf' = [linkOf EXCEPT ![txn[w].link] = txn[w].account]
      BY <2>7 DEF CommitForgot
    <3>5. ASSUME NEW l \in Links, link'[l] = "open", l # txn[w].link
          PROVE  link[l] = "open" /\ linkOf'[l] = linkOf[l]
                   /\ linkOf[l] # txn[w].account
      BY <3>4, <3>5
    <3>6. OneOpenLink'
      BY <3>4, <3>5
    <3>. QED
      BY <3>2, <3>3, <3>6
  <2>8. ASSUME NEW w \in Workers, CommitReset(w) PROVE Parts'
    <3>1. \A v \in Workers : txn'[v] = Idle
      BY <2>8, Alone, Shapes DEF CommitReset, Idle
    <3>2. AllOldDropped' /\ ReadIsCurrent'
      BY <3>1 DEF Idle
    <3>3. OneOpenLink'
      BY <2>8 DEF CommitReset
    <3>4. /\ Resets(w) /\ txn[w].read = version[txn[w].account]
          /\ version' = [version EXCEPT ![txn[w].account] = txn[w].read + 1]
          /\ revoked' = [revoked EXCEPT ![txn[w].account] =
                                           sessions[txn[w].account]]
          /\ sessions' = sessions
      BY <2>8 DEF CommitReset
    <3>5. SessionsPrecede'
      BY <3>4
    <3>. QED
      BY <3>2, <3>3, <3>5
  <2>9. ASSUME NEW w \in Workers, NEW l \in Links, BeginReset(w, l)
        PROVE  Parts'
    <3>1. /\ UNCHANGED <<link, linkOf, version, sessions, revoked>>
          /\ txn'[w].at = "resetting"
          /\ txn'[w].read = version[txn'[w].account]
          /\ \A v \in Workers \ {w} : txn'[v] = txn[v]
      BY <2>9 DEF BeginReset
    <3>. QED
      BY <3>1
  <2>10. CASE Purge \/ \E w \in Workers, r \in held : DeleteAccount(w, r)
    <3>1. /\ \A l \in Links : link'[l] = link[l] \/ link'[l] = "gone"
          /\ UNCHANGED <<linkOf, txn, version, sessions, revoked>>
      BY <2>10 DEF Purge, DeleteAccount
    <3>. QED
      BY <3>1
  <2>11. ASSUME NEW w \in Workers,
                \/ \E r \in held : BeginSetActive(w, r) \/ BeginUpdatePlan(w, r)
                \/ CommitSetActive(w)
                \/ CommitUpdatePlan(w)
         PROVE  Parts'
    <3>1. /\ UNCHANGED <<link, linkOf, version, sessions, revoked>>
          /\ \A v \in Workers \ {w} : txn'[v] = txn[v]
          /\ txn'[w].at \in {"setting", "planning", "idle"}
      BY <2>11 DEF BeginSetActive, BeginUpdatePlan, CommitSetActive,
                   CommitUpdatePlan, Idle
    <3>. QED
      BY <3>1
  <2>12. CASE AccountStep
    BY <2>1, <2>2, <2>3, <2>4, <2>5, <2>6, <2>7, <2>8, <2>9, <2>10, <2>12
       DEF AccountStep, LinkExpires, AskDelete, DeleteRefused
  <2>13. CASE AdminStep
    BY <2>1, <2>11, <2>13
       DEF AdminStep, AskAdmin, Ask, SetActiveRefused, BeginPromote,
           CommitPromote, AbortPromote, accountVars
  <2>. QED
    BY <2>1, <2>10, <2>12, <2>13 DEF Next, Deletion, vars, accountVars
<1>4. deployed' = deployed => (OneWorker' <=> OneWorker)
  BY DEF OneWorker
<1>5. TypeOK /\ LinkInv /\ AloneInv /\ [Next]_vars => AloneInv'
  BY <1>2, <1>3, <1>4 DEF AloneInv
<1>. QED
  BY <1>1, <1>5, TypeCorrect, LinkInvHolds, PTL DEF Spec

\* With one worker an account has at most one usable link.
THEOREM OneValidLinkHolds == Spec => []OneValidLink
<1>1. AloneInv => OneValidLink
  BY DEF AloneInv, OneOpenLink, OneValidLink, Usable
<1>. QED
  BY <1>1, AloneInvHolds, PTL

\* With one worker no session from before a reset is ever accepted again.
THEOREM ResetEndsSessionsHolds == Spec => []ResetEndsSessions
<1>1. TypeOK /\ AloneInv => ResetEndsSessions
  BY DEF TypeOK, Versions, AloneInv, SessionsPrecede, ResetEndsSessions
<1>. QED
  BY <1>1, TypeCorrect, AloneInvHolds, PTL

-----------------------------------------------------------------------------
\* No step removes or changes an audit entry, except that deleting an account
\* takes its name from the entries it wrote.
THEOREM LogIsKeptHolds == Spec => LogIsKept
<1>. DEFINE Kept ==
        /\ Len(log') \in {Len(log), Len(log) + 1}
        /\ \A i \in DOMAIN log :
              \/ log'[i] = log[i]
              \/ /\ row[log[i].actor] = "present"
                 /\ row'[log[i].actor] = "deleted"
                 /\ log'[i] = [log[i] EXCEPT !.actor = NoAccount]
<1>1. ASSUME TypeOK, [Next]_vars PROVE Kept
  <2>1. CASE UNCHANGED log
    BY <1>1, <2>1 DEF TypeOK
  <2>2. ASSUME NEW e, log' = Append(log, e) PROVE Kept
    BY <1>1, <2>2 DEF TypeOK
  <2>3. ASSUME NEW w \in Workers, NEW r \in held, DeleteAccount(w, r),
               Unlink(r.actor)
        PROVE  Kept
    <3>1. Len(log') = Len(log)
      BY <1>1, <2>3, UnlinkTypes DEF TypeOK
    <3>2. /\ row[r.actor] = "present" /\ row'[r.actor] = "deleted"
      BY <1>1, <2>3 DEF DeleteAccount, Present, TypeOK, Request
    <3>. QED
      BY <1>1, <2>3, <3>1, <3>2 DEF Unlink
  <2>4. CASE AdminStep
    BY <2>1, <2>2, <2>4
       DEF AdminStep, AskAdmin, Ask, BeginSetActive, SetActiveRefused,
           BeginUpdatePlan, CommitSetActive, CommitUpdatePlan, BeginPromote,
           CommitPromote, AbortPromote
  <2>. QED
    BY <1>1, <2>1, <2>3, <2>4 DEF Next, Deletion, vars
<1>2. TypeOK /\ [Next]_vars => [Kept]_vars
  BY <1>1
<1>. QED
  BY <1>2, TypeCorrect, PTL DEF Spec, LogIsKept

-----------------------------------------------------------------------------
(***************************************************************************)
(* The audit log and what it is about.  LogInv: what a handler has loaded  *)
(* is still so when it commits, and whoever acts is an administrator who   *)
(* acts on somebody else.                                                  *)
(***************************************************************************)
LoadedIsCurrent ==
    \A w \in Workers :
       /\ txn[w].at = "setting" => txn[w].loaded = active[txn[w].account]
       /\ txn[w].at = "planning" => txn[w].before = limits

ActorsAreAdmins ==
    /\ \A r \in held : r.op # "delete" => admin[r.actor]
    /\ \A w \in Workers :
          /\ txn[w].at \in {"setting", "planning"} => admin[txn[w].actor]
          /\ txn[w].at = "setting" => txn[w].actor # txn[w].account
    /\ \A i \in DOMAIN log : log[i].actor \in Accounts => admin[log[i].actor]
    /\ \A a \in Accounts : admin[a] => row[a] # "unused"

SomebodyDisabled ==
    (\E a \in Accounts : ~active[a]) => \E b \in Accounts : admin[b]

LogInv ==
    /\ ActorsAreAdmins
    /\ SomebodyDisabled
    /\ OneWorker => LoadedIsCurrent
    /\ LogMatchesFlags
    /\ PlanHistoryConnected
    /\ AdminRemains

IsAbout(e, a) == e.action \in {"enabled", "disabled"} /\ e.target = a

\* The last entry about an account after an entry has been appended.
LEMMA LastAboutAppended ==
    ASSUME log \in Seq(UserEntry \cup PlanEntry),
           NEW e \in UserEntry \cup PlanEntry, log' = Append(log, e),
           NEW a
    PROVE  LastAbout(a)' = IF IsAbout(e, a) THEN {Len(log) + 1} ELSE LastAbout(a)
<1>. DEFINE n == Len(log) + 1
<1>1. /\ n \in Nat /\ Len(log') = n /\ DOMAIN log' = 1 .. n
      /\ DOMAIN log = 1 .. Len(log) /\ Len(log) \in Nat
      /\ log'[n] = e /\ \A i \in 1 .. Len(log) : log'[i] = log[i]
  OBVIOUS
<1>2. LastAbout(a)' = {i \in 1 .. n : /\ IsAbout(log'[i], a)
                                     /\ \A k \in i + 1 .. n : ~IsAbout(log'[k], a)}
  BY <1>1 DEF LastAbout, IsAbout
<1>3. LastAbout(a) = {i \in 1 .. Len(log) :
                        /\ IsAbout(log[i], a)
                        /\ \A k \in i + 1 .. Len(log) : ~IsAbout(log[k], a)}
  BY <1>1 DEF LastAbout, IsAbout
<1>4. CASE IsAbout(e, a)
  BY <1>1, <1>2, <1>4
<1>5. CASE ~IsAbout(e, a)
  <2>1. ASSUME NEW i \in 1 .. Len(log)
        PROVE  (\A k \in i + 1 .. n : ~IsAbout(log'[k], a))
                 <=> (\A k \in i + 1 .. Len(log) : ~IsAbout(log[k], a))
    BY <1>1, <1>5
  <2>2. LastAbout(a)' \subseteq LastAbout(a)
    BY <1>1, <1>2, <1>3, <1>5, <2>1
  <2>3. LastAbout(a) \subseteq LastAbout(a)'
    BY <1>1, <1>2, <1>3, <2>1
  <2>. QED
    BY <1>5, <2>2, <2>3
<1>. QED
  BY <1>4, <1>5

\* Taking names from the log leaves what the entries say about others alone.
LEMMA UnlinkKeeps ==
    ASSUME log \in Seq(UserEntry \cup PlanEntry), NEW a, Unlink(a)
    PROVE  /\ DOMAIN log' = DOMAIN log
           /\ \A b : LastAbout(b)' = LastAbout(b)
           /\ PlanEntries' = PlanEntries
           /\ \A i \in DOMAIN log :
                 /\ log'[i].action = log[i].action
                 /\ log'[i].actor = IF log[i].actor = a THEN NoAccount
                                                        ELSE log[i].actor
                 /\ log[i].action = "plan" => /\ log'[i].before = log[i].before
                                             /\ log'[i].after = log[i].after
                 /\ log[i].action # "plan" => log'[i].target = log[i].target
<1>1. /\ DOMAIN log' = DOMAIN log /\ DOMAIN log = 1 .. Len(log)
      /\ Len(log') = Len(log) /\ Len(log) \in Nat
  BY UnlinkTypes DEF Unlink
<1>2. \A i \in DOMAIN log :
         /\ log'[i].action = log[i].action
         /\ log'[i].actor = IF log[i].actor = a THEN NoAccount ELSE log[i].actor
         /\ log[i].action = "plan" => /\ log'[i].before = log[i].before
                                     /\ log'[i].after = log[i].after
         /\ log[i].action # "plan" => log'[i].target = log[i].target
  <2>1. ASSUME NEW i \in DOMAIN log PROVE log[i] \in UserEntry \cup PlanEntry
    BY <1>1
  <2>. QED
    BY <2>1 DEF Unlink, UserEntry, PlanEntry
<1>3. ASSUME NEW b PROVE LastAbout(b)' = LastAbout(b)
  <2>1. \A i : i \in LastAbout(b)' <=> i \in LastAbout(b)
    BY <1>1, <1>2 DEF LastAbout
  <2>. QED
    BY <2>1
<1>4. PlanEntries' = PlanEntries
  BY <1>1, <1>2 DEF PlanEntries
<1>. QED
  BY <1>1, <1>2, <1>3, <1>4

\* The actions of the log's entries.
LEMMA EntryShapes ==
    ASSUME NEW e \in UserEntry \cup PlanEntry
    PROVE  /\ e.action = "plan" <=> e \in PlanEntry
           /\ e.action # "plan" <=> e \in UserEntry
           /\ e.actor \in Actors
  BY DEF UserEntry, PlanEntry

\* What an appended entry leaves as it was.
LEMMA Appended ==
    ASSUME log \in Seq(UserEntry \cup PlanEntry),
           NEW e \in UserEntry \cup PlanEntry, log' = Append(log, e)
    PROVE  /\ Len(log) + 1 \in DOMAIN log'
           /\ Len(log) \in Nat
           /\ log'[Len(log) + 1] = e
           /\ DOMAIN log' = DOMAIN log \cup {Len(log) + 1}
           /\ \A i \in DOMAIN log : /\ i < Len(log) + 1 /\ i \in Nat
                                    /\ log'[i] = log[i]
           /\ PlanEntries' = IF e.action = "plan"
                               THEN PlanEntries \cup {Len(log) + 1}
                               ELSE PlanEntries
           /\ Overtaken => Overtaken'
<1>. DEFINE n == Len(log) + 1
<1>1. /\ DOMAIN log' = 1 .. n /\ DOMAIN log = 1 .. Len(log) /\ Len(log) \in Nat
      /\ log'[n] = e /\ \A i \in 1 .. Len(log) : log'[i] = log[i]
  OBVIOUS
<1>2. DOMAIN log' = DOMAIN log \cup {n}
  BY <1>1
<1>3. PlanEntries' = IF e.action = "plan" THEN PlanEntries \cup {n}
                                          ELSE PlanEntries
  BY <1>1, <1>2 DEF PlanEntries
<1>4. Overtaken => Overtaken'
  <2>. SUFFICES ASSUME Overtaken PROVE Overtaken'
    OBVIOUS
  <2>1. PICK i, k \in DOMAIN log :
              /\ i < k
              /\ log[i].action = "disabled"
              /\ log[k].actor = log[i].target
              /\ \A j \in i + 1 .. k - 1 :
                    ~(log[j].action = "enabled" /\ log[j].target = log[i].target)
    BY DEF Overtaken
  <2>2. i \in DOMAIN log' /\ k \in DOMAIN log'
        /\ log'[i] = log[i] /\ log'[k] = log[k]
    BY <1>1, <2>1
  <2>3. \A j \in i + 1 .. k - 1 : log'[j] = log[j]
    BY <1>1, <2>1
  <2>. QED
    BY <2>1, <2>2, <2>3 DEF Overtaken
<1>. QED
  BY <1>1, <1>2, <1>3, <1>4

\* LogInv is inductive.
LEMMA LogInvHolds == Spec => []LogInv
<1>. USE AccountsAssumption
<1>1. Init => LogInv
  <2>. SUFFICES ASSUME Init PROVE LogInv
    OBVIOUS
  <2>1. /\ DOMAIN log = {} /\ held = {}
        /\ \A w \in Workers : txn[w].at = "idle"
        /\ \A a \in Accounts : active[a] /\ ~admin[a]
    BY DEF Init, AccountsInit, Idle
  <2>2. PlanEntries = {} /\ \A a : LastAbout(a) = {}
    BY <2>1 DEF PlanEntries, LastAbout
  <2>. QED
    BY <2>1, <2>2 DEF LogInv, ActorsAreAdmins, SomebodyDisabled,
       LoadedIsCurrent, LogMatchesFlags, PlanHistoryConnected, AdminRemains
<1>2. ASSUME TypeOK, TypeOK', OnlyDeployed, LogInv, [Next]_vars PROVE LogInv'
  <2>. USE DEF userVars, linkVars
  <2>a. /\ log \in Seq(UserEntry \cup PlanEntry)
        /\ txn \in [Workers -> Transactions]
        /\ active \in [Accounts -> BOOLEAN]
        /\ admin \in [Accounts -> BOOLEAN]
        /\ row \in [Accounts -> {"unused", "present", "deleted"}]
        /\ held \subseteq Request
    BY <1>2 DEF TypeOK
  <2>b. deployed' = deployed
    BY <1>2 DEF Next, vars, accountVars, AccountStep, Deletion, AdminStep, AskAdmin,
       Signup, Login, BeginForgot, LockOldLinks, MailAccepted, MailFails,
       CommitForgot, CommitReset, Abort, BeginReset, LinkExpires, Purge,
       AskDelete, DeleteRefused, DeleteAccount, Ask, BeginSetActive,
       SetActiveRefused, BeginUpdatePlan, CommitSetActive, CommitUpdatePlan,
       BeginPromote, CommitPromote, AbortPromote
  <2>c. OneWorker' <=> OneWorker
    BY <2>b DEF OneWorker
  <2>1. ASSUME UNCHANGED <<row, active, admin, log, limits>>,
               ActorsAreAdmins', OneWorker => LoadedIsCurrent'
        PROVE  LogInv'
    <3>1. /\ SomebodyDisabled' <=> SomebodyDisabled
          /\ LogMatchesFlags' <=> LogMatchesFlags
          /\ PlanHistoryConnected' <=> PlanHistoryConnected
          /\ AdminRemains' <=> AdminRemains
      BY <2>b, <2>1 DEF SomebodyDisabled, LogMatchesFlags, PlanHistoryConnected,
         AdminRemains, LastAbout, PlanEntries, Overtaken, Present, OneWorker
    <3>. QED
      BY <1>2, <2>c, <2>1, <3>1 DEF LogInv
  <2>2. ASSUME UNCHANGED <<row, active, admin, log, limits>>, UNCHANGED txn,
               \A r \in held' : r \in held \/ r.op = "delete" \/ admin[r.actor]
        PROVE  LogInv'
    BY <1>2, <2>1, <2>2 DEF LogInv, ActorsAreAdmins, LoadedIsCurrent
  <2>3. ASSUME NEW w \in Workers, UNCHANGED <<row, active, admin, log, limits>>,
               held' \subseteq held, \A v \in Workers \ {w} : txn'[v] = txn[v],
               txn'[w].at \notin {"setting", "planning"}
        PROVE  LogInv'
    BY <1>2, <2>1, <2>3 DEF LogInv, ActorsAreAdmins, LoadedIsCurrent
  <2>4. ASSUME NEW w \in Workers, NEW a \in Accounts, Signup(w, a),
               UNCHANGED <<limits, log, script>>
        PROVE  LogInv'
    <3>1. /\ UNCHANGED <<active, admin, log, limits, txn, held>>
          /\ row[a] = "unused" /\ row' = [row EXCEPT ![a] = "present"]
      BY <2>4 DEF Signup
    <3>2. /\ LogMatchesFlags' <=> LogMatchesFlags
          /\ PlanHistoryConnected' <=> PlanHistoryConnected
          /\ SomebodyDisabled' <=> SomebodyDisabled
          /\ LoadedIsCurrent' <=> LoadedIsCurrent
          /\ Overtaken' <=> Overtaken
      BY <2>b, <3>1 DEF LogMatchesFlags, PlanHistoryConnected, SomebodyDisabled,
         LoadedIsCurrent, Overtaken, LastAbout, PlanEntries, OneWorker
    <3>3. ActorsAreAdmins'
      BY <1>2, <2>a, <3>1 DEF LogInv, ActorsAreAdmins
    <3>4. \A b \in Accounts : admin[b] /\ Present(b)' => Present(b)
      BY <1>2, <2>a, <3>1 DEF LogInv, ActorsAreAdmins, Present
    <3>5. AdminRemains'
      BY <1>2, <2>c, <3>1, <3>2, <3>4 DEF LogInv, AdminRemains
    <3>. QED
      BY <1>2, <2>c, <3>2, <3>3, <3>5 DEF LogInv
  <2>5. ASSUME NEW w \in Workers, NEW r \in held,
               BeginSetActive(w, r) \/ BeginUpdatePlan(w, r)
        PROVE  LogInv'
    <3>1. /\ r \in held /\ held' = held \ {r}
          /\ UNCHANGED <<row, active, admin, log, limits>>
          /\ \A v \in Workers \ {w} : txn'[v] = txn[v]
      BY <2>a, <2>5 DEF BeginSetActive, BeginUpdatePlan
    <3>2. CASE BeginSetActive(w, r)
      <4>1. /\ txn'[w].at = "setting" /\ txn'[w].actor = r.actor
            /\ txn'[w].account = r.target /\ r.op # "delete"
            /\ txn'[w].loaded = active[r.target] /\ r.actor # r.target
        BY <2>a, <3>2 DEF BeginSetActive
      <4>. QED
        BY <1>2, <2>1, <3>1, <4>1 DEF LogInv, ActorsAreAdmins, LoadedIsCurrent
    <3>3. CASE BeginUpdatePlan(w, r)
      <4>1. /\ txn'[w].at = "planning" /\ txn'[w].actor = r.actor
            /\ txn'[w].before = limits /\ r.op # "delete"
        BY <2>a, <3>3 DEF BeginUpdatePlan
      <4>. QED
        BY <1>2, <2>1, <3>1, <4>1 DEF LogInv, ActorsAreAdmins, LoadedIsCurrent
    <3>. QED
      BY <2>5, <3>2, <3>3
  <2>6. ASSUME NEW w \in Workers, CommitSetActive(w) PROVE LogInv'
    <3>. DEFINE a == txn[w].account
                b == txn[w].actor
                e == [action |-> IF txn[w].value THEN "enabled" ELSE "disabled",
                      actor |-> b, target |-> a]
                n == Len(log) + 1
    <3>1. /\ a \in Accounts /\ b \in Accounts
          /\ txn[w].value \in BOOLEAN /\ txn[w].loaded \in BOOLEAN
      BY <2>a, <2>6, Shapes DEF CommitSetActive, SettingActive
    <3>2. e \in UserEntry
      BY <3>1 DEF UserEntry, Actors
    <3>3. /\ log' = Append(log, e) /\ txn' = [txn EXCEPT ![w] = Idle]
          /\ UNCHANGED <<row, admin, held, limits>>
          /\ active' = [active EXCEPT ![a] = IF txn[w].value = txn[w].loaded
                                               THEN @ ELSE txn[w].value]
      BY <2>6 DEF CommitSetActive
    <3>4. /\ admin[b] /\ a # b
      BY <1>2, <2>6 DEF LogInv, ActorsAreAdmins, CommitSetActive
    <3>5. OneWorker => active' = [active EXCEPT ![a] = txn[w].value]
      <4>1. OneWorker => txn[w].loaded = active[a]
        BY <1>2, <2>6 DEF LogInv, LoadedIsCurrent, CommitSetActive
      <4>. QED
        BY <2>a, <3>1, <3>3, <4>1
    <3>6. /\ n \in DOMAIN log' /\ log'[n] = e /\ DOMAIN log' = DOMAIN log \cup {n}
          /\ \A i \in DOMAIN log : log'[i] = log[i] /\ i < n
          /\ PlanEntries' = PlanEntries
          /\ Overtaken => Overtaken'
      BY <2>a, <3>2, <3>3, Appended DEF UserEntry
    <3>7. ASSUME NEW x
          PROVE  LastAbout(x)' = IF x = a THEN {n} ELSE LastAbout(x)
      <4>1. IsAbout(e, x) <=> x = a
        BY DEF IsAbout
      <4>. HIDE DEF e
      <4>. QED
        BY <2>a, <3>2, <3>3, <4>1, LastAboutAppended
    <3>. HIDE DEF a, b, e, n
    <3>8. e.actor = b /\ e.target = a
          /\ e.action = (IF txn[w].value THEN "enabled" ELSE "disabled")
      BY DEF e
    <3>9. ActorsAreAdmins'
      BY <1>2, <2>a, <3>3, <3>4, <3>6, <3>8 DEF LogInv, ActorsAreAdmins, Idle
    <3>10. SomebodyDisabled'
      BY <3>1, <3>3, <3>4 DEF SomebodyDisabled
    <3>11. OneWorker => LoadedIsCurrent'
      <4>1. OneWorker => \A v \in Workers : txn'[v] = Idle
        <5>1. txn[w] # Idle
          BY <2>6 DEF CommitSetActive, Idle
        <5>. QED
          BY <1>2, <2>a, <3>3, <5>1, Alone
      <4>. QED
        BY <4>1 DEF LoadedIsCurrent, Idle
    <3>12. LogMatchesFlags'
      <4>. SUFFICES ASSUME OneWorker, NEW x \in Accounts
                    PROVE  /\ \A i \in LastAbout(x)' :
                                 active'[x] = (log'[i].action = "enabled")
                           /\ LastAbout(x)' = {} => active'[x]
                           /\ admin'[x] <=> \E i \in DOMAIN log' :
                                 log'[i].action = "promoted" /\ log'[i].target = x
        BY <2>c DEF LogMatchesFlags
      <4>1. /\ \A i \in LastAbout(x) : active[x] = (log[i].action = "enabled")
            /\ LastAbout(x) = {} => active[x]
            /\ admin[x] <=> \E i \in DOMAIN log :
                  log[i].action = "promoted" /\ log[i].target = x
        BY <1>2 DEF LogInv, LogMatchesFlags
      <4>2. LastAbout(x) \subseteq DOMAIN log
        BY DEF LastAbout
      <4>5. admin'[x] <=> \E i \in DOMAIN log' :
              log'[i].action = "promoted" /\ log'[i].target = x
        BY <3>3, <3>6, <3>8, <4>1
      <4>3. CASE x = a
        <5>1. active'[x] = (log'[n].action = "enabled")
          BY <2>a, <3>1, <3>5, <3>6, <3>8, <4>3
        <5>. QED
          BY <3>7, <4>3, <4>5, <5>1
      <4>4. CASE x # a
        <5>1. active'[x] = active[x]
          BY <2>a, <3>5, <4>4
        <5>. QED
          BY <3>6, <3>7, <4>1, <4>2, <4>4, <4>5, <5>1
      <4>. QED
        BY <4>3, <4>4
    <3>13. PlanHistoryConnected'
      BY <1>2, <2>c, <3>3, <3>6 DEF LogInv, PlanHistoryConnected, PlanEntries
    <3>14. AdminRemains'
      <4>. SUFFICES ASSUME OneWorker, ~Overtaken',
                           \A x \in Accounts : admin[x] => Present(x)
                    PROVE  \E x \in Accounts : admin[x] /\ active'[x]
        BY <2>c, <3>3 DEF AdminRemains, Present
      <4>1. CASE active[b]
        BY <2>a, <3>1, <3>4, <3>5, <4>1
      <4>2. CASE ~active[b]
        <5>a. /\ LastAbout(b) # {}
              /\ \A i \in LastAbout(b) : active[b] = (log[i].action = "enabled")
          BY <1>2, <3>1, <4>2 DEF LogInv, LogMatchesFlags
        <5>1. PICK i \in LastAbout(b) : log[i].action # "enabled"
          BY <4>2, <5>a
        <5>2. /\ i \in DOMAIN log /\ log[i].action = "disabled" /\ log[i].target = b
              /\ \A j \in i + 1 .. Len(log) :
                    ~(log[j].action = "enabled" /\ log[j].target = b)
          BY <5>1 DEF LastAbout
        <5>3. Overtaken'
          <6>1. /\ i \in DOMAIN log' /\ i < n /\ log'[i] = log[i]
                /\ log'[n].actor = log'[i].target
            BY <3>6, <3>8, <5>2
          <6>2. \A j \in i + 1 .. n - 1 : log'[j] = log[j] /\ j \in i + 1 .. Len(log)
            BY <2>a, <3>6, <5>2 DEF n
          <6>. QED
            BY <3>6, <5>2, <6>1, <6>2 DEF Overtaken
        <5>. QED
          BY <5>3
      <4>. QED
        BY <4>1, <4>2
    <3>. QED
      BY <2>c, <3>9, <3>10, <3>11, <3>12, <3>13, <3>14 DEF LogInv
  <2>7. ASSUME NEW w \in Workers, CommitUpdatePlan(w) PROVE LogInv'
    <3>. DEFINE b == txn[w].actor
                e == [action |-> "plan", actor |-> b, before |-> txn[w].before,
                      after |-> txn[w].after]
                n == Len(log) + 1
    <3>1. e \in PlanEntry /\ b \in Accounts
      BY <2>a, <2>7, Shapes DEF CommitUpdatePlan, UpdatingPlan, PlanEntry, Actors
    <3>2. /\ log' = Append(log, e) /\ txn' = [txn EXCEPT ![w] = Idle]
          /\ UNCHANGED <<row, active, admin, held>>
          /\ limits' = IF txn[w].after = txn[w].before THEN limits
                                                       ELSE txn[w].after
      BY <2>7 DEF CommitUpdatePlan
    <3>3. admin[b]
      BY <1>2, <2>7 DEF LogInv, ActorsAreAdmins, CommitUpdatePlan
    <3>4. OneWorker => txn[w].before = limits /\ limits' = txn[w].after
      BY <1>2, <2>7, <3>2 DEF LogInv, LoadedIsCurrent, CommitUpdatePlan
    <3>5. /\ n \in DOMAIN log' /\ log'[n] = e /\ DOMAIN log' = DOMAIN log \cup {n}
          /\ n \in Nat
          /\ \A i \in DOMAIN log : log'[i] = log[i] /\ i < n /\ i \in Nat
          /\ PlanEntries' = PlanEntries \cup {n}
          /\ Overtaken => Overtaken'
      BY <2>a, <3>1, <3>2, Appended
    <3>6. ASSUME NEW x PROVE LastAbout(x)' = LastAbout(x)
      <4>1. ~IsAbout(e, x)
        BY DEF IsAbout
      <4>. HIDE DEF e
      <4>. QED
        BY <2>a, <3>1, <3>2, <4>1, LastAboutAppended
    <3>7. /\ e.action = "plan" /\ e.actor = b /\ e.before = txn[w].before
          /\ e.after = txn[w].after
      OBVIOUS
    <3>. HIDE DEF b, e, n
    <3>8. ActorsAreAdmins' /\ SomebodyDisabled'
      BY <1>2, <2>a, <3>2, <3>3, <3>5, <3>7
         DEF LogInv, ActorsAreAdmins, SomebodyDisabled, Idle
    <3>9. OneWorker => LoadedIsCurrent'
      <4>1. OneWorker => \A v \in Workers : txn'[v] = Idle
        <5>1. txn[w] # Idle
          BY <2>7 DEF CommitUpdatePlan, Idle
        <5>. QED
          BY <1>2, <2>a, <3>2, <5>1, Alone
      <4>. QED
        BY <4>1 DEF LoadedIsCurrent, Idle
    <3>10. LogMatchesFlags'
      <4>1. \A x : LastAbout(x) \subseteq DOMAIN log
        BY DEF LastAbout
      <4>. QED
        BY <1>2, <2>c, <3>2, <3>5, <3>6, <3>7, <4>1 DEF LogInv, LogMatchesFlags
    <3>11. PlanHistoryConnected'
      <4>. SUFFICES ASSUME OneWorker
                    PROVE  PlanHistoryConnected'
        BY <2>c DEF PlanHistoryConnected
      <4>1. PlanEntries \subseteq DOMAIN log
        BY DEF PlanEntries
      <4>2. \A i \in PlanEntries :
               (\A k \in PlanEntries : k <= i) => log[i].after = txn[w].before
        BY <1>2, <3>4 DEF LogInv, PlanHistoryConnected
      <4>3. ASSUME NEW i \in PlanEntries', NEW k \in PlanEntries', i < k,
                   \A m \in PlanEntries' : m <= i \/ m >= k
            PROVE  log'[i].after = log'[k].before
        <5>1. i \in PlanEntries
          BY <3>5, <4>1, <4>3
        <5>2. CASE k = n
          BY <3>5, <3>7, <4>1, <4>2, <4>3, <5>1, <5>2
        <5>3. CASE k # n
          BY <1>2, <3>5, <4>1, <4>3, <5>1, <5>3 DEF LogInv, PlanHistoryConnected
        <5>. QED
          BY <5>2, <5>3
      <4>4. ASSUME NEW i \in PlanEntries', \A m \in PlanEntries' : m <= i
            PROVE  log'[i].after = limits'
        BY <3>4, <3>5, <3>7, <4>1, <4>4
      <4>. QED
        BY <4>3, <4>4 DEF PlanHistoryConnected
    <3>12. AdminRemains'
      BY <1>2, <2>c, <3>2, <3>5 DEF LogInv, AdminRemains, Present
    <3>. QED
      BY <2>c, <3>8, <3>9, <3>10, <3>11, <3>12 DEF LogInv
  <2>8. CASE CommitPromote
    <3>. DEFINE e == [action |-> "promoted", actor |-> NoAccount, target |-> script]
                n == Len(log) + 1
    <3>1. e \in UserEntry /\ script \in Accounts
      BY <1>2, <2>8 DEF CommitPromote, TypeOK, UserEntry, Actors
    <3>2. /\ log' = Append(log, e) /\ Present(script)
          /\ UNCHANGED <<row, active, held, limits, txn>>
          /\ admin' = [admin EXCEPT ![script] = TRUE]
      BY <2>8 DEF CommitPromote
    <3>3. /\ n \in DOMAIN log' /\ log'[n] = e /\ DOMAIN log' = DOMAIN log \cup {n}
          /\ \A i \in DOMAIN log : log'[i] = log[i] /\ i < n
          /\ PlanEntries' = PlanEntries
          /\ Overtaken => Overtaken'
      BY <2>a, <3>1, <3>2, Appended DEF UserEntry
    <3>4. ASSUME NEW x PROVE LastAbout(x)' = LastAbout(x)
      <4>1. ~IsAbout(e, x)
        BY DEF IsAbout
      <4>. HIDE DEF e
      <4>. QED
        BY <2>a, <3>1, <3>2, <4>1, LastAboutAppended
    <3>5. e.action = "promoted" /\ e.actor = NoAccount /\ e.target = script
      OBVIOUS
    <3>. HIDE DEF e, n
    <3>6. \A r \in held : r.actor \in Accounts
      BY <2>a DEF Request
    <3>7. ActorsAreAdmins' /\ SomebodyDisabled'
      <4>1. \A w \in Workers : txn[w].at \in {"setting", "planning"}
                                => txn[w].actor \in Accounts
        BY <2>a, Shapes DEF SettingActive, UpdatingPlan
      <4>. QED
        BY <1>2, <2>a, <3>1, <3>2, <3>3, <3>5, <3>6, <4>1
           DEF LogInv, ActorsAreAdmins, SomebodyDisabled, Present
    <3>8. LoadedIsCurrent' <=> LoadedIsCurrent
      BY <3>2 DEF LoadedIsCurrent
    <3>9. LogMatchesFlags'
      <4>. SUFFICES ASSUME OneWorker, NEW x \in Accounts
                    PROVE  /\ \A i \in LastAbout(x)' :
                                 active'[x] = (log'[i].action = "enabled")
                           /\ LastAbout(x)' = {} => active'[x]
                           /\ admin'[x] <=> \E i \in DOMAIN log' :
                                 log'[i].action = "promoted" /\ log'[i].target = x
        BY <2>c DEF LogMatchesFlags
      <4>1. /\ \A i \in LastAbout(x) : active[x] = (log[i].action = "enabled")
            /\ LastAbout(x) = {} => active[x]
            /\ admin[x] <=> \E i \in DOMAIN log :
                  log[i].action = "promoted" /\ log[i].target = x
        BY <1>2 DEF LogInv, LogMatchesFlags
      <4>2. LastAbout(x) \subseteq DOMAIN log
        BY DEF LastAbout
      <4>3. admin'[x] <=> \E i \in DOMAIN log' :
              log'[i].action = "promoted" /\ log'[i].target = x
        BY <2>a, <3>1, <3>2, <3>3, <3>5, <4>1
      <4>. QED
        BY <3>2, <3>3, <3>4, <4>1, <4>2, <4>3
    <3>10. PlanHistoryConnected'
      BY <1>2, <2>c, <3>2, <3>3 DEF LogInv, PlanHistoryConnected, PlanEntries
    <3>11. AdminRemains'
      <4>. SUFFICES ASSUME OneWorker, ~Overtaken',
                           \A x \in Accounts : admin'[x] => Present(x)
                    PROVE  \E x \in Accounts : admin'[x] /\ active'[x]
        BY <2>c, <3>2 DEF AdminRemains, Present
      <4>1. \A x \in Accounts : admin'[x] <=> (admin[x] \/ x = script)
        BY <2>a, <3>1, <3>2
      <4>2. CASE \A x \in Accounts : ~admin[x]
        BY <1>2, <3>1, <3>2, <4>1, <4>2 DEF LogInv, SomebodyDisabled
      <4>3. CASE \E x \in Accounts : admin[x]
        BY <1>2, <3>2, <3>3, <4>1, <4>3 DEF LogInv, AdminRemains
      <4>. QED
        BY <4>2, <4>3
    <3>. QED
      BY <1>2, <2>c, <3>7, <3>8, <3>9, <3>10, <3>11 DEF LogInv
  <2>9. CASE Deletion
    <3>. SUFFICES ASSUME NEW w \in Workers, NEW r \in held, DeleteAccount(w, r),
                         Unlink(r.actor), limits' = limits
                  PROVE  LogInv'
      BY <2>9 DEF Deletion
    <3>1. r.actor \in Accounts /\ r.actor # NoAccount
      BY <2>a DEF Request
    <3>2. /\ UNCHANGED <<active, admin, limits, txn>> /\ held' = held \ {r}
          /\ row' = [row EXCEPT ![r.actor] = "deleted"]
      BY DEF DeleteAccount
    <3>3. /\ DOMAIN log' = DOMAIN log
          /\ \A b : LastAbout(b)' = LastAbout(b)
          /\ PlanEntries' = PlanEntries
          /\ \A i \in DOMAIN log :
                /\ log'[i].action = log[i].action
                /\ log'[i].actor = IF log[i].actor = r.actor THEN NoAccount
                                                             ELSE log[i].actor
                /\ log[i].action = "plan" => /\ log'[i].before = log[i].before
                                            /\ log'[i].after = log[i].after
                /\ log[i].action # "plan" => log'[i].target = log[i].target
      BY <2>a, UnlinkKeeps
    <3>4. ActorsAreAdmins' /\ SomebodyDisabled'
      BY <1>2, <2>a, <3>1, <3>2, <3>3
         DEF LogInv, ActorsAreAdmins, SomebodyDisabled
    <3>5. LoadedIsCurrent' <=> LoadedIsCurrent
      BY <3>2 DEF LoadedIsCurrent
    <3>6. LogMatchesFlags'
      <4>1. \A x : LastAbout(x) \subseteq DOMAIN log
        BY DEF LastAbout
      <4>. QED
        BY <1>2, <2>c, <3>2, <3>3, <4>1 DEF LogInv, LogMatchesFlags
    <3>7. PlanHistoryConnected'
      BY <1>2, <2>c, <3>2, <3>3 DEF LogInv, PlanHistoryConnected, PlanEntries
    <3>8. AdminRemains'
      <4>. SUFFICES ASSUME OneWorker, ~Overtaken', NEW z \in Accounts, admin[z],
                           \A x \in Accounts : admin[x] => Present(x)'
                    PROVE  \E x \in Accounts : admin[x] /\ active[x]
        BY <2>c, <3>2 DEF AdminRemains
      <4>1. ~admin[r.actor]
        BY <2>a, <3>1, <3>2 DEF Present
      <4>2. \A i \in DOMAIN log : log'[i].actor = log[i].actor
        BY <1>2, <3>1, <3>3, <4>1 DEF LogInv, ActorsAreAdmins
      <4>3. Overtaken => Overtaken'
        <5>. SUFFICES ASSUME Overtaken PROVE Overtaken'
          OBVIOUS
        <5>1. PICK i, k \in DOMAIN log :
                    /\ i < k
                    /\ log[i].action = "disabled"
                    /\ log[k].actor = log[i].target
                    /\ \A j \in i + 1 .. k - 1 :
                          ~(log[j].action = "enabled" /\ log[j].target = log[i].target)
          BY DEF Overtaken
        <5>2. log'[i].action = "disabled" /\ log'[i].target = log[i].target
              /\ log'[k].actor = log[k].actor
          BY <3>3, <4>2, <5>1
        <5>3. ASSUME NEW j \in i + 1 .. k - 1
              PROVE  ~(log'[j].action = "enabled" /\ log'[j].target = log[i].target)
          <6>1. DOMAIN log = 1 .. Len(log) /\ Len(log) \in Nat
            BY <2>a
          <6>2. j \in DOMAIN log
            BY <5>1, <6>1
          <6>3. log'[j].action = log[j].action
                /\ (log[j].action # "plan" => log'[j].target = log[j].target)
            BY <3>3, <6>2
          <6>. QED
            BY <5>1, <6>3
        <5>. QED
          BY <3>3, <5>1, <5>2, <5>3 DEF Overtaken
      <4>4. \A x \in Accounts : admin[x] => Present(x)
        BY <2>a, <3>1, <3>2, <4>1 DEF Present
      <4>. QED
        BY <1>2, <4>3, <4>4 DEF LogInv, AdminRemains
    <3>. QED
      BY <1>2, <2>c, <3>4, <3>5, <3>6, <3>7, <3>8 DEF LogInv
  <2>10. CASE AccountStep /\ UNCHANGED <<limits, log, script>>
    <3>1. ASSUME NEW w \in Workers, LockOldLinks(w) \/ MailAccepted(w)
          PROVE  txn'[w].at \in {"sending", "committing"}
      <4>1. CASE LockOldLinks(w)
        BY <2>a, <4>1 DEF LockOldLinks
      <4>2. CASE MailAccepted(w)
        <5>1. txn[w] \in Issuing
          BY <2>a, <4>2, Shapes DEF MailAccepted
        <5>. QED
          BY <2>a, <4>2, <5>1 DEF MailAccepted, Issuing
      <4>. QED
        BY <3>1, <4>1, <4>2
    <3>2. CASE \E w \in Workers, a \in Accounts : Login(w, a)
      BY <2>2, <2>10, <3>2 DEF Login
    <3>3. ASSUME NEW w \in Workers, NEW a \in Accounts, BeginForgot(w, a)
          PROVE  LogInv'
      BY <2>a, <2>3, <2>10, <3>3 DEF BeginForgot
    <3>4. ASSUME NEW w \in Workers, LockOldLinks(w) \/ MailAccepted(w)
          PROVE  LogInv'
      BY <2>a, <2>3, <2>10, <3>1, <3>4 DEF LockOldLinks, MailAccepted
    <3>5. ASSUME NEW w \in Workers, MailFails(w) \/ CommitForgot(w)
                                     \/ CommitReset(w) \/ Abort(w)
          PROVE  LogInv'
      BY <2>a, <2>3, <2>10, <3>5 DEF MailFails, CommitForgot, CommitReset, Abort, Idle
    <3>6. ASSUME NEW w \in Workers, NEW l \in Links, BeginReset(w, l)
          PROVE  LogInv'
      BY <2>a, <2>3, <2>10, <3>6 DEF BeginReset
    <3>7. CASE \/ \E l \in Links : LinkExpires(l)
               \/ Purge
               \/ \E a \in Accounts : AskDelete(a)
               \/ \E w \in Workers, r \in held : DeleteRefused(w, r)
      BY <2>2, <2>10, <3>7 DEF LinkExpires, Purge, AskDelete, DeleteRefused
    <3>. QED
      BY <2>4, <2>10, <3>2, <3>3, <3>4, <3>5, <3>6, <3>7 DEF AccountStep
  <2>11. CASE AdminStep
    <3>1. CASE AskAdmin
      BY <2>2, <3>1 DEF AskAdmin, Ask
    <3>2. CASE \E w \in Workers, r \in held : SetActiveRefused(w, r)
      BY <2>2, <3>2 DEF SetActiveRefused
    <3>3. CASE AbortPromote \/ \E a \in Accounts : BeginPromote(a)
      BY <2>2, <3>3 DEF AbortPromote, BeginPromote, accountVars
    <3>. QED
      BY <2>5, <2>6, <2>7, <2>8, <2>11, <3>1, <3>2, <3>3 DEF AdminStep
  <2>12. CASE UNCHANGED vars
    BY <2>2, <2>12 DEF vars, accountVars
  <2>. QED
    BY <1>2, <2>9, <2>10, <2>11, <2>12 DEF Next
<1>3. AloneInv => OnlyDeployed
  BY DEF AloneInv
<1>. QED
  BY <1>1, <1>2, <1>3, TypeCorrect, AloneInvHolds, PTL DEF Spec

\* With one worker the flags of every account are those the log records.
THEOREM LogMatchesFlagsHolds == Spec => []LogMatchesFlags
<1>1. LogInv => LogMatchesFlags
  BY DEF LogInv
<1>. QED
  BY <1>1, LogInvHolds, PTL

\* With one worker the entries about the plan form an unbroken chain that ends
\* at the limits in force.
THEOREM PlanHistoryConnectedHolds == Spec => []PlanHistoryConnected
<1>1. LogInv => PlanHistoryConnected
  BY DEF LogInv
<1>. QED
  BY <1>1, LogInvHolds, PTL

\* An active administrator remains unless one acts who had been disabled.
THEOREM AdminRemainsHolds == Spec => []AdminRemains
<1>1. LogInv => AdminRemains
  BY DEF LogInv
<1>. QED
  BY <1>1, LogInvHolds, PTL

=============================================================================

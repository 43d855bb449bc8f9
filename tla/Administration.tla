---------------------------- MODULE Administration ----------------------------
(***************************************************************************)
(* Administrators disable and enable accounts and edit the limits of a     *)
(* plan; an operator makes an account an administrator with the script     *)
(* promote_admin.py.  Each change is written in one transaction with a row *)
(* of the audit log.  These handlers run beside those of Accounts, on the  *)
(* same tables; Next composes both.                                        *)
(***************************************************************************)
EXTENDS Accounts, Sequences

CONSTANTS
    Limits,      \* values of a plan's three limits, taken together
    MaxLog       \* bound on the audit log

ASSUME LimitsAssumption ==
    /\ Limits # {}
    /\ MaxLog \in Nat

VARIABLES
    limits,      \* the row of the one plan
    log,         \* admin_audit_log, in the order of its rows
    script       \* the account promote_admin.py has read, if it is running

vars == <<accountVars, limits, log, script>>

-----------------------------------------------------------------------------
Actors == Accounts \cup {NoAccount}

UserEntry == [action : {"enabled", "disabled", "promoted"}, actor : Actors,
              target : Accounts]
PlanEntry == [action : {"plan"}, actor : Actors, before : Limits,
              after : Limits]

Request == [op : {"delete", "disable", "enable"}, actor : Accounts,
            target : Accounts]
             \cup [op : {"plan"}, actor : Accounts, target : Limits]

\* The handlers of administrators between their read and their flush.
SettingActive == [at : {"setting"}, actor : Accounts, account : Accounts,
                  loaded : BOOLEAN, value : BOOLEAN]
UpdatingPlan == [at : {"planning"}, actor : Accounts, before : Limits,
                 after : Limits]

Transactions == {Idle} \cup Issuing \cup Resetting \cup SettingActive
                  \cup UpdatingPlan

TypeOK ==
    /\ deployed \in SUBSET Workers \ {{}}
    /\ row \in [Accounts -> {"unused", "present", "deleted"}]
    /\ email \in [Accounts -> Emails]
    /\ version \in [Accounts -> Versions]
    /\ active \in [Accounts -> BOOLEAN]
    /\ admin \in [Accounts -> BOOLEAN]
    /\ link \in [Links -> {"unissued", "open", "used", "gone"}]
    /\ linkOf \in [Links -> Actors]
    /\ expired \in SUBSET Links
    /\ sessions \in [Accounts -> SUBSET Versions]
    /\ mailed \in SUBSET Links
    /\ txn \in [Workers -> Transactions]
    /\ held \in SUBSET Request
    /\ revoked \in [Accounts -> SUBSET Versions]
    /\ honoured \in [Links -> Nat]
    /\ limits \in Limits
    /\ log \in Seq(UserEntry \cup PlanEntry)
    /\ script \in Actors

Init ==
    /\ AccountsInit
    /\ limits \in Limits
    /\ log = <<>>
    /\ script = NoAccount

-----------------------------------------------------------------------------
(* get_current_admin_user for a request that changes something.            *)
Ask(r) ==
    /\ \E v \in Versions : Accepted(r.actor, v)
    /\ admin[r.actor]
    /\ Cardinality(held) < MaxHeld
    /\ held' = held \cup {r}
    /\ UNCHANGED <<deployed, userVars, linkVars, sessions, txn, revoked,
                   limits, log, script>>

AskAdmin ==
    \/ \E a, b \in Accounts, op \in {"disable", "enable"} :
          Ask([op |-> op, actor |-> a, target |-> b])
    \/ \E a \in Accounts, x \in Limits :
          Ask([op |-> "plan", actor |-> a, target |-> x])

\* An administrator may set their own account.
BeginSetAnyActive(w, r) ==
    /\ Free(w)
    /\ r \in held /\ r.op \in {"disable", "enable"}
    /\ Present(r.target)
    /\ held' = held \ {r}
    /\ txn' = [txn EXCEPT ![w] =
                [at |-> "setting", actor |-> r.actor, account |-> r.target,
                 loaded |-> active[r.target], value |-> (r.op = "enable")]]
    /\ UNCHANGED <<deployed, userVars, linkVars, sessions, revoked, limits, log,
                   script>>

\* Nobody sets their own account; an unknown one is a 404.
BeginSetActive(w, r) ==
    /\ Free(w)
    /\ r \in held /\ r.op \in {"disable", "enable"}
    /\ r.target # r.actor
    /\ Present(r.target)
    /\ held' = held \ {r}
    /\ txn' = [txn EXCEPT ![w] =
                [at |-> "setting", actor |-> r.actor, account |-> r.target,
                 loaded |-> active[r.target], value |-> (r.op = "enable")]]
    /\ UNCHANGED <<deployed, userVars, linkVars, sessions, revoked, limits, log,
                   script>>

SetActiveRefused(w, r) ==
    /\ Free(w)
    /\ r \in held /\ r.op \in {"disable", "enable"}
    /\ r.target = r.actor \/ ~Present(r.target)
    /\ held' = held \ {r}
    /\ UNCHANGED <<deployed, userVars, linkVars, sessions, txn, revoked, limits,
                   log, script>>

\* The entry shows the flag as it was loaded.
CommitSetActiveOldValue(w) ==
    /\ txn[w].at = "setting"
    /\ Len(log) < MaxLog
    /\ Present(txn[w].account) /\ Present(txn[w].actor)
    /\ active' = [active EXCEPT ![txn[w].account] = txn[w].value]
    /\ log' = Append(log, [action |-> IF txn[w].loaded THEN "enabled"
                                                       ELSE "disabled",
                           actor |-> txn[w].actor, target |-> txn[w].account])
    /\ txn' = [txn EXCEPT ![w] = Idle]
    /\ UNCHANGED <<deployed, row, email, version, admin, linkVars, sessions,
                   held, revoked, limits, script>>

\* The flag and its audit row.  A flag that already had the value when it was
\* loaded is not part of the UPDATE.  The audit row names the administrator
\* through a foreign key, so both fail once that account is gone (Abort).
CommitSetActive(w) ==
    /\ txn[w].at = "setting"
    /\ Len(log) < MaxLog
    /\ Present(txn[w].account)
    /\ Present(txn[w].actor)
    /\ active' = [active EXCEPT ![txn[w].account] =
                     IF txn[w].value = txn[w].loaded THEN @ ELSE txn[w].value]
    /\ log' = Append(log, [action |-> IF txn[w].value THEN "enabled"
                                                      ELSE "disabled",
                           actor |-> txn[w].actor, target |-> txn[w].account])
    /\ txn' = [txn EXCEPT ![w] = Idle]
    /\ UNCHANGED <<deployed, row, email, version, admin, linkVars, sessions,
                   held, revoked, limits, script>>

\* update_plan notes what it is about to replace; limits outside the range the
\* deployment allows are refused before.
BeginUpdatePlan(w, r) ==
    /\ Free(w)
    /\ r \in held /\ r.op = "plan"
    /\ held' = held \ {r}
    /\ txn' = [txn EXCEPT ![w] =
                [at |-> "planning", actor |-> r.actor, before |-> limits,
                 after |-> r.target]]
    /\ UNCHANGED <<deployed, userVars, linkVars, sessions, revoked, limits, log,
                   script>>

\* What is replaced is noted after it has been replaced.
CommitUpdatePlanThenNote(w) ==
    /\ txn[w].at = "planning"
    /\ Len(log) < MaxLog
    /\ Present(txn[w].actor)
    /\ limits' = txn[w].after
    /\ log' = Append(log, [action |-> "plan", actor |-> txn[w].actor,
                           before |-> txn[w].after, after |-> txn[w].after])
    /\ txn' = [txn EXCEPT ![w] = Idle]
    /\ UNCHANGED <<deployed, userVars, linkVars, sessions, held, revoked,
                   script>>

CommitUpdatePlan(w) ==
    /\ txn[w].at = "planning"
    /\ Len(log) < MaxLog
    /\ Present(txn[w].actor)
    /\ limits' = IF txn[w].after = txn[w].before THEN limits ELSE txn[w].after
    /\ log' = Append(log, [action |-> "plan", actor |-> txn[w].actor,
                           before |-> txn[w].before, after |-> txn[w].after])
    /\ txn' = [txn EXCEPT ![w] = Idle]
    /\ UNCHANGED <<deployed, userVars, linkVars, sessions, held, revoked,
                   script>>

-----------------------------------------------------------------------------
(* promote_admin.py, a process beside the workers.                         *)

\* An account that is already an administrator is left alone.
BeginPromote(a) ==
    /\ script = NoAccount
    /\ Present(a)
    /\ ~admin[a]
    /\ script' = a
    /\ UNCHANGED <<accountVars, limits, log>>

CommitPromote ==
    /\ script # NoAccount
    /\ Present(script)
    /\ Len(log) < MaxLog
    /\ admin' = [admin EXCEPT ![script] = TRUE]
    /\ log' = Append(log, [action |-> "promoted", actor |-> NoAccount,
                           target |-> script])
    /\ script' = NoAccount
    /\ UNCHANGED <<deployed, row, email, version, active, linkVars, sessions,
                   txn, held, revoked, limits>>

\* The account is gone, or the script dies.
AbortPromote ==
    /\ script # NoAccount
    /\ script' = NoAccount
    /\ UNCHANGED <<accountVars, limits, log>>

\* ON DELETE CASCADE
UnlinkByCascade(a) ==
    LET Stays(entry) == entry.actor # a IN log' = SelectSeq(log, Stays)

\* Deleting an account unlinks its entries (ON DELETE SET NULL).
Unlink(a) ==
    log' = [i \in DOMAIN log |-> IF log[i].actor = a
                                   THEN [log[i] EXCEPT !.actor = NoAccount]
                                   ELSE log[i]]

-----------------------------------------------------------------------------
AccountStep ==
    \/ \E w \in Workers, a \in Accounts :
          Signup(w, a) \/ Login(w, a) \/ BeginForgot(w, a)
    \/ \E w \in Workers :
          LockOldLinks(w) \/ MailAccepted(w) \/ MailFails(w) \/ CommitForgot(w)
            \/ CommitReset(w) \/ Abort(w)
    \/ \E w \in Workers, l \in Links : BeginReset(w, l)
    \/ \E l \in Links : LinkExpires(l)
    \/ Purge
    \/ \E a \in Accounts : AskDelete(a)
    \/ \E w \in Workers, r \in held : DeleteRefused(w, r)

Deletion ==
    /\ \E w \in Workers, r \in held : DeleteAccount(w, r) /\ Unlink(r.actor)
    /\ UNCHANGED <<limits, script>>

AdminStep ==
    \/ AskAdmin
    \/ \E w \in Workers, r \in held :
          BeginSetActive(w, r) \/ SetActiveRefused(w, r) \/ BeginUpdatePlan(w, r)
    \/ \E w \in Workers : CommitSetActive(w) \/ CommitUpdatePlan(w)
    \/ \E a \in Accounts : BeginPromote(a)
    \/ CommitPromote
    \/ AbortPromote

Next ==
    \/ AccountStep /\ UNCHANGED <<limits, log, script>>
    \/ Deletion
    \/ AdminStep

Spec == Init /\ [][Next]_vars

-----------------------------------------------------------------------------
(* Properties of the accounts.                                             *)

OneWorker == \A v, w \in deployed : v = w

\* "At most one valid reset link exists for an account at a time": a new link
\* replaces the old ones in the transaction that stores it.  Two workers can
\* each delete what they see and each store a link.
OneValidLink ==
    OneWorker => \A l, m \in Links :
                    Usable(l) /\ Usable(m) /\ linkOf[l] = linkOf[m] => l = m

\* A link sets a password at most once, with any number of workers and however
\* often it is presented, purged or replaced: the claim is one conditional
\* UPDATE, and its row stays locked until the password is stored.
LinkHonouredOnce == \A l \in Links : honoured[l] <= 1

\* A reset ends every session the account had: its version never comes back.
\* With two workers two resets may both write the same successor.
ResetEndsSessions ==
    OneWorker => \A a \in Accounts : version[a] \notin revoked[a]

\* Every link the database would honour is in a mailbox: the message is sent
\* before the transaction commits and a failed delivery rolls it back.
OpenLinkWasMailed == \A l \in Links : link[l] = "open" => l \in mailed

\* A link somebody holds is lost only to its use, to a newer link for the same
\* account that was mailed, or with the account.  In particular a request
\* whose message cannot be sent leaves the previous link alone.
LinkLostToSuccessor ==
    [][\A l \in Links :
          Usable(l) =>
            \/ link'[l] \in {"open", "used"}
            \/ row'[linkOf[l]] = "deleted"
            \/ \E m \in mailed : /\ link[m] # "open" /\ link'[m] = "open"
                                 /\ linkOf'[m] = linkOf[l]]_vars

-----------------------------------------------------------------------------
(* Properties of administration.                                           *)

\* What the log says an account's flag and a plan's limits are.
LastAbout(a) ==
    {i \in DOMAIN log :
       /\ log[i].action \in {"enabled", "disabled"} /\ log[i].target = a
       /\ \A k \in i + 1 .. Len(log) :
             ~(log[k].action \in {"enabled", "disabled"} /\ log[k].target = a)}

PlanEntries == {i \in DOMAIN log : log[i].action = "plan"}

\* "So the two can never disagree": replaying the audit log gives the flags of
\* every account, whatever became of those who changed them.
LogMatchesFlags ==
    OneWorker => \A a \in Accounts :
        /\ \A i \in LastAbout(a) : active[a] = (log[i].action = "enabled")
        /\ LastAbout(a) = {} => active[a]
        /\ admin[a] <=> \E i \in DOMAIN log : log[i].action = "promoted"
                                              /\ log[i].target = a

\* Each entry about the plan starts from the limits the one before it set, and
\* the last one set those in force.
PlanHistoryConnected ==
    OneWorker =>
        /\ \A i, k \in PlanEntries :
              i < k /\ (\A n \in PlanEntries : n <= i \/ n >= k)
                => log[i].after = log[k].before
        /\ \A i \in PlanEntries :
              (\A n \in PlanEntries : n <= i) => log[i].after = limits

\* The audit trail survives those it is about: an entry is never removed or
\* changed, except that it loses the name of an account that is deleted.
LogIsKept ==
    [][/\ Len(log') \in {Len(log), Len(log) + 1}
       /\ \A i \in DOMAIN log :
             \/ log'[i] = log[i]
             \/ /\ row[log[i].actor] = "present"
                /\ row'[log[i].actor] = "deleted"
                /\ log'[i] = [log[i] EXCEPT !.actor = NoAccount]]_vars

\* Somebody made this change while disabled: the request had been authenticated
\* before.
Overtaken ==
    \E i, k \in DOMAIN log :
       /\ i < k
       /\ log[i].action = "disabled"
       /\ log[k].actor = log[i].target
       /\ \A n \in i + 1 .. k - 1 :
             ~(log[n].action = "enabled" /\ log[n].target = log[i].target)

\* An administrator cannot lock everybody out: while no administrator's account
\* is deleted, an active one remains -- unless a change was made by one who had
\* been disabled between authentication and handler (two who disable each other
\* at the same moment succeed).
AdminRemains ==
    LET admins == {a \in Accounts : admin[a]}
    IN OneWorker /\ admins # {} /\ (\A a \in admins : Present(a)) /\ ~Overtaken
         => \E a \in admins : active[a]

=============================================================================

------------------------------- MODULE Accounts -------------------------------
(***************************************************************************)
(* Accounts, their sessions and their password-reset links: signup, login, *)
(* forgot-password, reset-password, account deletion and the purge of dead *)
(* links, over the tables users and password_reset_tokens.                 *)
(*                                                                         *)
(* A handler is a coroutine that never awaits, so a worker process runs one*)
(* at a time; but the authentication of a request is a dependency that runs*)
(* in the thread pool, before its handler gets the loop.  An authenticated *)
(* request waiting for its handler is in `held'.  A handler with more than *)
(* one statement is a transaction in steps: what it has read or will write *)
(* is in `txn' of its worker, and is the other workers' business only after*)
(* its commit.  Administration completes this module with the handlers of  *)
(* administrators and with the next-state relation.                        *)
(*                                                                         *)
(* Rate limits (module RateLimiter) and passwords are abstracted away: a   *)
(* caller either knows the password or is turned down.                     *)
(***************************************************************************)
EXTENDS Naturals, FiniteSets

CONSTANTS
    Accounts,    \* user ids (a sequence of the database, never reused)
    Emails,
    Links,       \* raw reset tokens (256 random bits, never reused)
    Workers,     \* worker processes of the API
    NoAccount,   \* NULL in a user_id column
    MaxVersion,  \* bound on auth_version
    MaxHeld      \* bound on the requests between authentication and handler

ASSUME AccountsAssumption ==
    /\ NoAccount \notin Accounts
    /\ MaxVersion \in Nat \ {0}
    /\ MaxHeld \in Nat

VARIABLES
    deployed,    \* the workers in use; docs/DEPLOYMENT.md asks for one
    \* The table users.
    row,         \* "unused": the id has not been assigned yet
    email,
    version,     \* auth_version
    active,      \* is_active
    admin,       \* is_admin
    \* The table password_reset_tokens, by raw token.
    link,        \* "unissued", "open", "used", or "gone": the row is deleted
    linkOf,      \* user_id
    expired,     \* expires_at has passed
    \* Outside the database.
    sessions,    \* versions of the access tokens an account's clients hold
    mailed,      \* reset links that reached a mailbox
    txn,         \* the transaction of each worker's handler
    held,        \* authenticated requests whose handler has not run
    \* History.
    revoked,     \* the sessions each account had when it was last reset
    honoured     \* how often each link set a password

userVars    == <<row, email, version, active, admin>>
linkVars    == <<link, linkOf, expired, mailed, honoured>>
accountVars == <<deployed, row, email, version, active, admin, link, linkOf,
                 expired, sessions, mailed, txn, held, revoked, honoured>>

-----------------------------------------------------------------------------
Versions == 1..MaxVersion

Idle == [at |-> "idle"]

\* forgot_password between its statements: the row it read, the outstanding
\* links its DELETE found, and the link it inserts.
Issuing == [at : {"deleting", "sending", "committing"}, account : Accounts,
            drops : SUBSET Links, link : Links]
\* reset_password after its claim: the user it read.
Resetting == [at : {"resetting"}, account : Accounts, link : Links,
              read : 1 .. MaxVersion - 1]

AccountsInit ==
    /\ deployed \in SUBSET Workers \ {{}}
    /\ row = [a \in Accounts |-> "unused"]
    /\ email \in [Accounts -> Emails]
    /\ version = [a \in Accounts |-> 1]
    /\ active = [a \in Accounts |-> TRUE]
    /\ admin = [a \in Accounts |-> FALSE]
    /\ link = [l \in Links |-> "unissued"]
    /\ linkOf = [l \in Links |-> NoAccount]
    /\ expired = {}
    /\ sessions = [a \in Accounts |-> {}]
    /\ mailed = {}
    /\ txn = [w \in Workers |-> Idle]
    /\ held = {}
    /\ revoked = [a \in Accounts |-> {}]
    /\ honoured = [l \in Links |-> 0]

-----------------------------------------------------------------------------
Present(a) == row[a] = "present"

\* A worker whose event loop is free for a handler.
Free(w) == w \in deployed /\ txn[w] = Idle

\* The links a worker's transaction has deleted or claimed: their rows are
\* locked until it ends.
Locks(w) ==
    CASE txn[w].at \in {"sending", "committing"} -> txn[w].drops
      [] txn[w].at = "resetting" -> {txn[w].link}
      [] OTHER -> {}

LockedByOthers(w) == UNION {Locks(v) : v \in Workers \ {w}}

\* The accounts whose rows such a transaction refers to, so that no other
\* transaction can delete them before it ends.
Pinned == {txn[v].account : v \in {x \in Workers :
                txn[x].at \in {"sending", "committing", "resetting"}}}

Outstanding(a) == {l \in Links : link[l] = "open" /\ linkOf[l] = a}

\* Links reset_password would accept now.
Usable(l) == link[l] = "open" /\ l \notin expired

\* An id is assigned with the row; the unique index on email refuses a second
\* account.  The answer carries a session.
Signup(w, a) ==
    /\ Free(w)
    /\ row[a] = "unused"
    /\ \A b \in Accounts : Present(b) => email[b] # email[a]
    /\ row' = [row EXCEPT ![a] = "present"]
    /\ sessions' = [sessions EXCEPT ![a] = {version[a]}]
    /\ UNCHANGED <<deployed, email, version, active, admin, linkVars, txn,
                   held, revoked>>

\* One SELECT; the right password for a disabled account is turned down too.
Login(w, a) ==
    /\ Free(w)
    /\ Present(a)
    /\ active[a]
    /\ sessions' = [sessions EXCEPT ![a] = @ \cup {version[a]}]
    /\ UNCHANGED <<deployed, userVars, linkVars, txn, held, revoked>>

-----------------------------------------------------------------------------
(* forgot-password: everything up to the commit is one transaction.        *)

\* The outstanding tokens are left alone.
BeginForgotKeepingOld(w, a) ==
    /\ Free(w) /\ Present(a)
    /\ \E l \in Links :
          /\ link[l] = "unissued" /\ l \notin mailed
          /\ \A v \in Workers : txn[v] = Idle
          /\ txn' = [txn EXCEPT ![w] = [at |-> "deleting", account |-> a,
                                        drops |-> {}, link |-> l]]
    /\ UNCHANGED <<deployed, userVars, linkVars, sessions, held, revoked>>

\* SELECT the user, then DELETE the outstanding tokens: those its snapshot
\* shows, whatever becomes of them while it waits for their locks.
BeginForgot(w, a) ==
    /\ Free(w)
    /\ Present(a)
    /\ \E l \in Links :
          /\ link[l] = "unissued"
          /\ l \notin mailed
          /\ \A v \in Workers : txn[v].at \in {"deleting", "sending", "committing"}
                                   => txn[v].link # l
          /\ txn' = [txn EXCEPT ![w] = [at |-> "deleting", account |-> a,
                                        drops |-> Outstanding(a), link |-> l]]
    /\ UNCHANGED <<deployed, userVars, linkVars, sessions, held, revoked>>

\* The DELETE is committed at once.
LockOldLinksForGood(w) ==
    /\ txn[w].at = "deleting"
    /\ txn[w].drops \cap LockedByOthers(w) = {}
    /\ Present(txn[w].account)
    /\ link' = [l \in Links |-> IF l \in txn[w].drops THEN "gone" ELSE link[l]]
    /\ txn' = [txn EXCEPT ![w].at = "sending", ![w].drops = {}]
    /\ UNCHANGED <<deployed, userVars, linkOf, expired, mailed, honoured,
                   sessions, held, revoked>>

\* The DELETE gets through, with what is left of those rows, and the INSERT.
LockOldLinks(w) ==
    /\ txn[w].at = "deleting"
    /\ txn[w].drops \cap LockedByOthers(w) = {}
    /\ Present(txn[w].account)
    /\ txn' = [txn EXCEPT ![w] =
                [at |-> "sending", account |-> @.account, link |-> @.link,
                 drops |-> {l \in @.drops : link[l] = "open"}]]
    /\ UNCHANGED <<deployed, userVars, linkVars, sessions, held, revoked>>

\* send_password_reset_email returns.
MailAccepted(w) ==
    /\ txn[w].at = "sending"
    /\ mailed' = mailed \cup {txn[w].link}
    /\ txn' = [txn EXCEPT ![w].at = "committing"]
    /\ UNCHANGED <<deployed, userVars, link, linkOf, expired, honoured,
                   sessions, held, revoked>>

\* The error is logged and the transaction goes on.
MailFailsQuietly(w) ==
    /\ txn[w].at = "sending"
    /\ txn' = [txn EXCEPT ![w].at = "committing"]
    /\ UNCHANGED <<deployed, userVars, linkVars, sessions, held, revoked>>

\* It raises EmailDeliveryError, perhaps after the server took the message;
\* the exception leaves the session block, which rolls back.
MailFails(w) ==
    /\ txn[w].at = "sending"
    /\ mailed' \in {mailed, mailed \cup {txn[w].link}}
    /\ txn' = [txn EXCEPT ![w] = Idle]
    /\ UNCHANGED <<deployed, userVars, link, linkOf, expired, honoured,
                   sessions, held, revoked>>

CommitForgot(w) ==
    /\ txn[w].at = "committing"
    /\ link' = [l \in Links |-> IF l = txn[w].link THEN "open"
                                ELSE IF l \in txn[w].drops THEN "gone"
                                ELSE link[l]]
    /\ linkOf' = [linkOf EXCEPT ![txn[w].link] = txn[w].account]
    /\ txn' = [txn EXCEPT ![w] = Idle]
    /\ UNCHANGED <<deployed, userVars, expired, mailed, honoured, sessions,
                   held, revoked>>

-----------------------------------------------------------------------------
(* reset-password.                                                         *)

\* A SELECT that takes no lock, and an unconditional UPDATE.
BeginResetUnlocked(w, l) ==
    /\ Free(w)
    /\ Usable(l)
    /\ l \in mailed
    /\ version[linkOf[l]] < MaxVersion
    /\ txn' = [txn EXCEPT ![w] = [at |-> "resetting", account |-> linkOf[l],
                                  link |-> l, read |-> version[linkOf[l]]]]
    /\ UNCHANGED <<deployed, userVars, linkVars, sessions, held, revoked>>

\* The conditional UPDATE of consume_reset_token, with the reads after it:
\* nobody can change the claimed row in between.
BeginReset(w, l) ==
    /\ Free(w)
    /\ Usable(l)
    /\ l \in mailed
    /\ l \notin LockedByOthers(w)
    /\ version[linkOf[l]] < MaxVersion
    /\ txn' = [txn EXCEPT ![w] = [at |-> "resetting", account |-> linkOf[l],
                                  link |-> l, read |-> version[linkOf[l]]]]
    /\ UNCHANGED <<deployed, userVars, linkVars, sessions, held, revoked>>

\* The new password alone.
CommitResetSameVersion(w) ==
    /\ txn[w].at = "resetting"
    /\ link' = [link EXCEPT ![txn[w].link] = "used"]
    /\ honoured' = [honoured EXCEPT ![txn[w].link] = @ + 1]
    /\ revoked' = [revoked EXCEPT ![txn[w].account] = sessions[txn[w].account]]
    /\ txn' = [txn EXCEPT ![w] = Idle]
    /\ UNCHANGED <<deployed, userVars, linkOf, expired, mailed, sessions, held>>

\* The new password and the successor of the version read.
CommitReset(w) ==
    /\ txn[w].at = "resetting"
    /\ LET a == txn[w].account
           l == txn[w].link
       IN /\ version' = [version EXCEPT ![a] = txn[w].read + 1]
          /\ link' = [link EXCEPT ![l] = "used"]
          /\ honoured' = [honoured EXCEPT ![l] = @ + 1]
          /\ revoked' = [revoked EXCEPT ![a] = sessions[a]]
    /\ txn' = [txn EXCEPT ![w] = Idle]
    /\ UNCHANGED <<deployed, row, email, active, admin, linkOf, expired, mailed,
                   sessions, held>>

-----------------------------------------------------------------------------
\* Any exception between two statements, a failing commit, or the death of the
\* process: get_session rolls back.  (A link already mailed stays mailed.)
Abort(w) ==
    /\ txn[w] # Idle
    /\ txn' = [txn EXCEPT ![w] = Idle]
    /\ UNCHANGED <<deployed, userVars, linkVars, sessions, held, revoked>>

LinkExpires(l) ==
    /\ Usable(l)
    /\ expired' = expired \cup {l}
    /\ UNCHANGED <<deployed, userVars, link, linkOf, mailed, honoured, sessions,
                   txn, held, revoked>>

\* cleanup_expired_password_reset_tokens, one DELETE of the cleanup script.
Purge ==
    LET dead == {l \in Links : link[l] = "used"
                               \/ (link[l] = "open" /\ l \in expired)}
        busy == UNION {Locks(w) : w \in Workers}
    IN /\ dead # {}
       /\ dead \cap busy = {}
       /\ link' = [l \in Links |-> IF l \in dead THEN "gone" ELSE link[l]]
       /\ UNCHANGED <<deployed, userVars, linkOf, expired, mailed, honoured,
                      sessions, txn, held, revoked>>

-----------------------------------------------------------------------------
(* Requests that need an account.                                          *)

\* get_current_user_optional for a client with a session of version v: the
\* row must be there, active, and of that version.
Accepted(a, v) ==
    /\ v \in sessions[a]
    /\ Present(a)
    /\ version[a] = v
    /\ active[a]

\* get_current_user_required lets a request through to the loop.
AskDelete(a) ==
    /\ \E v \in Versions : Accepted(a, v)
    /\ Cardinality(held) < MaxHeld
    /\ held' = held \cup {[op |-> "delete", actor |-> a, target |-> a]}
    /\ UNCHANGED <<deployed, userVars, linkVars, sessions, txn, revoked>>

\* delete_account, which reads the row again: gone by now, or the wrong
\* password.
DeleteRefused(w, r) ==
    /\ Free(w)
    /\ r \in held /\ r.op = "delete"
    /\ held' = held \ {r}
    /\ UNCHANGED <<deployed, userVars, linkVars, sessions, txn, revoked>>

\* The row goes, and by cascade its reset tokens; the files and jobs of the
\* account are the business of TryOnJobs.
DeleteAccount(w, r) ==
    /\ Free(w)
    /\ r \in held /\ r.op = "delete"
    /\ Present(r.actor)
    /\ r.actor \notin Pinned
    /\ row' = [row EXCEPT ![r.actor] = "deleted"]
    /\ link' = [l \in Links |-> IF linkOf[l] = r.actor THEN "gone" ELSE link[l]]
    /\ held' = held \ {r}
    /\ UNCHANGED <<deployed, email, version, active, admin, linkOf, expired,
                   mailed, honoured, sessions, txn, revoked>>

=============================================================================

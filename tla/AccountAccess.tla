---------------------------- MODULE AccountAccess ----------------------------
(***************************************************************************)
(* Who gets a session for one account: password login and its lock-out     *)
(* (internal/auth/password/service.go, internal/api/cas/login.go), password*)
(* reset by mailed link (internal/auth/passwordreset/service.go) and the   *)
(* administrator's user endpoints (internal/api/admin/users.go).           *)
(*                                                                         *)
(* Every statement these handlers run is keyed by one user id, so accounts *)
(* do not meet and the module keeps one.  No handler opens a transaction:  *)
(* each SQL statement is a step, and a login or a change in flight holds   *)
(* what it has read or still has to do.                                    *)
(*                                                                         *)
(* Hashing salts every password, so each UpsertCredential installs a hash  *)
(* never seen before: the model numbers them, and 0 means the account has  *)
(* no credential row (it was made by federation).                          *)
(***************************************************************************)
EXTENDS Integers, FiniteSets, Sequences

CONSTANTS
    Logins,             \* concurrent logins
    Changes,            \* concurrent handlers that change the account
    Links,              \* password reset tokens
    Sessions,           \* ids of sessions
    MaxFailedAttempts,  \* maxFailedAttempts
    VersionBound,       \* bound: the last credential version
    CountBound,         \* bound: a lock-out lapses while the counter is below
    LostBound,          \* bound: failures that go unrecorded
    None                \* no such row, no request

ASSUME BoundsAreNaturals ==
    /\ MaxFailedAttempts \in Nat \ {0}
    /\ VersionBound \in Nat /\ CountBound \in Nat /\ LostBound \in Nat
ASSUME LoginsAreFinite == IsFiniteSet(Logins)

VARIABLES
    status,    \* users.status
    deleted,   \* users.deleted_at is set
    cred,      \* the user_credentials row
    link,      \* password_reset_tokens
    session,   \* sessions of this user
    login,     \* logins in flight
    change     \* change handlers in flight

\* History: what the properties speak of and no table holds.
VARIABLES
    guesses,   \* wrong passwords since the counter was zeroed or a lock lapsed
    lost,      \* failures that were not recorded
    purged,    \* newest credential whose handler has also revoked the sessions
    barred     \* disabled, and the sessions revoked by a handler, since

account == <<status, deleted, cred, link, session>>
counts == <<guesses, lost>>
fences == <<purged, barred>>
vars == <<account, login, change, counts, fences>>

Versions == 0 .. VersionBound

Credential == [version : Versions, failed : Nat, locked : BOOLEAN]

\* version: the credential the password was checked against; overtaken: all
\* sessions of the user were revoked while this login was in flight.
Login == [pc : {"credential", "count", "lock", "zero", "gate", "session", "challenge"},
          version : Versions, overtaken : BOOLEAN]

SessionRow == [live : BOOLEAN, version : Versions, overtaken : BOOLEAN]

Statements == {"upsert", "disable", "delete", "enable", "zero", "revoke", "mark", "purge"}

\* todo: the statements the handler has still to run; version: the credential
\* it has written; revoked: it has revoked the sessions (history).
Change == [todo : Seq(Statements), version : Versions, link : Links \cup {None},
           revoked : BOOLEAN]

ASSUME NoneIsNoRow == None \notin Login \cup SessionRow \cup Change \cup Links

TypeOK ==
    /\ status \in {"active", "disabled"}
    /\ deleted \in BOOLEAN
    /\ cred \in Credential
    /\ link \in [Links -> {"unsent", "sent", "used", "expired", "deleted"}]
    /\ session \in [Sessions -> SessionRow \cup {None}]
    /\ login \in [Logins -> Login \cup {None}]
    /\ change \in [Changes -> Change \cup {None}]
    /\ guesses \in Nat /\ lost \in 0 .. LostBound
    /\ purged \in Versions /\ barred \in BOOLEAN

Init ==
    /\ status = "active" /\ deleted = FALSE
    /\ cred \in {[version |-> v, failed |-> 0, locked |-> FALSE] : v \in {0, 1} \cap Versions}
    /\ link = [k \in Links |-> "unsent"]
    /\ session = [s \in Sessions |-> None]
    /\ login = [l \in Logins |-> None]
    /\ change = [h \in Changes |-> None]
    /\ guesses = 0 /\ lost = 0 /\ purged = 0 /\ barred = FALSE

-----------------------------------------------------------------------------
(* POST /cas/login: Authenticate, the MFA gate, the session.               *)

LoginAt(l, pc) == login[l] # None /\ login[l].pc = pc

GoTo(l, pc) == login' = [login EXCEPT ![l].pc = pc]

FindUser(l) ==
    /\ login[l] = None
    /\ ~deleted /\ status = "active"
    /\ login' = [login EXCEPT ![l] =
           [pc |-> "credential", version |-> 0, overtaken |-> FALSE]]
    /\ UNCHANGED <<account, change, counts, fences>>

\* Mutation: locked_until is not looked at.
ReadCredentialLocked(l, right) ==
    /\ LoginAt(l, "credential")
    /\ cred.version > 0
    /\ login' = [login EXCEPT ![l].version = cred.version,
                              ![l].pc = IF right THEN "zero" ELSE "count"]
    /\ guesses' = IF right THEN guesses ELSE guesses + 1
    /\ UNCHANGED <<account, change, lost, fences>>

\* GetCredential, the lock-out check and VerifyPassword work on one snapshot;
\* the hash takes long, and the answer is acted on by later statements.
ReadCredential(l, right) ==
    /\ LoginAt(l, "credential")
    /\ cred.version > 0
    /\ ~cred.locked
    /\ login' = [login EXCEPT ![l].version = cred.version,
                              ![l].pc = IF right THEN "zero" ELSE "count"]
    /\ guesses' = IF right THEN guesses ELSE guesses + 1
    /\ UNCHANGED <<account, change, lost, fences>>

\* recordFailure: IncrementFailedAttempts, then SetLockout on the threshold.
CountFailure(l) ==
    /\ LoginAt(l, "count")
    /\ cred' = [cred EXCEPT !.failed = @ + 1]
    /\ login' = [login EXCEPT ![l] = IF cred.failed + 1 >= MaxFailedAttempts
                                     THEN [@ EXCEPT !.pc = "lock"] ELSE None]
    /\ UNCHANGED <<status, deleted, link, session, change, counts, fences>>

SetLockout(l) ==
    /\ LoginAt(l, "lock")
    /\ cred' = [cred EXCEPT !.locked = TRUE]
    /\ login' = [login EXCEPT ![l] = None]
    /\ UNCHANGED <<status, deleted, link, session, change, counts, fences>>

\* The statement of recordFailure fails and is logged, or the server stops.
LoseFailure(l) ==
    /\ LoginAt(l, "count") \/ LoginAt(l, "lock")
    /\ lost < LostBound
    /\ lost' = lost + 1
    /\ login' = [login EXCEPT ![l] = None]
    /\ UNCHANGED <<account, change, guesses, fences>>

\* ResetFailedAttempts as any handler runs it; it touches an existing row.
Zeroed == IF cred.version = 0 THEN cred ELSE [cred EXCEPT !.failed = 0, !.locked = FALSE]

ZeroFailures(l) ==
    /\ LoginAt(l, "zero")
    /\ cred' = Zeroed
    /\ guesses' = 0
    /\ GoTo(l, "gate")
    /\ UNCHANGED <<status, deleted, link, session, change, lost, fences>>

\* The error of ResetFailedAttempts is logged and the login goes on.
SkipZero(l) ==
    /\ LoginAt(l, "zero")
    /\ GoTo(l, "gate")
    /\ UNCHANGED <<account, change, counts, fences>>

\* StatusForUser: a user with a confirmed second factor gets a signed cookie
\* naming the user, anyone else a session.
MFAGate(l) ==
    /\ LoginAt(l, "gate")
    /\ \E pc \in {"session", "challenge"} : GoTo(l, pc)
    /\ UNCHANGED <<account, change, counts, fences>>

\* sessions.Create asks nothing of the user or the credential.  A challenge
\* cookie is not recorded anywhere, so it serves until it expires.
CreateSession(l, s) ==
    /\ LoginAt(l, "session") \/ LoginAt(l, "challenge")
    /\ session[s] = None
    /\ session' = [session EXCEPT ![s] =
           [live |-> TRUE, version |-> login[l].version, overtaken |-> login[l].overtaken]]
    /\ login' = IF login[l].pc = "challenge" THEN login ELSE [login EXCEPT ![l] = None]
    /\ UNCHANGED <<status, deleted, cred, link, change, counts, fences>>

\* A refused login, an expired challenge, a crash where nothing was to record.
AbandonLogin(l) ==
    /\ login[l] # None
    /\ login[l].pc \notin {"count", "lock"}
    /\ login' = [login EXCEPT ![l] = None]
    /\ UNCHANGED <<account, change, counts, fences>>

-----------------------------------------------------------------------------
(* Handlers that change the account, as lists of statements.               *)

Open(h, todo, k) ==
    /\ change[h] = None
    /\ change' = [change EXCEPT ![h] =
           [todo |-> todo, version |-> 0, link |-> k, revoked |-> FALSE]]
    /\ UNCHANGED <<account, login, counts, fences>>

\* Mutations: the sessions are revoked before the change that bars new ones.
RevokeFirst == <<"revoke", "upsert", "zero", "mark", "purge">>
LockLast == <<"revoke", "disable">>

ResetStatements == <<"upsert", "zero", "revoke", "mark", "purge">>
AdminResetStatements == <<"upsert", "zero", "revoke">>
LockStatements == <<"disable", "revoke">>
DeleteStatements == <<"delete", "revoke">>
UnlockStatements == <<"enable", "zero">>

\* Request: the lookup ignores the status.  A user deleted before the insert
\* gets a link that Verify refuses like an expired one.
RequestReset(k) ==
    /\ ~deleted
    /\ link[k] = "unsent"
    /\ link' = [link EXCEPT ![k] = "sent"]
    /\ UNCHANGED <<status, deleted, cred, session, login, change, counts, fences>>

\* Reset begins with Verify: the token row is read, not taken, and then the
\* user; as no user is undeleted, a user found later is there already.
Reset(h, k) ==
    /\ link[k] = "sent"
    /\ ~deleted
    /\ Open(h, ResetStatements, k)

ResetUserPassword(h) == ~deleted /\ Open(h, AdminResetStatements, None)

LockUser(h) == Open(h, LockStatements, None)

UnlockUser(h) == Open(h, UnlockStatements, None)

DeleteUser(h) == Open(h, DeleteStatements, None)

RevokeUserSessions(h) == Open(h, <<"revoke">>, None)

\* Mutation: the CHECK constraint on users.status admits "pending".
UpdateUserPending(s) ==
    /\ ~deleted
    /\ status' = IF s = "disabled" THEN "pending" ELSE s
    /\ barred' = (barred /\ s = "disabled")
    /\ UNCHANGED <<deleted, cred, link, session, login, change, counts, purged>>

\* PATCH: one UPDATE; disabling an account here leaves its sessions alone.
\* "pending" passes the handler's check and fails the table's.
UpdateUser(s) ==
    /\ ~deleted
    /\ status' = s
    /\ barred' = (barred /\ s = "disabled")
    /\ UNCHANGED <<deleted, cred, link, session, login, change, counts, purged>>

Runs(h, statement) == change[h] # None /\ Head(change[h].todo) = statement

\* The handler goes on to its next statement, or answers.
AdvanceAt(h, version, revoked) ==
    change' = [change EXCEPT ![h] =
        IF Len(@.todo) = 1
        THEN None
        ELSE [todo |-> Tail(@.todo), version |-> version, link |-> @.link,
              revoked |-> revoked]]

Advance(h) == AdvanceAt(h, change[h].version, change[h].revoked)

\* UpsertCredential zeroes the counter and lifts the lock as well.
RunUpsert(h) ==
    /\ Runs(h, "upsert")
    /\ cred.version < VersionBound
    /\ cred' = [version |-> cred.version + 1, failed |-> 0, locked |-> FALSE]
    /\ AdvanceAt(h, cred.version + 1, change[h].revoked)
    /\ guesses' = 0
    /\ purged' = IF change[h].revoked THEN cred.version + 1 ELSE purged
    /\ UNCHANGED <<status, deleted, link, session, login, lost, barred>>

\* UpdateUser by lockUser, and SoftDeleteUser.
RunDisable(h) ==
    /\ Runs(h, "disable") \/ Runs(h, "delete")
    /\ ~deleted
    /\ status' = "disabled"
    /\ deleted' = Runs(h, "delete")
    /\ Advance(h)
    /\ barred' = (barred \/ change[h].revoked)
    /\ UNCHANGED <<cred, link, session, login, counts, purged>>

\* UpdateUser by unlockUser.
RunEnable(h) ==
    /\ Runs(h, "enable")
    /\ ~deleted
    /\ status' = "active"
    /\ Advance(h)
    /\ barred' = FALSE
    /\ UNCHANGED <<deleted, cred, link, session, login, counts, purged>>

RunZero(h) ==
    /\ Runs(h, "zero")
    /\ cred' = Zeroed
    /\ guesses' = 0
    /\ Advance(h)
    /\ UNCHANGED <<status, deleted, link, session, login, lost, fences>>

\* RevokeAllSessionsForUser.
RunRevoke(h) ==
    /\ Runs(h, "revoke")
    /\ session' = [s \in Sessions |->
           IF session[s] = None THEN None ELSE [session[s] EXCEPT !.live = FALSE]]
    /\ login' = [l \in Logins |->
           IF login[l] = None THEN None ELSE [login[l] EXCEPT !.overtaken = TRUE]]
    /\ purged' = IF change[h].version > purged THEN change[h].version ELSE purged
    /\ barred' = (status = "disabled")
    /\ AdvanceAt(h, change[h].version, TRUE)
    /\ UNCHANGED <<status, deleted, cred, link, counts>>

RunMark(h) ==
    /\ Runs(h, "mark")
    /\ LET k == change[h].link
       IN  link' = IF link[k] = "deleted" THEN link ELSE [link EXCEPT ![k] = "used"]
    /\ Advance(h)
    /\ UNCHANGED <<status, deleted, cred, session, login, counts, fences>>

RunPurge(h) ==
    /\ Runs(h, "purge")
    /\ link' = [k \in Links |-> IF link[k] = "unsent" THEN "unsent" ELSE "deleted"]
    /\ Advance(h)
    /\ UNCHANGED <<status, deleted, cred, session, login, counts, fences>>

\* Errors of these statements are ignored or logged, and the handler goes on.
SkipStatement(h) ==
    /\ Runs(h, "zero") \/ Runs(h, "revoke") \/ Runs(h, "mark") \/ Runs(h, "purge")
    /\ Advance(h)
    /\ UNCHANGED <<account, login, counts, fences>>

\* An error answer (the user is gone, the password too weak), or a crash.
AbandonChange(h) ==
    /\ change[h] # None
    /\ change' = [change EXCEPT ![h] = None]
    /\ UNCHANGED <<account, login, counts, fences>>

-----------------------------------------------------------------------------
(* The clock, and the user's own logout.                                   *)

\* locked_until passes; nothing resets failed_attempts.
LockLapses ==
    /\ cred.locked
    /\ cred.failed < CountBound
    /\ cred' = [cred EXCEPT !.locked = FALSE]
    /\ guesses' = 0
    /\ UNCHANGED <<status, deleted, link, session, login, change, lost, fences>>

ExpireLink(k) ==
    /\ link[k] = "sent"
    /\ link' = [link EXCEPT ![k] = "expired"]
    /\ UNCHANGED <<status, deleted, cred, session, login, change, counts, fences>>

EndSession(s) ==
    /\ session[s] # None
    /\ session[s].live
    /\ session' = [session EXCEPT ![s].live = FALSE]
    /\ UNCHANGED <<status, deleted, cred, link, login, change, counts, fences>>

-----------------------------------------------------------------------------
LoginStep(l) ==
    \/ FindUser(l)
    \/ \E right \in BOOLEAN : ReadCredential(l, right)
    \/ CountFailure(l) \/ SetLockout(l) \/ LoseFailure(l)
    \/ ZeroFailures(l) \/ SkipZero(l) \/ MFAGate(l)
    \/ \E s \in Sessions : CreateSession(l, s)
    \/ AbandonLogin(l)

OpenStep(h) ==
    \/ \E k \in Links : Reset(h, k)
    \/ ResetUserPassword(h) \/ LockUser(h) \/ UnlockUser(h) \/ DeleteUser(h)
    \/ RevokeUserSessions(h)

StatementStep(h) ==
    \/ RunUpsert(h) \/ RunDisable(h) \/ RunEnable(h)
    \/ RunZero(h) \/ RunRevoke(h) \/ RunMark(h) \/ RunPurge(h)
    \/ SkipStatement(h) \/ AbandonChange(h)

OtherStep ==
    \/ \E s \in {"active", "disabled"} : UpdateUser(s)
    \/ \E k \in Links : RequestReset(k) \/ ExpireLink(k)
    \/ \E s \in Sessions : EndSession(s)
    \/ LockLapses

Next ==
    \/ \E l \in Logins : LoginStep(l)
    \/ \E h \in Changes : OpenStep(h) \/ StatementStep(h)
    \/ OtherStep

Spec == Init /\ [][Next]_vars

-----------------------------------------------------------------------------
(* Properties                                                              *)

\* Lock-out bounds guessing even though the lock is read long before it is
\* written: between two moments at which the counter is zeroed or a lock
\* lapses, at most maxFailedAttempts - 1 wrong passwords are checked, plus one
\* for each login that can be in flight and one for each failure whose
\* recording was lost (Authenticate, recordFailure).
GuessBudget == guesses <= MaxFailedAttempts - 1 + Cardinality(Logins) + lost

\* Once a handler has replaced the password and revoked the sessions, a session
\* that was opened with an older password lives only if its login was in flight
\* when they were revoked (Reset, resetUserPassword: replace first, then revoke).
ChangeEndsOldSessions ==
    \A s \in Sessions :
        session[s] # None /\ session[s].live /\ session[s].version < purged
          => session[s].overtaken

\* Once a handler has disabled the account and revoked its sessions, and until
\* it is enabled again, a session lives only if its login was in flight when
\* they were revoked (lockUser, deleteUser: disable first, then revoke).
DisabledAccountsStayOut ==
    \A s \in Sessions :
        barred /\ session[s] # None /\ session[s].live => session[s].overtaken

-----------------------------------------------------------------------------
(* The inductive invariants behind them.                                   *)

\* Statements that bar logins begun later from what they had access to.
Bars(s) == s \in {"upsert", "disable", "delete"}

\* No such statement is left once the sessions are revoked.
RevokesLast(c) ==
    \A i \in 1 .. Len(c.todo) : Bars(c.todo[i]) =>
        ~c.revoked /\ \A j \in 1 .. i : c.todo[j] # "revoke"

\* A handler in flight has a statement to run, bars before it revokes, and
\* knows no credential newer than the row's.
Progressing ==
    /\ \A h \in Changes : change[h] # None =>
          /\ change[h].todo # <<>> /\ RevokesLast(change[h])
          /\ change[h].version <= cred.version
    /\ purged <= cred.version
    /\ barred => status = "disabled"

\* A login that no revocation overtook began while the account was enabled,
\* and checked a credential that no completed change has replaced.
LoginsAreCurrent ==
    \A l \in Logins : login[l] # None /\ ~login[l].overtaken =>
        /\ ~barred
        /\ login[l].pc # "credential" => login[l].version >= purged

FenceInv == Progressing /\ LoginsAreCurrent /\ ChangeEndsOldSessions /\ DisabledAccountsStayOut

\* Logins that found the password wrong and have not recorded it, and those
\* that have and are about to lock the account.
Counting == {l \in Logins : LoginAt(l, "count")}
Locking == {l \in Logins : LoginAt(l, "lock")}

\* Every wrong password is in the counter, on its way to it, or lost; and while
\* the account is unlocked those past the threshold are on their way to lock it.
BudgetInv ==
    /\ guesses <= cred.failed + Cardinality(Counting) + lost
    /\ ~cred.locked =>
          guesses <= MaxFailedAttempts - 1 + Cardinality(Counting \cup Locking) + lost
    /\ GuessBudget

\* A handler replaces the password first or not at all; if it does so for a link,
\* the link was sent and nobody has used it since (as long as handlers do not
\* overlap; the link may have expired in between).
LinksAreFresh ==
    \A h \in Changes : change[h] # None =>
        /\ \A i \in 2 .. Len(change[h].todo) : change[h].todo[i] # "upsert"
        /\ Runs(h, "upsert") /\ change[h].link # None
              => link[change[h].link] \in {"sent", "expired"}
=============================================================================

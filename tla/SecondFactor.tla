---------------------------- MODULE SecondFactor ----------------------------
(***************************************************************************)
(* The second factors of one user: the gate a login meets after the        *)
(* password or the identity provider (internal/api/cas/login.go,           *)
(* internal/api/federation/handler.go), the challenge and enrolment        *)
(* endpoints (internal/api/mfa/handler.go, internal/auth/mfa) and the      *)
(* administrator's removal of factors (internal/api/admin/mfa.go).         *)
(*                                                                         *)
(* Every statement is keyed by one user id, so the module keeps one user.  *)
(* Only ReplaceBackupCodes runs in a transaction (READ COMMITTED); all     *)
(* other statements are steps of their own.  A handler checks its session  *)
(* or its challenge cookie first and may be slow afterwards.               *)
(***************************************************************************)
EXTENDS Integers, FiniteSets

CONSTANTS
    TOTPs,           \* ids of TOTP methods
    Keys,            \* ids of WebAuthn methods
    CodeSets,        \* sets of backup codes, one for each generation
    BackupCodeCount, \* backupCodeCount
    Logins,          \* concurrent logins
    Challenges,      \* challenge cookies
    Attempts,        \* concurrent requests that answer a challenge
    Changes,         \* concurrent handlers that replace codes or remove all
    Sessions,        \* ids of sessions
    ForceMFA,        \* FORCE_MFA
    None             \* no such row, no request

ASSUME CountIsPositive == BackupCodeCount \in Nat \ {0}
ASSUME ForceIsBoolean == ForceMFA \in BOOLEAN
ASSUME FactorsDiffer ==
    /\ TOTPs \cap Keys = {}
    /\ (TOTPs \cup Keys) \cap (CodeSets \X (1 .. BackupCodeCount)) = {}
    /\ None \notin TOTPs \cup Keys \cup (CodeSets \X (1 .. BackupCodeCount))
ASSUME AttemptsDiffer == {"none", "valid", "spent"} \cap Attempts = {} /\ None \notin Sessions

Methods == TOTPs \cup Keys
Codes == CodeSets \X (1 .. BackupCodeCount)
CodesOf(n) == {n} \X (1 .. BackupCodeCount)

VARIABLES
    method,      \* user_mfa_methods
    code,        \* user_backup_codes
    session,     \* sessions of this user
    challenge,   \* iam_mfa_challenge cookies
    ceremonies,  \* iam_webauthn_session cookies: the keys each one allows
    login,       \* logins in flight
    attempt,     \* answers to a challenge in flight
    change       \* handlers that replace codes or remove factors in flight

\* History: methods that a finished removal of all factors had listed.
VARIABLE cleared

vars == <<method, code, session, challenge, ceremonies, login, attempt, change, cleared>>

\* guarded: the user has had a confirmed method ever since the login began
\* (history).
Login == [pc : {"gate", "session"}, origin : {"password", "federation"}, guarded : BOOLEAN]

\* by: the factor presented.
Attempt == [pc : {"verify", "mark", "session"}, by : Methods \cup Codes \cup {None}]

\* todo: methods still to delete; doomed: codes the transaction deletes when it
\* commits; fresh: it inserts a new set.  listed, whole: the methods there were
\* when it listed them, and no deletion has failed (history).
Change == [pc : {"methods", "commit"}, todo : SUBSET Methods, doomed : SUBSET Codes,
           fresh : BOOLEAN, listed : SUBSET Methods, whole : BOOLEAN]

SessionRow == [acr : {"0", "1"}, by : Methods \cup Codes \cup {None}, guarded : BOOLEAN]

ASSUME NoneIsNoRow == None \notin Login \cup Attempt \cup Change \cup SessionRow

TypeOK ==
    /\ method \in [Methods -> {"none", "pending", "confirmed", "deleted"}]
    /\ code \in [Codes -> {"none", "unused", "used", "deleted"}]
    /\ session \in [Sessions -> SessionRow \cup {None}]
    /\ challenge \in [Challenges -> {"unissued", "live", "expired"}]
    /\ ceremonies \subseteq SUBSET Keys
    /\ login \in [Logins -> Login \cup {None}]
    /\ attempt \in [Attempts -> Attempt \cup {None}]
    /\ change \in [Changes -> Change \cup {None}]
    /\ cleared \subseteq Methods

Init ==
    /\ method = [m \in Methods |-> "none"]
    /\ code = [c \in Codes |-> "none"]
    /\ session = [s \in Sessions |-> None]
    /\ challenge = [c \in Challenges |-> "unissued"]
    /\ ceremonies = {}
    /\ login = [l \in Logins |-> None]
    /\ attempt = [a \in Attempts |-> None]
    /\ change = [g \in Changes |-> None]
    /\ cleared = {}

Rows == <<method, code, session>>
Cookies == <<challenge, ceremonies>>

Confirmed == {m \in Methods : method[m] = "confirmed"}
Enrolled == Confirmed # {}

-----------------------------------------------------------------------------
(* Logins: the gate after the first factor.                                *)

\* The password or the identity provider has been accepted.
BeginLogin(l, origin) ==
    /\ login[l] = None
    /\ login' = [login EXCEPT ![l] = [pc |-> "gate", origin |-> origin, guarded |-> Enrolled]]
    /\ UNCHANGED <<Rows, Cookies, attempt, change, cleared>>

Required == Enrolled \/ ForceMFA
EnrollmentRequired == Required /\ ~Enrolled

\* Mutation: only authenticator apps count as a second factor.
ChallengedForTOTP(origin) ==
    \/ \E m \in TOTPs : method[m] = "confirmed"
    \/ ForceMFA /\ origin = "federation"

\* The password login lets a user who has yet to enrol pass, the callback of an
\* identity provider does not.
Challenged(origin) == Required /\ (origin = "federation" \/ ~EnrollmentRequired)

\* StatusForUser, acted upon at once: a signed cookie, or on to a session.
IssueChallenge(l, c) ==
    /\ login[l] # None
    /\ login[l].pc = "gate"
    /\ Challenged(login[l].origin)
    /\ challenge[c] = "unissued"
    /\ challenge' = [challenge EXCEPT ![c] = "live"]
    /\ login' = [login EXCEPT ![l] = None]
    /\ UNCHANGED <<Rows, ceremonies, attempt, change, cleared>>

PassGate(l) ==
    /\ login[l] # None
    /\ login[l].pc = "gate"
    /\ ~Challenged(login[l].origin)
    /\ login' = [login EXCEPT ![l].pc = "session"]
    /\ UNCHANGED <<Rows, Cookies, attempt, change, cleared>>

\* sessions.Create with ACR 0.  Under ForceMFA a second look at the status only
\* chooses the page the browser is sent to.
CreateSession(l, s) ==
    /\ login[l] # None
    /\ login[l].pc = "session"
    /\ session[s] = None
    /\ session' = [session EXCEPT ![s] =
           [acr |-> "0", by |-> None, guarded |-> login[l].guarded]]
    /\ login' = [login EXCEPT ![l] = None]
    /\ UNCHANGED <<method, code, Cookies, attempt, change, cleared>>

AbandonLogin(l) ==
    /\ login[l] # None
    /\ login' = [login EXCEPT ![l] = None]
    /\ UNCHANGED <<Rows, Cookies, attempt, change, cleared>>

-----------------------------------------------------------------------------
(* Answers to a challenge.                                                 *)

\* challengeTTL; a cookie is not forgotten by the server when it has served.
ExpireChallenge(c) ==
    /\ challenge[c] = "live"
    /\ challenge' = [challenge EXCEPT ![c] = "expired"]
    /\ UNCHANGED <<Rows, ceremonies, login, attempt, change, cleared>>

Challenging == \E c \in Challenges : challenge[c] = "live"

ReadChallenge(a) ==
    /\ attempt[a] = None
    /\ Challenging
    /\ attempt' = [attempt EXCEPT ![a] = [pc |-> "verify", by |-> None]]
    /\ UNCHANGED <<Rows, Cookies, login, change, cleared>>

AttemptAt(a, pc) == attempt[a] # None /\ attempt[a].pc = pc

Present(a, factor, pc) == attempt' = [attempt EXCEPT ![a] = [pc |-> pc, by |-> factor]]

\* The right code for a confirmed method; last_used_at is only displayed.
VerifyTOTP(a, m) ==
    /\ AttemptAt(a, "verify")
    /\ method[m] = "confirmed"
    /\ Present(a, m, "session")
    /\ UNCHANGED <<Rows, Cookies, login, change, cleared>>

BeginWebAuthnLogin ==
    /\ Challenging
    /\ Confirmed \cap Keys # {}
    /\ ceremonies' = ceremonies \cup {Confirmed \cap Keys}
    /\ UNCHANGED <<Rows, challenge, login, attempt, change, cleared>>

\* An assertion by a key the ceremony allows and the user still has.  Nothing
\* reads the counter that is stored with the method.
FinishWebAuthnLogin(a, m) ==
    /\ AttemptAt(a, "verify")
    /\ \E allowed \in ceremonies : m \in allowed
    /\ method[m] = "confirmed"
    /\ Present(a, m, "session")
    /\ UNCHANGED <<Rows, Cookies, login, change, cleared>>

\* ListUnusedBackupCodes, and the slow comparison that finds the code.
ListUnusedBackupCodes(a, c) ==
    /\ AttemptAt(a, "verify")
    /\ code[c] = "unused"
    /\ Present(a, c, "mark")
    /\ UNCHANGED <<Rows, Cookies, login, change, cleared>>

\* Mutation: the UPDATE does not ask for used_at IS NULL.
MarkBackupCodeAgain(a) ==
    /\ AttemptAt(a, "mark")
    /\ LET c == attempt[a].by
       IN  IF code[c] \in {"unused", "used"}
           THEN /\ code' = [code EXCEPT ![c] = "used"]
                /\ Present(a, c, "session")
           ELSE /\ attempt' = [attempt EXCEPT ![a] = None]
                /\ UNCHANGED code
    /\ UNCHANGED <<method, session, Cookies, login, change, cleared>>

\* UPDATE ... WHERE used_at IS NULL: one of several verifications gets the row.
MarkBackupCodeUsed(a) ==
    /\ AttemptAt(a, "mark")
    /\ LET c == attempt[a].by
       IN  IF code[c] = "unused"
           THEN /\ code' = [code EXCEPT ![c] = "used"]
                /\ Present(a, c, "session")
           ELSE /\ attempt' = [attempt EXCEPT ![a] = None]
                /\ UNCHANGED code
    /\ UNCHANGED <<method, session, Cookies, login, change, cleared>>

\* sessions.Create with ACR 1; nothing is looked at again.
FinishChallenge(a, s) ==
    /\ AttemptAt(a, "session")
    /\ session[s] = None
    /\ session' = [session EXCEPT ![s] =
           [acr |-> "1", by |-> attempt[a].by, guarded |-> FALSE]]
    /\ attempt' = [attempt EXCEPT ![a] = None]
    /\ UNCHANGED <<method, code, Cookies, login, change, cleared>>

\* A wrong answer, a failing statement, a crash.
AbandonAttempt(a) ==
    /\ attempt[a] # None
    /\ attempt' = [attempt EXCEPT ![a] = None]
    /\ UNCHANGED <<Rows, Cookies, login, change, cleared>>

-----------------------------------------------------------------------------
(* Enrolment and removal.  requireSession's session may have ended when the *)
(* handler goes on, so all that can be said is that there was one.          *)

SignedIn == \E s \in Sessions : session[s] # None

SetMethod(m, status) ==
    /\ method' = [method EXCEPT ![m] = status]
    /\ UNCHANGED <<code, session, Cookies, login, attempt, change, cleared>>

BeginTOTPEnrollment(m) == SignedIn /\ method[m] = "none" /\ SetMethod(m, "pending")

\* The reads before it only refuse what the UPDATE's guard refuses.
ConfirmTOTPEnrollment(m) == SignedIn /\ method[m] = "pending" /\ SetMethod(m, "confirmed")

FinishWebAuthnRegistration(m) == SignedIn /\ method[m] = "none" /\ SetMethod(m, "confirmed")

\* The DELETE, and what it means to logins that rely on the method.
Delete(m) ==
    /\ method' = [method EXCEPT ![m] = "deleted"]
    /\ login' = [l \in Logins |->
           IF login[l] = None THEN None
           ELSE [login[l] EXCEPT !.guarded = @ /\ Confirmed \ {m} # {}]]

\* By the user, or by an administrator.
DeleteMFAMethod(m) ==
    /\ method[m] \in {"pending", "confirmed"}
    /\ Delete(m)
    /\ UNCHANGED <<code, session, Cookies, attempt, change, cleared>>

BeginChange(g, fresh, todo, listed) ==
    /\ change[g] = None
    /\ change' = [change EXCEPT ![g] =
           [pc |-> "methods", todo |-> todo, doomed |-> {}, fresh |-> fresh,
            listed |-> listed, whole |-> TRUE]]
    /\ UNCHANGED <<Rows, Cookies, login, attempt, cleared>>

GenerateBackupCodes(g) == SignedIn /\ BeginChange(g, TRUE, {}, {})

Listed == {m \in Methods : method[m] \in {"pending", "confirmed"}}

\* Mutation: enrolments that are not confirmed yet are not listed.
DeleteConfirmedUserMFA(g) == BeginChange(g, FALSE, Confirmed, Listed)

\* ListAllMFAMethods, then one DELETE for each, then no codes.
DeleteAllUserMFA(g) == BeginChange(g, FALSE, Listed, Listed)

ChangeAt(g, pc) == change[g] # None /\ change[g].pc = pc

\* A method that is gone already makes the DELETE fail, which is ignored.
DeleteListed(g, m) ==
    /\ ChangeAt(g, "methods")
    /\ m \in change[g].todo
    /\ Delete(m)
    /\ change' = [change EXCEPT ![g].todo = @ \ {m}]
    /\ UNCHANGED <<code, session, Cookies, attempt, cleared>>

SkipListed(g, m) ==
    /\ ChangeAt(g, "methods")
    /\ m \in change[g].todo
    /\ change' = [change EXCEPT ![g].todo = @ \ {m}, ![g].whole = FALSE]
    /\ UNCHANGED <<Rows, Cookies, login, attempt, cleared>>

\* ReplaceBackupCodes: its DELETE sees the rows committed when it begins.
DeleteOldCodes(g) ==
    /\ ChangeAt(g, "methods")
    /\ change[g].todo = {}
    /\ change' = [change EXCEPT ![g].pc = "commit",
                                ![g].doomed = {c \in Codes : code[c] \in {"unused", "used"}}]
    /\ UNCHANGED <<Rows, Cookies, login, attempt, cleared>>

\* COMMIT of the DELETE and the INSERTs.  A verification that marks a doomed
\* code meanwhile did so before the DELETE reached the row; after that it waits.
CommitCodes(g, n) ==
    /\ ChangeAt(g, "commit")
    /\ change[g].fresh => \A c \in CodesOf(n) : code[c] = "none"
    /\ code' = [c \in Codes |->
           IF c \in change[g].doomed THEN "deleted"
           ELSE IF change[g].fresh /\ c \in CodesOf(n) THEN "unused" ELSE code[c]]
    /\ cleared' = IF change[g].whole THEN cleared \cup change[g].listed ELSE cleared
    /\ change' = [change EXCEPT ![g] = None]
    /\ UNCHANGED <<method, session, Cookies, login, attempt>>

\* Rollback, an error, a crash.
AbandonChange(g) ==
    /\ change[g] # None
    /\ change' = [change EXCEPT ![g] = None]
    /\ UNCHANGED <<Rows, Cookies, login, attempt, cleared>>

-----------------------------------------------------------------------------
LoginStep(l) ==
    \/ \E origin \in {"password", "federation"} : BeginLogin(l, origin)
    \/ \E c \in Challenges : IssueChallenge(l, c)
    \/ PassGate(l)
    \/ \E s \in Sessions : CreateSession(l, s)
    \/ AbandonLogin(l)

AttemptStep(a) ==
    \/ ReadChallenge(a)
    \/ \E m \in TOTPs : VerifyTOTP(a, m)
    \/ \E m \in Keys : FinishWebAuthnLogin(a, m)
    \/ \E c \in Codes : ListUnusedBackupCodes(a, c)
    \/ MarkBackupCodeUsed(a)
    \/ \E s \in Sessions : FinishChallenge(a, s)
    \/ AbandonAttempt(a)

ChangeStep(g) ==
    \/ GenerateBackupCodes(g) \/ DeleteAllUserMFA(g)
    \/ \E m \in Methods : DeleteListed(g, m) \/ SkipListed(g, m)
    \/ DeleteOldCodes(g)
    \/ \E n \in CodeSets : CommitCodes(g, n)
    \/ AbandonChange(g)

MethodStep ==
    \/ \E m \in TOTPs : BeginTOTPEnrollment(m) \/ ConfirmTOTPEnrollment(m)
    \/ \E m \in Keys : FinishWebAuthnRegistration(m)
    \/ \E m \in Methods : DeleteMFAMethod(m)

Next ==
    \/ \E l \in Logins : LoginStep(l)
    \/ \E a \in Attempts : AttemptStep(a)
    \/ \E g \in Changes : ChangeStep(g)
    \/ MethodStep
    \/ \E c \in Challenges : ExpireChallenge(c)
    \/ BeginWebAuthnLogin

Spec == Init /\ [][Next]_vars

-----------------------------------------------------------------------------
(* Properties                                                              *)

\* Each backup code opens at most one session, however many requests present
\* it at once and whatever replaces the set meanwhile (VerifyBackupCode: the
\* list is read long before the row is marked).
BackupCodesWorkOnce ==
    \A s1, s2 \in Sessions :
        /\ session[s1] # None /\ session[s2] # None
        /\ session[s1].by \in Codes /\ session[s1].by = session[s2].by
        => s1 = s2

\* A user who has a confirmed method all through a login, be it one after the
\* other, does not get a session without answering a challenge (loginPOST and
\* callback decide on a list of methods they have read before).
GuardedLoginsAreChallenged ==
    \A s \in Sessions : session[s] # None /\ session[s].acr = "0" => ~session[s].guarded

\* Once a removal of all factors is done and none of its deletions has failed,
\* no method begun before it is usable, not even an enrolment that was pending
\* and has been confirmed while the loop ran (deleteAllUserMFA).
ClearedMethodsStayOut == \A m \in cleared : method[m] # "confirmed"

-----------------------------------------------------------------------------
(* What makes these properties inductive.                                  *)

\* A code that has been presented is spent, and one request or session has it.
Holds(a, c) == AttemptAt(a, "session") /\ attempt[a].by = c
OpenedBy(s, c) == session[s] # None /\ session[s].by = c

CodesHaveOneHolder ==
    \A c \in Codes :
        /\ \A a \in Attempts : Holds(a, c) =>
              /\ code[c] \in {"used", "deleted"}
              /\ \A b \in Attempts : Holds(b, c) => a = b
              /\ \A s \in Sessions : ~OpenedBy(s, c)
        /\ \A s \in Sessions : OpenedBy(s, c) =>
              /\ code[c] \in {"used", "deleted"}
              /\ \A r \in Sessions : OpenedBy(r, c) => s = r

MarkingCodes == \A a \in Attempts : AttemptAt(a, "mark") => attempt[a].by \in Codes

GuardsHold ==
    \A l \in Logins : login[l] # None /\ login[l].guarded =>
        login[l].pc = "gate" /\ Enrolled

RemovalsSucceed ==
    /\ \A g \in Changes : change[g] # None =>
          /\ change[g].pc = "commit" => change[g].todo = {}
          /\ change[g].whole => \A m \in change[g].listed \ change[g].todo : method[m] = "deleted"
    /\ \A m \in cleared : method[m] = "deleted"

FactorInv ==
    /\ CodesHaveOneHolder /\ MarkingCodes
    /\ GuardsHold /\ GuardedLoginsAreChallenged
    /\ RemovalsSucceed

\* A transaction deletes codes that had been issued.
DoomedCodesExist ==
    \A g \in Changes : change[g] # None => \A c \in change[g].doomed : code[c] # "none"

-----------------------------------------------------------------------------
(* The refinement: who has each backup code, and what it has opened.       *)

Holder(c) ==
    CASE code[c] = "none" -> "none"
      [] code[c] = "unused" -> "valid"
      [] \E a \in Attempts : Holds(a, c) -> CHOOSE a \in Attempts : Holds(a, c)
      [] OTHER -> "spent"

Opened(c) ==
    IF \E s \in Sessions : OpenedBy(s, c)
    THEN CHOOSE s \in Sessions : OpenedBy(s, c) ELSE None

Credential == INSTANCE OneTimeCredential WITH
    Credentials <- Codes, Takers <- Attempts, Results <- Sessions, Nothing <- None,
    holder <- [c \in Codes |-> Holder(c)],
    opened <- [c \in Codes |-> Opened(c)]

\* A backup code is a one-time credential: whatever presents it and whatever
\* replaces its set meanwhile, one request gets it, and one that goes no further
\* does not give it back (MarkBackupCodeUsed, ReplaceBackupCodes).
BackupCodesAreOneTime == Credential!CredentialSpec
=============================================================================

---------------------------- MODULE Administrators ----------------------------
(***************************************************************************)
(* Who administers the installation: the check in front of the admin API   *)
(* (protected in internal/api/admin/handler.go), and the handlers that     *)
(* change accounts behind it (internal/api/admin/users.go).  The check     *)
(* reads the session and the account of the caller; the handlers keep the  *)
(* caller from hurting its own account, and act in statements of their     *)
(* own.  cmd/seed-user makes the first administrator.                      *)
(*                                                                         *)
(* Each SQL statement is a step, so that callers overtake each other       *)
(* between the check and the statement.                                    *)
(***************************************************************************)
EXTENDS FiniteSets

CONSTANTS
    Users,  \* ids of users, created or not
    Calls,  \* concurrent calls of the admin API
    Asked,  \* what they ask for
    None

Row == [status : {"active", "disabled"}, admin : BOOLEAN, deleted : BOOLEAN]

\* What a call asks for: PATCH, lock, unlock, delete or create.
Request ==
    [kind : {"update"}, status : {"same", "active", "disabled", "pending"},
                        rights : {"same", "grant", "remove"}]
        \cup [kind : {"lock", "delete"}, status : {"disabled"}, rights : {"same"}]
        \cup [kind : {"unlock"}, status : {"active"}, rights : {"same"}]
        \cup [kind : {"create"}, status : {"active"}, rights : {"same", "grant"}]

Call == [request : Request, actor : Users, target : Users,
         pc : {"actor", "guard", "flags", "undo", "revoke"}]

ASSUME AskedIsARequest == Asked \subseteq Request
ASSUME NoneIsNothing == None \notin Row \cup Call

VARIABLES
    user,      \* rows of users; None: not inserted
    signedIn,  \* users with a session that is live
    call,      \* calls under way
    overtaken  \* history: a caller who had lost its rights took those of another

vars == <<user, signedIn, call, overtaken>>

TypeOK ==
    /\ user \in [Users -> Row \cup {None}]
    /\ signedIn \subseteq Users
    /\ call \in [Calls -> Call \cup {None}]
    /\ overtaken \in BOOLEAN

Exists(u) == user[u] # None /\ ~user[u].deleted

\* Whom protected lets pass.
Administrator(u) == Exists(u) /\ user[u].status = "active" /\ user[u].admin

\* After seed-user -admin.
Init ==
    /\ user \in [Users -> {None, [status |-> "active", admin |-> TRUE, deleted |-> FALSE]}]
    /\ \E u \in Users : Administrator(u)
    /\ signedIn = {}
    /\ call = [c \in Calls |-> None]
    /\ overtaken = FALSE

-----------------------------------------------------------------------------
(* The check in front of every handler.                                    *)

At(c, pc) == call[c] # None /\ call[c].pc = pc
Kind(c, kinds) == call[c].request.kind \in kinds
Continue(c, pc) == call' = [call EXCEPT ![c].pc = pc]
Leave(c) == call' = [call EXCEPT ![c] = None]

\* protected: an active session.
Receive(c, u, q, t) ==
    /\ call[c] = None /\ u \in signedIn
    /\ call' = [call EXCEPT ![c] = [request |-> q, actor |-> u, target |-> t, pc |-> "actor"]]
    /\ UNCHANGED <<user, signedIn, overtaken>>

\* protected: the caller's account, active and an administrator's.
LoadActor(c) ==
    /\ At(c, "actor") /\ Administrator(call[c].actor)
    /\ Continue(c, "guard")
    /\ UNCHANGED <<user, signedIn, overtaken>>

\* Mutation: updateUser looks at the status only.
HurtsItselfByStatus(c) ==
    call[c].actor = call[c].target /\ call[c].request.status = "disabled"

\* self_demote, self_disable, self_delete and self_lock.
HurtsItself(c) ==
    /\ call[c].actor = call[c].target
    /\ \/ call[c].request.status = "disabled"
       \/ call[c].request.rights = "remove"

\* Refused, failed, or the client has gone and the context with it.
EndCall(c) ==
    /\ call[c] # None /\ Leave(c)
    /\ UNCHANGED <<user, signedIn, overtaken>>

-----------------------------------------------------------------------------
(* The statements of the handlers.                                         *)

\* For the history.
ByCaller(c) ==
    LET taken == \E u \in Users : Administrator(u) /\ ~Administrator(u)'
    IN  overtaken' = (overtaken \/ (taken /\ ~Administrator(call[c].actor)))

\* UpdateUser with the fields that are given.
Edited(row, q) ==
    [row EXCEPT !.status = IF q.status = "same" THEN @ ELSE q.status,
                !.admin = IF q.rights = "same" THEN @ ELSE q.rights = "grant"]

\* Mutation: a table without the CHECK constraint.
StorableAlways(q) == TRUE

\* The CHECK constraint of users.status refuses what updateUser lets pass.
Storable(q) == q.status # "pending"

\* updateUser, lockUser and unlockUser; only lockUser goes on to the sessions.
UpdateUser(c) ==
    LET t == call[c].target
    IN  /\ At(c, "guard") /\ Kind(c, {"update", "lock", "unlock"}) /\ ~HurtsItself(c)
        /\ Exists(t) /\ Storable(call[c].request)
        /\ user' = [user EXCEPT ![t] = Edited(@, call[c].request)]
        /\ IF Kind(c, {"lock"}) THEN Continue(c, "revoke") ELSE Leave(c)
        /\ ByCaller(c)
        /\ UNCHANGED signedIn

SoftDeleted(row) == [row EXCEPT !.status = "disabled", !.deleted = TRUE]

\* deleteUser.
DeleteUser(c) ==
    LET t == call[c].target
    IN  /\ At(c, "guard") /\ Kind(c, {"delete"}) /\ ~HurtsItself(c)
        /\ Exists(t)
        /\ user' = [user EXCEPT ![t] = SoftDeleted(@)]
        /\ Continue(c, "revoke")
        /\ ByCaller(c)
        /\ UNCHANGED signedIn

\* deleteUser and lockUser, the end.
RevokeSessions(c) ==
    /\ At(c, "revoke")
    /\ signedIn' = signedIn \ {call[c].target}
    /\ Leave(c)
    /\ UNCHANGED <<user, overtaken>>

\* createUser: the row, its credential (which may fail), and the flags.
InsertUser(c) ==
    LET t == call[c].target
    IN  /\ At(c, "guard") /\ Kind(c, {"create"})
        /\ user[t] = None
        /\ user' = [user EXCEPT ![t] = [status |-> "active", admin |-> FALSE, deleted |-> FALSE]]
        /\ \E pc \in {"flags", "undo"} : Continue(c, pc)
        /\ UNCHANGED <<signedIn, overtaken>>

UndoInsert(c) ==
    /\ At(c, "undo")
    /\ user' = [user EXCEPT ![call[c].target] =
                   IF Exists(call[c].target) THEN SoftDeleted(@) ELSE @]
    /\ Leave(c)
    /\ ByCaller(c)
    /\ UNCHANGED signedIn

SetFlags(c) ==
    /\ At(c, "flags")
    /\ user' = [user EXCEPT ![call[c].target] =
                   IF Exists(call[c].target)
                   THEN Edited(@, [call[c].request EXCEPT !.status = "same"]) ELSE @]
    /\ Leave(c)
    /\ ByCaller(c)
    /\ UNCHANGED signedIn

-----------------------------------------------------------------------------
(* Sessions, and seed-user.                                                *)

\* A login that read the row a while ago; AccountAccess models what it checks.
OpenSession(u) ==
    /\ user[u] # None /\ signedIn' = signedIn \cup {u}
    /\ UNCHANGED <<user, call, overtaken>>

\* Sessions expire, and users sign out.
EndSession(u) ==
    /\ u \in signedIn /\ signedIn' = signedIn \ {u}
    /\ UNCHANGED <<user, call, overtaken>>

\* seed-user -admin: a new account, and the promotion of one that exists.
SeedUser(u) ==
    /\ user[u] = None
    /\ user' = [user EXCEPT ![u] = [status |-> "active", admin |-> FALSE, deleted |-> FALSE]]
    /\ UNCHANGED <<signedIn, call, overtaken>>

Promote(u) ==
    /\ Exists(u)
    /\ user' = [user EXCEPT ![u].admin = TRUE]
    /\ UNCHANGED <<signedIn, call, overtaken>>

-----------------------------------------------------------------------------

Protected(c) ==
    \/ \E u, t \in Users, q \in Asked : Receive(c, u, q, t)
    \/ LoadActor(c) \/ EndCall(c)

Handler(c) ==
    \/ UpdateUser(c) \/ DeleteUser(c) \/ RevokeSessions(c)
    \/ InsertUser(c) \/ UndoInsert(c) \/ SetFlags(c)

Next ==
    \/ \E c \in Calls : Protected(c) \/ Handler(c)
    \/ \E u \in Users : OpenSession(u) \/ EndSession(u) \/ SeedUser(u) \/ Promote(u)

Spec == Init /\ [][Next]_vars

-----------------------------------------------------------------------------

\* The guards look at the caller's own account only, and that is enough to keep
\* an administrator, unless a statement is made for a caller whose rights
\* another call has taken since they were checked: two administrators who
\* remove each other (protected, updateUser, deleteUser, lockUser).
AdministratorsRemain == (\E u \in Users : Administrator(u)) \/ overtaken

=============================================================================

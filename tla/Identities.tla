----------------------------- MODULE Identities -----------------------------
(***************************************************************************)
(* Who an account belongs to: self-service signup and the confirmation of  *)
(* its address (internal/auth/signup), sign-in through an identity         *)
(* provider, which finds, links or creates an account                      *)
(* (internal/auth/federation), and the administrator who creates, edits,   *)
(* deletes and unlinks accounts (internal/api/admin).                      *)
(*                                                                         *)
(* No handler opens a transaction: each statement of the store is a step   *)
(* of its own, and what keeps the tables sound are two unique indexes, on  *)
(* the address of the accounts that are not deleted and on the account at  *)
(* the provider.  An account's status and its sessions are not here.       *)
(***************************************************************************)
EXTENDS Naturals

CONSTANTS
    Users,         \* ids of rows of users
    Emails,        \* addresses, compared without case (citext)
    Subs,          \* accounts at identity providers: (provider, sub)
    Links,         \* ids of rows of user_identities
    Flows,         \* concurrent handlers that may create an account
    Verifications, \* concurrent confirmations of an address
    Unlinks,       \* concurrent removals of a link
    None           \* no such row, NULL, no request

VARIABLES
    user,   \* users, with whether user_credentials has a row
    token,  \* email_verification_tokens: Register gives a user its only one
    link,   \* user_identities
    flow,   \* Register, LinkOrCreate and createUser in flight
    verify, \* Verify in flight
    unlink  \* unlinkUserFederation in flight

\* History.  home[s]: the accounts that logins by s were answered with since s
\* was last unlinked, save those let in although the link could not be stored.
\* stranded: accounts whose creation broke off before there was a way in.
VARIABLES home, stranded

vars == <<user, token, link, flow, verify, unlink, home, stranded>>

\* History: held, the addresses it has had; born, the provider account it was
\* created for; checked, the address email_verified_at was last set for; moved,
\* the address was edited since then, or since a handler looked at it.
UserRow == [email : Emails \cup {None}, deleted : BOOLEAN, verified : BOOLEAN,
            password : BOOLEAN, held : SUBSET Emails, born : Subs \cup {None},
            checked : Emails \cup {None}, moved : BOOLEAN]

TokenRow == [email : Emails, status : {"issued", "expired", "used", "deleted"}]

\* proof: the address the provider had verified when the link was made (history).
LinkRow == [user : Users, sub : Subs, removed : BOOLEAN, proof : Emails \cup {None}]

\* proven: the provider, or the administrator, vouches for the address.
Flow == [kind : {"signup", "federation", "admin"},
         pc : {"address", "insert", "credential", "token", "mail", "flags", "undo",
               "autolink", "link"},
         email : Emails \cup {None}, proven : BOOLEAN,
         sub : Subs \cup {None}, user : Users \cup {None}]

Verification == [pc : {"user", "used", "verified", "cleanup"}, user : Users, email : Emails]

Unlink == [pc : {"password", "others", "delete"}, link : Links]

ASSUME NoneIsNothing ==
    None \notin Users \cup Emails \cup Subs \cup UserRow \cup TokenRow \cup LinkRow
                    \cup Flow \cup Verification \cup Unlink

TypeOK ==
    /\ user \in [Users -> UserRow \cup {None}]
    /\ token \in [Users -> TokenRow \cup {None}]
    /\ link \in [Links -> LinkRow \cup {None}]
    /\ flow \in [Flows -> Flow \cup {None}]
    /\ verify \in [Verifications -> Verification \cup {None}]
    /\ unlink \in [Unlinks -> Unlink \cup {None}]
    /\ home \in [Subs -> SUBSET Users]
    /\ stranded \subseteq Users

Init ==
    /\ user = [u \in Users |-> None]
    /\ token = [u \in Users |-> None]
    /\ link = [k \in Links |-> None]
    /\ flow = [f \in Flows |-> None]
    /\ verify = [v \in Verifications |-> None]
    /\ unlink = [n \in Unlinks |-> None]
    /\ home = [s \in Subs |-> {}]
    /\ stranded = {}

Requests == <<flow, verify, unlink>>
History == <<home, stranded>>

Active(u) == user[u] # None /\ ~user[u].deleted
Linked(k) == link[k] # None /\ ~link[k].removed

\* users_email_active_uq, which is also what GetUserByEmail finds.
HeldBy(e) == {u \in Users : Active(u) /\ user[u].email = e}

LinkOf(s) == {k \in Links : Linked(k) /\ link[k].sub = s}

\* GetUserByProviderSub: the join leaves out deleted users.
KnownAs(s) == {u \in Users : Active(u) /\ \E k \in LinkOf(s) : link[k].user = u}

-----------------------------------------------------------------------------
(* Creating an account: signup, an administrator, an identity provider.    *)

Start(f, kind, pc, e, proven, s) ==
    /\ flow[f] = None
    /\ flow' = [flow EXCEPT ![f] =
                   [kind |-> kind, pc |-> pc, email |-> e, proven |-> proven,
                    sub |-> s, user |-> None]]

FlowAt(f, pc) == flow[f] # None /\ flow[f].pc = pc

Advance(f, pc) == flow' = [flow EXCEPT ![f].pc = pc]
EndFlow(f) == flow' = [flow EXCEPT ![f] = None]

\* The look-up before the insert; hashing the password comes in between.
Register(f, e) ==
    /\ HeldBy(e) = {}
    /\ Start(f, "signup", "insert", e, FALSE, None)
    /\ UNCHANGED <<user, token, link, verify, unlink, History>>

AdminCreate(f, e, vouched) ==
    /\ HeldBy(e) = {}
    /\ Start(f, "admin", "insert", e, vouched, None)
    /\ UNCHANGED <<user, token, link, verify, unlink, History>>

\* LinkOrCreate: the provider account is known, and its user answers.
SignInKnown(s) ==
    /\ \E u \in KnownAs(s) : home' = [home EXCEPT ![s] = @ \cup {u}]
    /\ UNCHANGED <<user, token, link, Requests, stranded>>

SignInUnknown(f, s, e, proven) ==
    /\ KnownAs(s) = {}
    /\ proven => e # None
    /\ Start(f, "federation", "address", e, proven, s)
    /\ UNCHANGED <<user, token, link, verify, unlink, History>>

\* Mutation: the address links whether it was verified or not.
ResolveAnyAddress(r) ==
    LET taken == r.email # None /\ HeldBy(r.email) # {}
    IN  IF taken
        THEN [r EXCEPT !.pc = "autolink", !.user = CHOOSE u \in HeldBy(r.email) : TRUE]
        ELSE [r EXCEPT !.pc = "insert"]

\* Mutation: the account that was found is not handed on.
ResolveToNobody(r) ==
    LET taken == r.email # None /\ HeldBy(r.email) # {}
    IN  IF taken /\ r.proven THEN [r EXCEPT !.pc = "autolink"]
        ELSE [r EXCEPT !.pc = "insert", !.email = IF taken THEN None ELSE @]

\* An address the provider verified links to the account that has it; one it
\* did not verify is dropped when another account has it.
Resolve(r) ==
    LET taken == r.email # None /\ HeldBy(r.email) # {}
    IN  IF taken /\ r.proven
        THEN [r EXCEPT !.pc = "autolink", !.user = CHOOSE u \in HeldBy(r.email) : TRUE]
        ELSE [r EXCEPT !.pc = "insert", !.email = IF taken THEN None ELSE @]

LookUpAddress(f) ==
    /\ FlowAt(f, "address")
    /\ flow' = [flow EXCEPT ![f] = Resolve(@)]
    /\ UNCHANGED <<user, token, link, verify, unlink, History>>

\* Mutation: no unique index, only the look-up.
MayAlwaysHold(e) == e \in Emails \cup {None}

\* The unique index; NULLs never collide.
MayHold(e) == e = None \/ HeldBy(e) = {}

NewUser(r) ==
    [email |-> r.email, deleted |-> FALSE, verified |-> FALSE, password |-> FALSE,
     held |-> {r.email} \ {None}, born |-> r.sub, checked |-> None, moved |-> FALSE]

CreateUser(f, u) ==
    /\ FlowAt(f, "insert")
    /\ user[u] = None
    /\ MayHold(flow[f].email)
    /\ user' = [user EXCEPT ![u] = NewUser(flow[f])]
    /\ flow' = [flow EXCEPT
                   ![f].user = u,
                   ![f].pc = IF flow[f].kind = "federation" THEN "link" ELSE "credential"]
    /\ UNCHANGED <<token, link, verify, unlink, History>>

\* UpsertCredential.
StoreCredential(f) ==
    /\ FlowAt(f, "credential")
    /\ user' = [user EXCEPT ![flow[f].user].password = TRUE]
    /\ IF flow[f].kind = "signup" THEN Advance(f, "token")
       ELSE IF flow[f].proven THEN Advance(f, "flags") ELSE EndFlow(f)
    /\ UNCHANGED <<token, link, verify, unlink, History>>

CreateEmailVerificationToken(f) ==
    /\ FlowAt(f, "token")
    /\ token' = [token EXCEPT ![flow[f].user] =
                    [email |-> flow[f].email, status |-> "issued"]]
    /\ Advance(f, "mail")
    /\ UNCHANGED <<user, link, verify, unlink, History>>

\* Without the mail nobody knows the token.
SendMail(f) ==
    /\ FlowAt(f, "mail")
    /\ EndFlow(f)
    /\ UNCHANGED <<user, token, link, verify, unlink, History>>

MarkVerified(u, e) ==
    user' = [user EXCEPT ![u].verified = TRUE, ![u].checked = e]

\* UpdateUser, whose failure nobody hears of.
SetFlags(f) ==
    /\ FlowAt(f, "flags")
    /\ Active(flow[f].user)
    /\ MarkVerified(flow[f].user, flow[f].email)
    /\ EndFlow(f)
    /\ UNCHANGED <<token, link, verify, unlink, History>>

\* createIdentity: one row for each provider account.
InsertLink(f, k) ==
    /\ link[k] = None
    /\ LinkOf(flow[f].sub) = {}
    /\ link' = [link EXCEPT ![k] =
                   [user |-> flow[f].user, sub |-> flow[f].sub, removed |-> FALSE,
                    proof |-> IF flow[f].proven THEN flow[f].email ELSE None]]
    /\ home' = [home EXCEPT ![flow[f].sub] = @ \cup {flow[f].user}]
    /\ stranded' = stranded \ {flow[f].user}
    /\ EndFlow(f)
    /\ UNCHANGED <<user, token, verify, unlink>>

\* Mutation: the new account is let in although its link could not be stored.
CreateIdentityOrCarryOn(f, k) ==
    /\ FlowAt(f, "link")
    /\ \/ InsertLink(f, k)
       \/ /\ LinkOf(flow[f].sub) # {}
          /\ home' = [home EXCEPT ![flow[f].sub] = @ \cup {flow[f].user}]
          /\ EndFlow(f)
          /\ UNCHANGED <<user, token, link, verify, unlink, stranded>>

CreateIdentity(f, k) == FlowAt(f, "link") /\ InsertLink(f, k)

AutoLink(f, k) == FlowAt(f, "autolink") /\ InsertLink(f, k)

\* The insert fails, and the login goes ahead all the same.
AutoLinkFails(f) ==
    /\ FlowAt(f, "autolink")
    /\ EndFlow(f)
    /\ UNCHANGED <<user, token, link, verify, unlink, History>>

\* createUser takes an account without a credential back, unless that fails too.
SoftDelete(u) == user' = [user EXCEPT ![u].deleted = TRUE]

CredentialFails(f) ==
    /\ FlowAt(f, "credential")
    /\ flow[f].kind = "admin"
    /\ Advance(f, "undo")
    /\ UNCHANGED <<user, token, link, verify, unlink, History>>

Undo(f) ==
    /\ FlowAt(f, "undo")
    /\ Active(flow[f].user)
    /\ SoftDelete(flow[f].user)
    /\ EndFlow(f)
    /\ UNCHANGED <<token, link, verify, unlink, History>>

\* Any other error, the insert that a unique index refused among them, ends the
\* request where it is.
AbandonFlow(f) ==
    /\ flow[f] # None
    /\ flow[f].pc # "autolink"
    /\ ~(FlowAt(f, "credential") /\ flow[f].kind = "admin")
    /\ EndFlow(f)
    /\ stranded' = IF flow[f].pc \in {"credential", "undo", "link"}
                   THEN stranded \cup {flow[f].user} ELSE stranded
    /\ UNCHANGED <<user, token, link, verify, unlink, home>>

-----------------------------------------------------------------------------
(* Confirming an address.                                                  *)

VerifyAt(v, pc) == verify[v] # None /\ verify[v].pc = pc
EndVerify(v) == verify' = [verify EXCEPT ![v] = None]

\* The token as it is read: unused, and not too old.
Verify(v, u) ==
    /\ verify[v] = None
    /\ token[u] # None
    /\ token[u].status = "issued"
    /\ verify' = [verify EXCEPT ![v] = [pc |-> "user", user |-> u, email |-> token[u].email]]
    /\ UNCHANGED <<user, token, link, flow, unlink, History>>

\* Mutation: any address will do.
HasAddress(u, e) == user[u].email # None /\ e # None

\* The email guard.
SameAddress(u, e) == user[u].email = e

GetUserByID(v) ==
    /\ VerifyAt(v, "user")
    /\ Active(verify[v].user)
    /\ SameAddress(verify[v].user, verify[v].email)
    /\ verify' = [verify EXCEPT ![v].pc = "used"]
    /\ UNCHANGED <<user, token, link, flow, unlink, History>>

\* Unconditional: a second confirmation marks it again.
MarkTokenUsed(v) ==
    /\ VerifyAt(v, "used")
    /\ token' = [token EXCEPT ![verify[v].user].status =
                    IF @ = "deleted" THEN @ ELSE "used"]
    /\ verify' = [verify EXCEPT ![v].pc = "verified"]
    /\ UNCHANGED <<user, link, flow, unlink, History>>

\* Unconditional too: WHERE id = $1.
MarkUserEmailVerified(v) ==
    /\ VerifyAt(v, "verified")
    /\ MarkVerified(verify[v].user, verify[v].email)
    /\ verify' = [verify EXCEPT ![v].pc = "cleanup"]
    /\ UNCHANGED <<token, link, flow, unlink, History>>

DeleteToken(u) == token' = [token EXCEPT ![u].status = "deleted"]

DeleteTokensForUser(v) ==
    /\ VerifyAt(v, "cleanup")
    /\ DeleteToken(verify[v].user)
    /\ EndVerify(v)
    /\ UNCHANGED <<user, link, flow, unlink, History>>

\* A refusal, or an error; only a failed clean-up is not reported.
AbandonVerify(v) ==
    /\ verify[v] # None
    /\ EndVerify(v)
    /\ UNCHANGED <<user, token, link, flow, unlink, History>>

ExpireToken(u) ==
    /\ token[u] # None
    /\ token[u].status = "issued"
    /\ token' = [token EXCEPT ![u].status = "expired"]
    /\ UNCHANGED <<user, link, Requests, History>>

\* The clean-up goes by age: a used token is as old in the end.
SweepToken(u) ==
    /\ token[u] # None
    /\ token[u].status \in {"expired", "used"}
    /\ DeleteToken(u)
    /\ UNCHANGED <<user, link, Requests, History>>

-----------------------------------------------------------------------------
(* The administrator.                                                      *)

\* A handler has looked at u's address and will mark it verified.
BeingChecked(u) ==
    \/ \E v \in Verifications :
           verify[v] # None /\ verify[v].user = u /\ verify[v].pc \in {"used", "verified"}
    \/ \E f \in Flows : flow[f] # None /\ flow[f].user = u /\ flow[f].kind = "admin"

\* PATCH: the edit leaves email_verified_at as it is.
ChangeEmail(u, e) ==
    /\ Active(u)
    /\ HeldBy(e) \subseteq {u}
    /\ user' = [user EXCEPT
                   ![u].email = e, ![u].held = @ \cup {e},
                   ![u].moved = @ \/ user[u].verified \/ BeingChecked(u)]
    /\ UNCHANGED <<token, link, Requests, History>>

\* The links stay, and so does the password.
DeleteUser(u) ==
    /\ Active(u)
    /\ SoftDelete(u)
    /\ UNCHANGED <<token, link, Requests, History>>

\* UpsertCredential for an account that was there when the handler looked:
\* resetUserPassword, or a reset by mail.  It may have been deleted meanwhile.
SetPassword(u) ==
    /\ user[u] # None
    /\ user' = [user EXCEPT ![u].password = TRUE]
    /\ stranded' = stranded \ {u}
    /\ UNCHANGED <<token, link, Requests, home>>

UnlinkAt(n, pc) == unlink[n] # None /\ unlink[n].pc = pc
EndUnlink(n) == unlink' = [unlink EXCEPT ![n] = None]

UnlinkUserFederation(n, k) ==
    /\ unlink[n] = None
    /\ Linked(k)
    /\ unlink' = [unlink EXCEPT ![n] = [pc |-> "password", link |-> k]]
    /\ UNCHANGED <<user, token, link, flow, verify, History>>

HasPassword(n) ==
    /\ UnlinkAt(n, "password")
    /\ unlink' = [unlink EXCEPT
                     ![n].pc = IF user[link[unlink[n].link].user].password
                               THEN "delete" ELSE "others"]
    /\ UNCHANGED <<user, token, link, flow, verify, History>>

\* Mutation: the one to remove is counted as well.
AllLinksOf(k) == {j \in Links : Linked(j) /\ link[j].user = link[k].user}

\* remaining: the user's links as they are now, without the one to remove.
Remaining(k) == {j \in Links : Linked(j) /\ link[j].user = link[k].user} \ {k}

ListUserIdentities(n) ==
    /\ UnlinkAt(n, "others")
    /\ IF Remaining(unlink[n].link) # {}
       THEN unlink' = [unlink EXCEPT ![n].pc = "delete"] ELSE EndUnlink(n)
    /\ UNCHANGED <<user, token, link, flow, verify, History>>

\* A hard delete: the provider account may be linked again, to anyone.
DeleteUserIdentity(n) ==
    /\ UnlinkAt(n, "delete")
    /\ Linked(unlink[n].link)
    /\ link' = [link EXCEPT ![unlink[n].link].removed = TRUE]
    /\ home' = [home EXCEPT ![link[unlink[n].link].sub] = {}]
    /\ EndUnlink(n)
    /\ UNCHANGED <<user, token, flow, verify, stranded>>

\* An error, or the link is gone already.
AbandonUnlink(n) ==
    /\ unlink[n] # None
    /\ EndUnlink(n)
    /\ UNCHANGED <<user, token, link, flow, verify, History>>

-----------------------------------------------------------------------------

SignupStep ==
    \/ \E f \in Flows, e \in Emails : Register(f, e)
    \/ \E f \in Flows, e \in Emails, vouched \in BOOLEAN : AdminCreate(f, e, vouched)
    \/ \E f \in Flows : \/ StoreCredential(f)
                        \/ CreateEmailVerificationToken(f)
                        \/ SendMail(f)
                        \/ SetFlags(f)
                        \/ CredentialFails(f)
                        \/ Undo(f)
                        \/ AbandonFlow(f)

SignInStep ==
    \/ \E s \in Subs : SignInKnown(s)
    \/ \E f \in Flows, s \in Subs, e \in Emails \cup {None}, proven \in BOOLEAN :
           SignInUnknown(f, s, e, proven)
    \/ \E f \in Flows : LookUpAddress(f) \/ AutoLinkFails(f)
    \/ \E f \in Flows, u \in Users : CreateUser(f, u)
    \/ \E f \in Flows, k \in Links : CreateIdentity(f, k) \/ AutoLink(f, k)

VerifyStep ==
    \/ \E v \in Verifications, u \in Users : Verify(v, u)
    \/ \E v \in Verifications : \/ GetUserByID(v)
                                \/ MarkTokenUsed(v)
                                \/ MarkUserEmailVerified(v)
                                \/ DeleteTokensForUser(v)
                                \/ AbandonVerify(v)
    \/ \E u \in Users : ExpireToken(u) \/ SweepToken(u)

AdminStep ==
    \/ \E u \in Users, e \in Emails : ChangeEmail(u, e)
    \/ \E u \in Users : DeleteUser(u) \/ SetPassword(u)
    \/ \E n \in Unlinks, k \in Links : UnlinkUserFederation(n, k)
    \/ \E n \in Unlinks : \/ HasPassword(n)
                          \/ ListUserIdentities(n)
                          \/ DeleteUserIdentity(n)
                          \/ AbandonUnlink(n)

Next == SignupStep \/ SignInStep \/ VerifyStep \/ AdminStep

Spec == Init /\ [][Next]_vars

-----------------------------------------------------------------------------
(* Properties                                                              *)

\* Signup, the administrator and identity providers all look an address up
\* first and insert later, and addresses are edited in between: at no time do
\* two accounts that are not deleted share one (CreateUser, UpdateUser).
OneUserPerEmail ==
    \A e \in Emails : \A u, w \in HeldBy(e) : u = w

\* As long as it is not unlinked, a provider account opens one and the same
\* account, whatever becomes of the addresses and however its logins overlap;
\* a login whose link could not be stored beside an account that has the
\* provider's address is the exception (LinkOrCreate).
OneHomePerAccount ==
    \A s \in Subs : \A u, w \in home[s] : u = w

\* A link leads to an account that was created for that provider account, or
\* that has had an address the provider verified: an address the provider only
\* claims never opens somebody's account (LinkOrCreate).
LinksAreEarned ==
    \A k \in Links : link[k] # None =>
        LET row == user[link[k].user]
        IN  row.born = link[k].sub \/ link[k].proof \in row.held

\* An address that was marked verified and not edited since is the one the
\* mail went to, or the one the administrator vouched for: a confirmation for
\* an earlier address that comes after the edit marks nothing (Verify).
VerifiedAddressWasChecked ==
    \A u \in Users : user[u] # None =>
        (user[u].verified /\ ~user[u].moved => user[u].email = user[u].checked)

HasWayIn(u) == user[u].password \/ \E k \in Links : Linked(k) /\ link[k].user = u

\* A handler that created u has not finished.
Creating(f, u) == flow[f] # None /\ flow[f].pc # "autolink" /\ flow[f].user = u

\* An account that is not deleted can be signed in to, with a password or
\* through a provider, unless its creation is under way or broke off: an
\* administrator cannot unlink the last way in (unlinkUserFederation).
UsersKeepAWayIn ==
    \A u \in Users : Active(u) =>
        \/ HasWayIn(u)
        \/ u \in stranded
        \/ \E f \in Flows : Creating(f, u)

-----------------------------------------------------------------------------
(* The inductive invariant that the properties follow from.                *)

RowsExist ==
    /\ \A u \in Users : token[u] # None => user[u] # None
    /\ \A k \in Links : link[k] # None => user[link[k].user] # None
    /\ \A v \in Verifications :
           verify[v] # None => user[verify[v].user] # None /\ token[verify[v].user] # None
    /\ \A n \in Unlinks : unlink[n] # None => link[unlink[n].link] # None

\* What a handler has found or made is there.
Founded(r) ==
    /\ r.pc \in {"address", "insert"} <=> r.user = None
    /\ r.pc \in {"address", "autolink", "link"} => r.kind = "federation"
    /\ r.pc = "credential" => r.kind # "federation"
    /\ r.pc \in {"token", "mail"} => r.kind = "signup"
    /\ r.pc \in {"flags", "undo"} => r.kind = "admin"
    /\ r.kind = "federation" => r.sub # None
    /\ r.kind # "federation" => r.email # None
    /\ r.proven => r.email # None
    /\ r.user # None => user[r.user] # None

\* And its address is the account's, unless somebody edited it.
KnowsItsUser(r) ==
    /\ r.pc = "link" => user[r.user].born = r.sub
    /\ r.pc = "autolink" => r.proven /\ r.email \in user[r.user].held
    /\ r.pc \in {"token", "mail", "flags"} => user[r.user].password
    /\ r.kind = "admin" /\ r.user # None /\ ~user[r.user].moved
           => user[r.user].email = r.email

FlowsAreFounded == \A f \in Flows : flow[f] # None => Founded(flow[f])
FlowsKnowTheirUsers == \A f \in Flows : flow[f] # None => KnowsItsUser(flow[f])

AddressesAreHeld ==
    \A u \in Users : user[u] # None => user[u].email \in user[u].held \cup {None}

OneLinkPerSub ==
    \A j, k \in Links : Linked(j) /\ Linked(k) /\ link[j].sub = link[k].sub => j = k

HomesAreLinked ==
    \A s \in Subs : \A u \in home[s] : \E k \in LinkOf(s) : link[k].user = u

ChecksAreCurrent ==
    \A v \in Verifications :
        (VerifyAt(v, "used") \/ VerifyAt(v, "verified")) /\ ~user[verify[v].user].moved
            => user[verify[v].user].email = verify[v].email

AnotherWayInRemains ==
    \A n \in Unlinks :
        UnlinkAt(n, "delete") /\ Linked(unlink[n].link) =>
            \/ user[link[unlink[n].link].user].password
            \/ Remaining(unlink[n].link) # {}

IdentityInv ==
    /\ RowsExist /\ FlowsAreFounded /\ FlowsKnowTheirUsers /\ AddressesAreHeld
    /\ OneUserPerEmail /\ OneLinkPerSub /\ HomesAreLinked /\ LinksAreEarned
    /\ ChecksAreCurrent /\ VerifiedAddressWasChecked

=============================================================================

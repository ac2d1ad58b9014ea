-------------------------- MODULE Identities_proofs ---------------------------
(***************************************************************************)
(* Proofs about who an account belongs to, for any number of users,        *)
(* addresses, provider accounts and handlers at the same time.             *)
(***************************************************************************)
EXTENDS Identities, TLAPS

Inv == TypeOK /\ IdentityInv

-----------------------------------------------------------------------------
(* Types.                                                                  *)

LEMMA StartTypes ==
    ASSUME TypeOK, NEW f \in Flows, NEW kind \in {"signup", "federation", "admin"},
           NEW pc \in {"address", "insert"}, NEW e \in Emails \cup {None},
           NEW proven \in BOOLEAN, NEW s \in Subs \cup {None}, Start(f, kind, pc, e, proven, s)
    PROVE  flow' \in [Flows -> Flow \cup {None}]
<1>1. [kind |-> kind, pc |-> pc, email |-> e, proven |-> proven, sub |-> s, user |-> None] \in Flow
  BY DEF Flow
<1> QED
  BY <1>1 DEF Start, TypeOK

LEMMA AdvanceTypes ==
    ASSUME TypeOK, NEW f \in Flows, flow[f] # None,
           NEW pc \in {"token", "mail", "flags", "undo"},
           Advance(f, pc) \/ EndFlow(f)
    PROVE  flow' \in [Flows -> Flow \cup {None}]
<1>1. [flow[f] EXCEPT !.pc = pc] \in Flow
  BY DEF Flow, TypeOK
<1> QED
  BY <1>1 DEF Advance, EndFlow, TypeOK

LEMMA RowEdits ==
    ASSUME NEW row \in UserRow, NEW e \in Emails \cup {None}, NEW b \in BOOLEAN,
           NEW held \in SUBSET Emails
    PROVE  /\ [row EXCEPT !.verified = TRUE, !.checked = e] \in UserRow
           /\ [row EXCEPT !.deleted = TRUE] \in UserRow
           /\ [row EXCEPT !.password = TRUE] \in UserRow
           /\ [row EXCEPT !.email = e, !.held = held, !.moved = b] \in UserRow
BY DEF UserRow

LEMMA MarkVerifiedTypes ==
    ASSUME TypeOK, NEW u \in Users, NEW e \in Emails \cup {None}, user[u] # None,
           MarkVerified(u, e)
    PROVE  user' \in [Users -> UserRow \cup {None}]
<1>1. [user[u] EXCEPT !.verified = TRUE, !.checked = e] \in UserRow
  BY RowEdits DEF TypeOK
<1> QED
  BY <1>1 DEF MarkVerified, TypeOK

LEMMA SoftDeleteTypes ==
    ASSUME TypeOK, NEW u \in Users, user[u] # None, SoftDelete(u)
    PROVE  user' \in [Users -> UserRow \cup {None}]
<1>1. [user[u] EXCEPT !.deleted = TRUE] \in UserRow
  BY RowEdits DEF TypeOK
<1> QED
  BY <1>1 DEF SoftDelete, TypeOK

LEMMA DeleteTokenTypes ==
    ASSUME TypeOK, NEW u \in Users, token[u] # None, DeleteToken(u)
    PROVE  token' \in [Users -> TokenRow \cup {None}]
<1>1. [token[u] EXCEPT !.status = "deleted"] \in TokenRow
  BY DEF TokenRow, TypeOK
<1> QED
  BY <1>1 DEF DeleteToken, TypeOK

LEMMA SignupTypes == ASSUME Inv, SignupStep PROVE TypeOK'
<1> USE DEF Inv, TypeOK
<1>1. ASSUME NEW f \in Flows, NEW e \in Emails, Register(f, e) PROVE TypeOK'
  <2>1. flow' \in [Flows -> Flow \cup {None}]
    BY <1>1, StartTypes DEF Register
  <2> QED
    BY <1>1, <2>1 DEF Register, History
<1>2. ASSUME NEW f \in Flows, NEW e \in Emails, NEW vouched \in BOOLEAN,
             AdminCreate(f, e, vouched)
      PROVE  TypeOK'
  <2>1. flow' \in [Flows -> Flow \cup {None}]
    BY <1>2, StartTypes DEF AdminCreate
  <2> QED
    BY <1>2, <2>1 DEF AdminCreate, History
<1>3. ASSUME NEW f \in Flows, StoreCredential(f) PROVE TypeOK'
  <2>1. flow[f] # None /\ flow[f].user \in Users /\ user[flow[f].user] # None
    BY <1>3 DEF StoreCredential, FlowAt, IdentityInv, FlowsAreFounded, Founded, Flow
  <2>2. [user[flow[f].user] EXCEPT !.password = TRUE] \in UserRow
    BY <2>1, RowEdits
  <2>3. flow' \in [Flows -> Flow \cup {None}]
    BY <1>3, <2>1, AdvanceTypes DEF StoreCredential
  <2> QED
    BY <1>3, <2>1, <2>2, <2>3 DEF StoreCredential, History
<1>4. ASSUME NEW f \in Flows, CreateEmailVerificationToken(f) PROVE TypeOK'
  <2>1. flow[f] # None /\ flow[f].user \in Users /\ flow[f].email \in Emails
    BY <1>4 DEF CreateEmailVerificationToken, FlowAt, IdentityInv, FlowsAreFounded, Founded, Flow
  <2>2. [email |-> flow[f].email, status |-> "issued"] \in TokenRow
    BY <2>1 DEF TokenRow
  <2>3. flow' \in [Flows -> Flow \cup {None}]
    BY <1>4, <2>1, AdvanceTypes DEF CreateEmailVerificationToken
  <2> QED
    BY <1>4, <2>1, <2>2, <2>3 DEF CreateEmailVerificationToken, History
<1>5. ASSUME NEW f \in Flows, SendMail(f) PROVE TypeOK'
  BY <1>5 DEF SendMail, EndFlow, History
<1>6. ASSUME NEW f \in Flows, SetFlags(f) PROVE TypeOK'
  <2>1. flow[f].user \in Users /\ flow[f].email \in Emails \cup {None}
    BY <1>6 DEF SetFlags, FlowAt, IdentityInv, FlowsAreFounded, Founded, Flow
  <2>2. user' \in [Users -> UserRow \cup {None}]
    BY <1>6, <2>1, MarkVerifiedTypes DEF SetFlags, Active
  <2> QED
    BY <1>6, <2>2 DEF SetFlags, EndFlow, History
<1>7. ASSUME NEW f \in Flows, CredentialFails(f) PROVE TypeOK'
  <2>1. flow' \in [Flows -> Flow \cup {None}]
    BY <1>7, AdvanceTypes DEF CredentialFails, FlowAt
  <2> QED
    BY <1>7, <2>1 DEF CredentialFails, History
<1>8. ASSUME NEW f \in Flows, Undo(f) PROVE TypeOK'
  <2>1. flow[f].user \in Users
    BY <1>8 DEF Undo, FlowAt, IdentityInv, FlowsAreFounded, Founded, Flow
  <2>2. user' \in [Users -> UserRow \cup {None}]
    BY <1>8, <2>1, SoftDeleteTypes DEF Undo, Active
  <2> QED
    BY <1>8, <2>2 DEF Undo, EndFlow, History
<1>9. ASSUME NEW f \in Flows, AbandonFlow(f) PROVE TypeOK'
  <2>1. stranded' \subseteq Users
    BY <1>9 DEF AbandonFlow, IdentityInv, FlowsAreFounded, Founded, Flow
  <2> QED
    BY <1>9, <2>1 DEF AbandonFlow, EndFlow
<1> QED
  BY <1>1, <1>2, <1>3, <1>4, <1>5, <1>6, <1>7, <1>8, <1>9 DEF SignupStep

LEMMA SignInTypes == ASSUME Inv, SignInStep PROVE TypeOK'
<1> USE DEF Inv, TypeOK
<1>1. ASSUME NEW s \in Subs, SignInKnown(s) PROVE TypeOK'
  <2>1. PICK u \in Users : home' = [home EXCEPT ![s] = @ \cup {u}]
    BY <1>1 DEF SignInKnown, KnownAs
  <2> QED
    BY <1>1, <2>1 DEF SignInKnown, Requests
<1>2. ASSUME NEW f \in Flows, NEW s \in Subs, NEW e \in Emails \cup {None},
             NEW proven \in BOOLEAN, SignInUnknown(f, s, e, proven)
      PROVE  TypeOK'
  <2>1. flow' \in [Flows -> Flow \cup {None}]
    BY <1>2, StartTypes DEF SignInUnknown
  <2> QED
    BY <1>2, <2>1 DEF SignInUnknown, History
<1>3. ASSUME NEW f \in Flows, LookUpAddress(f) PROVE TypeOK'
  <2>1. flow[f] \in Flow
    BY <1>3 DEF LookUpAddress, FlowAt
  <2>2. Resolve(flow[f]) \in Flow
    <3>1. ASSUME HeldBy(flow[f].email) # {}
          PROVE  (CHOOSE u \in HeldBy(flow[f].email) : TRUE) \in Users
      BY <3>1 DEF HeldBy
    <3> QED
      BY <2>1, <3>1 DEF Resolve, Flow
  <2> QED
    BY <1>3, <2>2 DEF LookUpAddress, History
<1>4. ASSUME NEW f \in Flows, AutoLinkFails(f) PROVE TypeOK'
  BY <1>4 DEF AutoLinkFails, EndFlow, History
<1>5. ASSUME NEW f \in Flows, NEW u \in Users, CreateUser(f, u) PROVE TypeOK'
  <2>1. flow[f] \in Flow
    BY <1>5 DEF CreateUser, FlowAt
  <2>2. NewUser(flow[f]) \in UserRow
    BY <2>1 DEF NewUser, UserRow, Flow
  <2>3. \A pc \in {"link", "credential"} : [flow[f] EXCEPT !.user = u, !.pc = pc] \in Flow
    BY <2>1 DEF Flow
  <2> QED
    BY <1>5, <2>2, <2>3 DEF CreateUser, History
<1>6. ASSUME NEW f \in Flows, NEW k \in Links, CreateIdentity(f, k) \/ AutoLink(f, k) PROVE TypeOK'
  <2>1. flow[f] \in Flow /\ flow[f].user \in Users /\ flow[f].sub \in Subs /\ InsertLink(f, k)
    BY <1>6 DEF CreateIdentity, AutoLink, FlowAt, IdentityInv, FlowsAreFounded, Founded, Flow
  <2>2. [user |-> flow[f].user, sub |-> flow[f].sub, removed |-> FALSE,
         proof |-> IF flow[f].proven THEN flow[f].email ELSE None] \in LinkRow
    BY <2>1 DEF LinkRow, Flow
  <2> QED
    BY <2>1, <2>2 DEF InsertLink, EndFlow
<1>7. CASE \E f \in Flows, s \in Subs, e \in Emails \cup {None}, proven \in BOOLEAN :
              SignInUnknown(f, s, e, proven)
  BY ONLY <1>2, <1>7
<1> QED
  BY ONLY SignInStep, <1>1, <1>3, <1>4, <1>5, <1>6, <1>7 DEF SignInStep

LEMMA VerifyTypes == ASSUME Inv, VerifyStep PROVE TypeOK'
<1> USE DEF Inv, TypeOK
<1>1. ASSUME NEW v \in Verifications, NEW u \in Users, Verify(v, u) PROVE TypeOK'
  <2>1. [pc |-> "user", user |-> u, email |-> token[u].email] \in Verification
    BY <1>1 DEF Verify, Verification, TokenRow
  <2> QED
    BY <1>1, <2>1 DEF Verify, History
<1>2. ASSUME NEW v \in Verifications, verify[v] # None,
             NEW pc \in {"used", "verified", "cleanup"}
      PROVE  /\ verify[v].user \in Users /\ verify[v].email \in Emails
             /\ user[verify[v].user] # None /\ token[verify[v].user] # None
             /\ [verify[v] EXCEPT !.pc = pc] \in Verification
  BY <1>2 DEF Verification, IdentityInv, RowsExist
<1>3. ASSUME NEW v \in Verifications, GetUserByID(v) PROVE TypeOK'
  BY <1>2, <1>3 DEF GetUserByID, VerifyAt, History
<1>4. ASSUME NEW v \in Verifications, MarkTokenUsed(v) PROVE TypeOK'
  <2>1. [token[verify[v].user] EXCEPT !.status = IF @ = "deleted" THEN @ ELSE "used"] \in TokenRow
    BY <1>2, <1>4 DEF MarkTokenUsed, VerifyAt, TokenRow
  <2> QED
    BY <1>2, <1>4, <2>1 DEF MarkTokenUsed, VerifyAt, History
<1>5. ASSUME NEW v \in Verifications, MarkUserEmailVerified(v) PROVE TypeOK'
  <2>1. user' \in [Users -> UserRow \cup {None}]
    BY <1>2, <1>5, MarkVerifiedTypes DEF MarkUserEmailVerified, VerifyAt
  <2> QED
    BY <1>2, <1>5, <2>1 DEF MarkUserEmailVerified, VerifyAt, History
<1>6. ASSUME NEW v \in Verifications, DeleteTokensForUser(v) PROVE TypeOK'
  <2>1. token' \in [Users -> TokenRow \cup {None}]
    BY <1>2, <1>6, DeleteTokenTypes DEF DeleteTokensForUser, VerifyAt
  <2> QED
    BY <1>6, <2>1 DEF DeleteTokensForUser, EndVerify, History
<1>7. ASSUME NEW v \in Verifications, AbandonVerify(v) PROVE TypeOK'
  BY <1>7 DEF AbandonVerify, EndVerify, History
<1>8. ASSUME NEW u \in Users, ExpireToken(u) PROVE TypeOK'
  <2>1. [token[u] EXCEPT !.status = "expired"] \in TokenRow
    BY <1>8 DEF ExpireToken, TokenRow
  <2> QED
    BY <1>8, <2>1 DEF ExpireToken, Requests, History
<1>9. ASSUME NEW u \in Users, SweepToken(u) PROVE TypeOK'
  BY <1>9, DeleteTokenTypes DEF SweepToken, Requests, History
<1> QED
  BY <1>1, <1>3, <1>4, <1>5, <1>6, <1>7, <1>8, <1>9 DEF VerifyStep

LEMMA AdminTypes == ASSUME Inv, AdminStep PROVE TypeOK'
<1> USE DEF Inv, TypeOK
<1>1. ASSUME NEW u \in Users, NEW e \in Emails, ChangeEmail(u, e) PROVE TypeOK'
  <2>1. user[u] \in UserRow /\ user[u].held \in SUBSET Emails
    BY <1>1 DEF ChangeEmail, Active, UserRow
  <2> DEFINE moved == user[u].moved \/ user[u].verified \/ BeingChecked(u)
  <2>2. moved \in BOOLEAN
    OBVIOUS
  <2>3. [user[u] EXCEPT !.email = e, !.held = user[u].held \cup {e}, !.moved = moved] \in UserRow
    <3> HIDE DEF moved
    <3> QED
      BY <2>1, <2>2, RowEdits
  <2> QED
    BY <1>1, <2>3 DEF ChangeEmail, Requests, History
<1>2. ASSUME NEW u \in Users, DeleteUser(u) PROVE TypeOK'
  BY <1>2, SoftDeleteTypes DEF DeleteUser, Active, Requests, History
<1>3. ASSUME NEW u \in Users, SetPassword(u) PROVE TypeOK'
  <2>1. [user[u] EXCEPT !.password = TRUE] \in UserRow
    BY <1>3, RowEdits DEF SetPassword, Active
  <2> QED
    BY <1>3, <2>1 DEF SetPassword, Requests
<1>4. ASSUME NEW n \in Unlinks, NEW k \in Links, UnlinkUserFederation(n, k) PROVE TypeOK'
  <2>1. [pc |-> "password", link |-> k] \in Unlink
    BY DEF Unlink
  <2> QED
    BY <1>4, <2>1 DEF UnlinkUserFederation, History
<1>5. ASSUME NEW n \in Unlinks, HasPassword(n) \/ ListUserIdentities(n) PROVE TypeOK'
  <2>1. \A pc \in {"others", "delete"} : [unlink[n] EXCEPT !.pc = pc] \in Unlink
    BY <1>5 DEF HasPassword, ListUserIdentities, UnlinkAt, Unlink
  <2> QED
    BY <1>5, <2>1 DEF HasPassword, ListUserIdentities, EndUnlink, History
<1>6. ASSUME NEW n \in Unlinks, DeleteUserIdentity(n) PROVE TypeOK'
  <2>1. unlink[n].link \in Links /\ link[unlink[n].link] \in LinkRow
    BY <1>6 DEF DeleteUserIdentity, UnlinkAt, Unlink, Linked
  <2>2. [link[unlink[n].link] EXCEPT !.removed = TRUE] \in LinkRow
    BY <2>1 DEF LinkRow
  <2> QED
    BY <1>6, <2>1, <2>2 DEF DeleteUserIdentity, EndUnlink
<1>7. ASSUME NEW n \in Unlinks, AbandonUnlink(n) PROVE TypeOK'
  BY <1>7 DEF AbandonUnlink, EndUnlink, History
<1> QED
  BY <1>1, <1>2, <1>3, <1>4, <1>5, <1>6, <1>7 DEF AdminStep

LEMMA NextTypes == ASSUME Inv, [Next]_vars PROVE TypeOK'
<1>1. CASE UNCHANGED vars
  BY <1>1 DEF vars, Inv, TypeOK
<1> QED
  BY <1>1, SignupTypes, SignInTypes, VerifyTypes, AdminTypes DEF Next

-----------------------------------------------------------------------------
(* What a step leaves alone stays as it is, and rows only grow.            *)

Grown ==
    \A u \in Users : user[u] # None =>
        /\ user'[u] # None
        /\ user'[u].born = user[u].born
        /\ user[u].held \subseteq user'[u].held
        /\ user[u].password => user'[u].password

UserPart == AddressesAreHeld /\ OneUserPerEmail /\ VerifiedAddressWasChecked
FlowPart == FlowsAreFounded /\ FlowsKnowTheirUsers
LinkPart == OneLinkPerSub /\ HomesAreLinked /\ LinksAreEarned

LEMMA Parts == IdentityInv <=> RowsExist /\ FlowPart /\ UserPart /\ LinkPart /\ ChecksAreCurrent
BY DEF IdentityInv, UserPart, FlowPart, LinkPart

LEMMA NextParts ==
    ASSUME RowsExist', FlowPart', UserPart', LinkPart', ChecksAreCurrent' PROVE IdentityInv'
BY DEF IdentityInv, UserPart, FlowPart, LinkPart

LEMMA UserPartStays == ASSUME UserPart, UNCHANGED user PROVE UserPart' /\ Grown
BY DEF UserPart, AddressesAreHeld, OneUserPerEmail, HeldBy, Active,
       VerifiedAddressWasChecked, Grown

LEMMA FlowPartStays == ASSUME FlowPart, UNCHANGED <<user, flow>> PROVE FlowPart'
BY DEF FlowPart, FlowsAreFounded, FlowsKnowTheirUsers, Founded, KnowsItsUser

LEMMA LinkPartStays ==
    ASSUME TypeOK, RowsExist, LinkPart, Grown, UNCHANGED <<link, home>>
    PROVE  LinkPart'
<1>1. OneLinkPerSub' /\ HomesAreLinked'
  BY DEF LinkPart, OneLinkPerSub, HomesAreLinked, Linked, LinkOf
<1>2. ASSUME NEW k \in Links, link'[k] # None
      PROVE  LET row == user'[link'[k].user]
             IN  row.born = link'[k].sub \/ link'[k].proof \in row.held
  <2>1. link'[k] = link[k] /\ link[k].user \in Users /\ user[link[k].user] # None
    BY <1>2 DEF TypeOK, LinkRow, RowsExist
  <2> QED
    BY <1>2, <2>1 DEF LinkPart, LinksAreEarned, Grown
<1> QED
  BY <1>1, <1>2 DEF LinkPart, LinksAreEarned

LEMMA ChecksStay == ASSUME ChecksAreCurrent, UNCHANGED <<user, verify>> PROVE ChecksAreCurrent'
BY DEF ChecksAreCurrent, VerifyAt

LEMMA RowsStay ==
    ASSUME TypeOK, RowsExist, Grown, UNCHANGED <<token, link, verify, unlink>> PROVE RowsExist'
BY DEF RowsExist, Grown, TypeOK, LinkRow, Verification

\* A step of one handler, which leaves the accounts as they are.
LEMMA FlowPartMoves ==
    ASSUME TypeOK, FlowPart, UNCHANGED user, NEW f \in Flows, NEW r,
           flow' = [flow EXCEPT ![f] = r],
           r # None => Founded(r) /\ KnowsItsUser(r)
    PROVE  FlowPart'
<1>1. ASSUME NEW g \in Flows, flow'[g] # None PROVE Founded(flow'[g]) /\ KnowsItsUser(flow'[g])
  BY <1>1 DEF FlowPart, FlowsAreFounded, FlowsKnowTheirUsers, TypeOK
<1> QED
  BY <1>1 DEF FlowPart, FlowsAreFounded, FlowsKnowTheirUsers, Founded, KnowsItsUser

\* A token belongs to an account.
LEMMA TokenMoves ==
    ASSUME TypeOK, RowsExist, UNCHANGED <<user, link, verify, unlink>>,
           NEW u \in Users, user[u] # None, NEW row \in TokenRow,
           token' = [token EXCEPT ![u] = row]
    PROVE  RowsExist'
<1>1. row # None
  BY NoneIsNothing
<1>2. \A w \in Users : /\ token'[w] # None => user'[w] # None
                       /\ token[w] # None => token'[w] # None
  BY <1>1 DEF TypeOK, RowsExist
<1>3. \A v \in Verifications : verify[v] # None => verify[v].user \in Users
  BY DEF TypeOK, Verification
<1> QED
  BY <1>2, <1>3 DEF RowsExist

\* Only the handlers of one kind move.
LEMMA FlowStepKeeps ==
    ASSUME Inv, UNCHANGED <<user, token, link, verify, unlink, home>>, FlowPart'
    PROVE  IdentityInv'
BY Parts, UserPartStays, LinkPartStays, ChecksStay, RowsStay DEF Inv, UserPart, FlowPart,
   LinkPart, IdentityInv

-----------------------------------------------------------------------------
(* Handlers that create accounts.                                          *)

LEMMA StartKeeps ==
    ASSUME Inv, NEW f \in Flows, NEW kind \in {"signup", "federation", "admin"},
           NEW pc \in {"address", "insert"}, NEW e \in Emails \cup {None},
           NEW proven \in BOOLEAN, NEW s \in Subs \cup {None}, Start(f, kind, pc, e, proven, s),
           pc = "address" => kind = "federation",
           kind = "federation" <=> s # None,
           kind # "federation" => e # None,
           proven => e # None,
           UNCHANGED <<user, token, link, verify, unlink, History>>
    PROVE  IdentityInv'
<1> DEFINE r == [kind |-> kind, pc |-> pc, email |-> e, proven |-> proven, sub |-> s,
                 user |-> None]
<1>1. Founded(r) /\ KnowsItsUser(r)
  BY DEF Founded, KnowsItsUser
<1>2. flow' = [flow EXCEPT ![f] = r]
  BY DEF Start
<1> HIDE DEF r
<1>3. FlowPart'
  BY <1>1, <1>2, FlowPartMoves, Parts DEF Inv
<1> QED
  BY <1>3, FlowStepKeeps DEF History

LEMMA EndKeeps ==
    ASSUME Inv, NEW f \in Flows, EndFlow(f),
           UNCHANGED <<user, token, link, verify, unlink, home>>
    PROVE  IdentityInv'
<1>1. FlowPart'
  BY FlowPartMoves, Parts DEF Inv, EndFlow
<1> QED
  BY <1>1, FlowStepKeeps

LEMMA LookUpKeeps ==
    ASSUME Inv, NEW f \in Flows, LookUpAddress(f) PROVE IdentityInv'
<1>1. /\ flow[f] \in Flow /\ flow[f].pc = "address" /\ flow[f].user = None
      /\ flow[f].kind = "federation" /\ flow[f].sub # None /\ Founded(flow[f])
  BY DEF LookUpAddress, FlowAt, Inv, TypeOK, IdentityInv, FlowsAreFounded, Founded
<1>2. ASSUME flow[f].email # None, HeldBy(flow[f].email) # {}, flow[f].proven
      PROVE  Founded(Resolve(flow[f])) /\ KnowsItsUser(Resolve(flow[f]))
  <2> DEFINE u == CHOOSE w \in HeldBy(flow[f].email) : TRUE
  <2>1. u \in Users /\ user[u] # None /\ user[u].email = flow[f].email
    BY <1>2 DEF HeldBy, Active
  <2>2. user[u].email \in user[u].held
    BY <1>2, <2>1 DEF Inv, IdentityInv, AddressesAreHeld
  <2>3. u # None
    BY <2>1, NoneIsNothing
  <2>4. Resolve(flow[f]) = [flow[f] EXCEPT !.pc = "autolink", !.user = u]
    BY <1>2 DEF Resolve
  <2> HIDE DEF u
  <2> QED
    BY <1>1, <1>2, <2>1, <2>2, <2>3, <2>4 DEF Founded, KnowsItsUser, Flow
<1>3. ASSUME ~(flow[f].email # None /\ HeldBy(flow[f].email) # {} /\ flow[f].proven)
      PROVE  Founded(Resolve(flow[f])) /\ KnowsItsUser(Resolve(flow[f]))
  <2>1. PICK e \in {flow[f].email, None} :
            /\ Resolve(flow[f]) = [flow[f] EXCEPT !.pc = "insert", !.email = e]
            /\ flow[f].proven => e = flow[f].email
    BY <1>3 DEF Resolve
  <2> QED
    BY <1>1, <2>1 DEF Founded, KnowsItsUser, Flow
<1>4. flow' = [flow EXCEPT ![f] = Resolve(flow[f])]
  BY DEF LookUpAddress
<1>5. FlowPart'
  BY <1>2, <1>3, <1>4, FlowPartMoves, Parts DEF Inv, LookUpAddress
<1> QED
  BY <1>5, FlowStepKeeps DEF LookUpAddress, History

LEMMA CredentialFailsKeeps ==
    ASSUME Inv, NEW f \in Flows, CredentialFails(f) PROVE IdentityInv'
<1>1. /\ flow[f] \in Flow /\ flow[f].pc = "credential" /\ flow[f].kind = "admin"
      /\ Founded(flow[f]) /\ KnowsItsUser(flow[f])
  BY DEF CredentialFails, FlowAt, Inv, TypeOK, IdentityInv, FlowsAreFounded, FlowsKnowTheirUsers
<1> DEFINE r == [flow[f] EXCEPT !.pc = "undo"]
<1>2. Founded(r) /\ KnowsItsUser(r)
  BY <1>1 DEF Founded, KnowsItsUser, Flow
<1>3. flow' = [flow EXCEPT ![f] = r]
  BY DEF CredentialFails, Advance
<1> HIDE DEF r
<1>4. FlowPart'
  BY <1>2, <1>3, FlowPartMoves, Parts DEF Inv, CredentialFails
<1> QED
  BY <1>4, FlowStepKeeps DEF CredentialFails, History

LEMMA CreateTokenKeeps ==
    ASSUME Inv, NEW f \in Flows, CreateEmailVerificationToken(f) PROVE IdentityInv'
<1>1. /\ flow[f] \in Flow /\ flow[f].pc = "token" /\ Founded(flow[f]) /\ KnowsItsUser(flow[f])
      /\ flow[f].user \in Users /\ user[flow[f].user] # None
  BY DEF CreateEmailVerificationToken, FlowAt, Inv, TypeOK, IdentityInv, FlowsAreFounded,
         FlowsKnowTheirUsers, Founded, Flow
<1> DEFINE r == [flow[f] EXCEPT !.pc = "mail"]
<1>2. Founded(r) /\ KnowsItsUser(r)
  BY <1>1 DEF Founded, KnowsItsUser, Flow
<1>3. flow' = [flow EXCEPT ![f] = r]
  BY DEF CreateEmailVerificationToken, Advance
<1> HIDE DEF r
<1>4. FlowPart'
  BY <1>2, <1>3, FlowPartMoves, Parts DEF Inv, CreateEmailVerificationToken
<1>5. UserPart' /\ Grown /\ LinkPart' /\ ChecksAreCurrent'
  BY Parts, UserPartStays, LinkPartStays, ChecksStay
  DEF Inv, CreateEmailVerificationToken, History
<1>6. [email |-> flow[f].email, status |-> "issued"] \in TokenRow
  BY <1>1 DEF TokenRow, Founded, Flow
<1>7. RowsExist'
  BY <1>1, <1>6, TokenMoves, Parts DEF CreateEmailVerificationToken, Inv, History
<1> QED
  BY <1>4, <1>5, <1>7, NextParts

\* An account's row is edited: what the handlers and the links rely on stays.
LEMMA EditKeeps ==
    ASSUME Inv, TypeOK', NEW u \in Users, user[u] # None, NEW row \in UserRow,
           user' = [user EXCEPT ![u] = row], row.born = user[u].born,
           user[u].held \subseteq row.held, user[u].password => row.password,
           UNCHANGED <<token, link, unlink, home>>
    PROVE  /\ Grown /\ LinkPart'
           /\ verify' = verify => RowsExist'
<1>1. row # None
  BY NoneIsNothing
<1>2. Grown
  BY <1>1 DEF Grown, Inv, TypeOK
<1> QED
  BY <1>2, LinkPartStays, RowsStay, Parts DEF Inv

\* If it keeps the address and the address's history too, nothing about the
\* address changes.
LEMMA QuietEditKeeps ==
    ASSUME Inv, TypeOK', NEW u \in Users, user[u] # None, NEW row \in UserRow,
           user' = [user EXCEPT ![u] = row], row.born = user[u].born,
           row.held = user[u].held, user[u].password => row.password,
           row.email = user[u].email, row.moved = user[u].moved,
           user[u].deleted => row.deleted,
           row.verified /\ ~row.moved => row.email = row.checked,
           UNCHANGED <<token, link, unlink, home>>
    PROVE  /\ UserPart' /\ LinkPart' /\ Grown
           /\ \A r \in Flow : /\ Founded(r) => Founded(r)'
                              /\ Founded(r) /\ KnowsItsUser(r) => KnowsItsUser(r)'
           /\ flow' = flow => FlowPart'
           /\ verify' = verify => RowsExist' /\ ChecksAreCurrent'
<1>1. Grown /\ LinkPart' /\ (verify' = verify => RowsExist')
  BY EditKeeps
<1>2. row # None
  BY NoneIsNothing
<1>3. \A w \in Users : /\ w # u => user'[w] = user[w]
                       /\ user'[u] = row
  BY DEF Inv, TypeOK
<1>4. AddressesAreHeld' /\ VerifiedAddressWasChecked'
  BY <1>3 DEF Inv, IdentityInv, AddressesAreHeld, VerifiedAddressWasChecked
<1>5. \A e \in Emails : HeldBy(e)' \subseteq HeldBy(e)
  BY <1>2, <1>3 DEF HeldBy, Active
<1>6. OneUserPerEmail'
  BY <1>5 DEF OneUserPerEmail, Inv, IdentityInv
<1>7. ASSUME NEW r \in Flow
      PROVE  /\ Founded(r) => Founded(r)'
             /\ Founded(r) /\ KnowsItsUser(r) => KnowsItsUser(r)'
  <2>1. r.user \in Users \cup {None}
    BY DEF Flow
  <2> QED
    BY <2>1, <1>1, <1>2, <1>3 DEF Founded, KnowsItsUser, Grown
<1>8. ASSUME flow' = flow PROVE FlowPart'
  BY <1>7, <1>8 DEF FlowPart, FlowsAreFounded, FlowsKnowTheirUsers, Inv, TypeOK, IdentityInv,
     Founded, KnowsItsUser
<1>9. ASSUME verify' = verify PROVE ChecksAreCurrent'
  <2>1. \A v \in Verifications : verify[v] # None => verify[v].user \in Users
    BY DEF Inv, TypeOK, Verification
  <2> QED
    BY <1>3, <1>9, <2>1 DEF ChecksAreCurrent, VerifyAt, Inv, IdentityInv
<1> QED
  BY <1>1, <1>4, <1>6, <1>7, <1>8, <1>9 DEF UserPart

LEMMA FlowPartChanges ==
    ASSUME Inv, NEW f \in Flows, NEW r, flow' = [flow EXCEPT ![f] = r],
           \A q \in Flow : Founded(q) /\ KnowsItsUser(q) => Founded(q)' /\ KnowsItsUser(q)',
           r # None => Founded(r)' /\ KnowsItsUser(r)'
    PROVE  FlowPart'
<1>1. ASSUME NEW g \in Flows, flow'[g] # None
      PROVE  \E q : q = flow'[g] /\ Founded(q)' /\ KnowsItsUser(q)'
  <2>1. CASE g = f
    BY <1>1, <2>1 DEF Inv, TypeOK
  <2>2. CASE g # f
    <3>1. PICK q : q = flow[g]
      OBVIOUS
    <3>2. q \in Flow /\ flow'[g] = q /\ Founded(q) /\ KnowsItsUser(q)
      BY <1>1, <2>2, <3>1 DEF Inv, TypeOK, IdentityInv, FlowsAreFounded, FlowsKnowTheirUsers
    <3> QED
      BY <3>2
  <2> QED
    BY <2>1, <2>2
<1> QED
  BY <1>1 DEF FlowPart, FlowsAreFounded, FlowsKnowTheirUsers, Founded, KnowsItsUser

LEMMA FlowFacts ==
    ASSUME Inv, NEW f \in Flows, flow[f] # None
    PROVE  /\ flow[f] \in Flow /\ Founded(flow[f]) /\ KnowsItsUser(flow[f])
           /\ flow[f].pc \notin {"address", "insert"} =>
                  flow[f].user \in Users /\ user[flow[f].user] # None
                  /\ user[flow[f].user] \in UserRow
BY DEF Inv, TypeOK, IdentityInv, FlowsAreFounded, FlowsKnowTheirUsers, Founded, Flow

LEMMA StoreCredentialKeeps ==
    ASSUME Inv, TypeOK', NEW f \in Flows, StoreCredential(f) PROVE IdentityInv'
<1>1. PICK u, row : u = flow[f].user /\ row = [user[u] EXCEPT !.password = TRUE]
  OBVIOUS
<1>2. flow[f] # None /\ flow[f].pc = "credential"
  BY DEF StoreCredential, FlowAt
<1>3. /\ u \in Users /\ user[u] # None /\ user[u] \in UserRow
      /\ flow[f] \in Flow /\ Founded(flow[f]) /\ KnowsItsUser(flow[f])
  BY <1>1, <1>2, FlowFacts
<1>4. row \in UserRow
  BY <1>1, <1>3, RowEdits
<1>5. /\ row.born = user[u].born /\ row.held = user[u].held /\ row.password
      /\ row.email = user[u].email /\ row.moved = user[u].moved
      /\ row.deleted = user[u].deleted
      /\ row.verified = user[u].verified /\ row.checked = user[u].checked
  BY <1>1, <1>3 DEF UserRow
<1>6. row.verified /\ ~row.moved => row.email = row.checked
  BY <1>3, <1>5 DEF Inv, IdentityInv, VerifiedAddressWasChecked
<1>7. user' = [user EXCEPT ![u] = row] /\ UNCHANGED <<token, link, verify, unlink, home>>
  BY <1>1 DEF StoreCredential, History
<1>8. /\ UserPart' /\ LinkPart' /\ Grown /\ RowsExist' /\ ChecksAreCurrent'
      /\ \A q \in Flow : /\ Founded(q) => Founded(q)'
                         /\ Founded(q) /\ KnowsItsUser(q) => KnowsItsUser(q)'
  BY <1>3, <1>4, <1>5, <1>6, <1>7, QuietEditKeeps
<1>9. FlowPart'
  <2>1. CASE flow' = [flow EXCEPT ![f] = None]
    BY <1>8, <2>1, FlowPartChanges
  <2>2. ASSUME NEW pc \in {"token", "flags"}, Advance(f, pc),
               pc = "token" <=> flow[f].kind = "signup"
        PROVE  FlowPart'
    <3>1. PICK q, r : q = flow[f] /\ r = [q EXCEPT !.pc = pc]
      OBVIOUS
    <3>2. Founded(q)' /\ KnowsItsUser(q)'
      BY <1>3, <1>8, <3>1
    <3>3. user'[u].password
      BY <1>3, <1>5, <1>7 DEF Inv, TypeOK
    <3>4. Founded(r)' /\ KnowsItsUser(r)'
      BY <1>1, <1>2, <1>3, <2>2, <3>1, <3>2, <3>3 DEF Founded, KnowsItsUser, Flow
    <3> QED
      BY <1>8, <2>2, <3>1, <3>4, FlowPartChanges DEF Advance
  <2> QED
    BY <2>1, <2>2 DEF StoreCredential, EndFlow
<1> QED
  BY <1>8, <1>9, NextParts

LEMMA SetFlagsKeeps ==
    ASSUME Inv, TypeOK', NEW f \in Flows, SetFlags(f) PROVE IdentityInv'
<1>1. PICK u, e, row : /\ u = flow[f].user /\ e = flow[f].email
                       /\ row = [user[u] EXCEPT !.verified = TRUE, !.checked = e]
  OBVIOUS
<1>2. flow[f] # None /\ flow[f].pc = "flags"
  BY DEF SetFlags, FlowAt
<1>3. /\ u \in Users /\ user[u] # None /\ user[u] \in UserRow /\ e \in Emails \cup {None}
      /\ flow[f] \in Flow /\ Founded(flow[f]) /\ KnowsItsUser(flow[f])
  BY <1>1, <1>2, FlowFacts DEF Flow
<1>4. row \in UserRow
  BY <1>1, <1>3, RowEdits
<1>5. /\ row.born = user[u].born /\ row.held = user[u].held /\ row.password = user[u].password
      /\ row.email = user[u].email /\ row.moved = user[u].moved
      /\ row.deleted = user[u].deleted /\ row.checked = e
  BY <1>1, <1>3 DEF UserRow
<1>6. ~row.moved => row.email = row.checked
  <2>1. flow[f].kind = "admin"
    BY <1>2, <1>3 DEF Founded
  <2> QED
    BY <1>1, <1>3, <1>5, <2>1, NoneIsNothing DEF KnowsItsUser
<1>7. user' = [user EXCEPT ![u] = row] /\ UNCHANGED <<token, link, verify, unlink, home>>
  BY <1>1 DEF SetFlags, MarkVerified, History
<1>8. /\ UserPart' /\ LinkPart' /\ Grown /\ RowsExist' /\ ChecksAreCurrent'
      /\ \A q \in Flow : /\ Founded(q) => Founded(q)'
                         /\ Founded(q) /\ KnowsItsUser(q) => KnowsItsUser(q)'
  BY <1>3, <1>4, <1>5, <1>6, <1>7, QuietEditKeeps
<1>9. FlowPart'
  BY <1>8, FlowPartChanges DEF SetFlags, EndFlow
<1> QED
  BY <1>8, <1>9, NextParts

\* Deleting an account leaves its row.
LEMMA SoftDeleteKeeps ==
    ASSUME Inv, TypeOK', NEW u \in Users, user[u] # None, SoftDelete(u),
           UNCHANGED <<token, link, verify, unlink, home>>
    PROVE  /\ UserPart' /\ LinkPart' /\ RowsExist' /\ ChecksAreCurrent'
           /\ \A q \in Flow : Founded(q) /\ KnowsItsUser(q) => Founded(q)' /\ KnowsItsUser(q)'
           /\ flow' = flow => FlowPart'
<1>1. PICK row : row = [user[u] EXCEPT !.deleted = TRUE]
  OBVIOUS
<1>2. user[u] \in UserRow
  BY DEF Inv, TypeOK
<1>3. row \in UserRow
  BY <1>1, <1>2, RowEdits
<1>4. /\ row.born = user[u].born /\ row.held = user[u].held /\ row.password = user[u].password
      /\ row.email = user[u].email /\ row.moved = user[u].moved /\ row.deleted
      /\ row.verified = user[u].verified /\ row.checked = user[u].checked
  BY <1>1, <1>2 DEF UserRow
<1>5. row.verified /\ ~row.moved => row.email = row.checked
  BY <1>4 DEF Inv, IdentityInv, VerifiedAddressWasChecked
<1>6. user' = [user EXCEPT ![u] = row]
  BY <1>1 DEF SoftDelete
<1> QED
  BY <1>3, <1>4, <1>5, <1>6, QuietEditKeeps

LEMMA UndoKeeps ==
    ASSUME Inv, TypeOK', NEW f \in Flows, Undo(f) PROVE IdentityInv'
<1>1. flow[f].user \in Users /\ user[flow[f].user] # None
  BY FlowFacts DEF Undo, FlowAt
<1>2. /\ UserPart' /\ LinkPart' /\ RowsExist' /\ ChecksAreCurrent'
      /\ \A q \in Flow : Founded(q) /\ KnowsItsUser(q) => Founded(q)' /\ KnowsItsUser(q)'
  BY <1>1, SoftDeleteKeeps DEF Undo, History
<1>3. FlowPart'
  BY <1>2, FlowPartChanges DEF Undo, EndFlow
<1> QED
  BY <1>2, <1>3, NextParts

LEMMA CreateUserKeeps ==
    ASSUME Inv, TypeOK', NEW f \in Flows, NEW u \in Users, CreateUser(f, u) PROVE IdentityInv'
<1>1. PICK q, row, pc :
          /\ q = flow[f] /\ row = NewUser(q)
          /\ pc = IF q.kind = "federation" THEN "link" ELSE "credential"
  OBVIOUS
<1>2. /\ flow[f] # None /\ q.pc = "insert" /\ q \in Flow /\ Founded(q)
      /\ user[u] = None /\ MayHold(q.email)
      /\ user' = [user EXCEPT ![u] = row]
      /\ UNCHANGED <<token, link, verify, unlink, home>>
  BY <1>1, FlowFacts DEF CreateUser, FlowAt, History
<1>3. PICK r : r = [q EXCEPT !.user = u, !.pc = pc]
  OBVIOUS
<1>4. flow' = [flow EXCEPT ![f] = r]
  BY <1>1, <1>2, <1>3 DEF CreateUser, Flow
<1>5. /\ row \in UserRow /\ row.email = q.email /\ ~row.deleted /\ ~row.verified /\ ~row.moved
      /\ row.held = {q.email} \ {None} /\ row.born = q.sub
  BY <1>1, <1>2 DEF NewUser, UserRow, Flow
<1>6. row # None /\ u # None
  BY <1>5, NoneIsNothing
<1>7. \A w \in Users : /\ w # u => user'[w] = user[w]
                       /\ user'[u] = row
  BY <1>2 DEF Inv, TypeOK
<1>8. Grown
  BY <1>2, <1>7 DEF Grown
<1>9. LinkPart' /\ RowsExist'
  BY <1>2, <1>8, LinkPartStays, RowsStay, Parts DEF Inv
<1>10. UserPart'
  <2>1. AddressesAreHeld' /\ VerifiedAddressWasChecked'
    BY <1>5, <1>7 DEF Inv, IdentityInv, AddressesAreHeld, VerifiedAddressWasChecked
  <2>2. \A e \in Emails : /\ HeldBy(e)' \subseteq HeldBy(e) \cup {u}
                          /\ e # q.email => HeldBy(e)' \subseteq HeldBy(e)
                          /\ e = q.email => HeldBy(e) = {}
    BY <1>2, <1>5, <1>6, <1>7, NoneIsNothing DEF HeldBy, Active, MayHold
  <2>3. OneUserPerEmail'
    BY <2>2 DEF OneUserPerEmail, Inv, IdentityInv
  <2> QED
    BY <2>1, <2>3 DEF UserPart
<1>11. ChecksAreCurrent'
  <2>1. \A v \in Verifications : verify[v] # None => verify[v].user \in Users /\ verify[v].user # u
    BY <1>2 DEF Inv, TypeOK, IdentityInv, RowsExist, Verification
  <2> QED
    BY <1>2, <1>7, <2>1 DEF ChecksAreCurrent, VerifyAt, Inv, IdentityInv
<1>12. ASSUME NEW p \in Flow, Founded(p), KnowsItsUser(p) PROVE Founded(p)' /\ KnowsItsUser(p)'
  <2>1. p.user \in Users \cup {None} /\ p.user # u
    BY <1>2, <1>6, <1>12 DEF Flow, Founded
  <2> QED
    BY <1>7, <1>12, <2>1 DEF Founded, KnowsItsUser
<1>13. Founded(r)' /\ KnowsItsUser(r)'
  BY <1>1, <1>2, <1>3, <1>5, <1>6, <1>7 DEF Founded, KnowsItsUser, Flow
<1>14. FlowPart'
  BY <1>4, <1>12, <1>13, FlowPartChanges
<1> QED
  BY <1>9, <1>10, <1>11, <1>14, NextParts

LEMMA SignupKeeps == ASSUME Inv, TypeOK', SignupStep PROVE IdentityInv'
<1>1. ASSUME NEW f \in Flows, NEW e \in Emails, Register(f, e) PROVE IdentityInv'
  BY <1>1, StartKeeps, NoneIsNothing DEF Register
<1>2. ASSUME NEW f \in Flows, NEW e \in Emails, NEW vouched \in BOOLEAN,
             AdminCreate(f, e, vouched)
      PROVE  IdentityInv'
  BY <1>2, StartKeeps, NoneIsNothing DEF AdminCreate
<1>3. ASSUME NEW f \in Flows, SendMail(f) \/ AbandonFlow(f) PROVE IdentityInv'
  BY <1>3, EndKeeps DEF SendMail, AbandonFlow, History
<1> QED
  BY <1>1, <1>2, <1>3, StoreCredentialKeeps, CreateTokenKeeps, SetFlagsKeeps,
     CredentialFailsKeeps, UndoKeeps DEF SignupStep

LEMMA InsertLinkKeeps ==
    ASSUME Inv, TypeOK', NEW f \in Flows, NEW k \in Links, FlowAt(f, "link") \/ FlowAt(f, "autolink"),
           InsertLink(f, k)
    PROVE  IdentityInv'
<1>1. PICK q, row : /\ q = flow[f]
                    /\ row = [user |-> q.user, sub |-> q.sub, removed |-> FALSE,
                              proof |-> IF q.proven THEN q.email ELSE None]
  OBVIOUS
<1>2. /\ flow[f] # None /\ q \in Flow /\ Founded(q) /\ KnowsItsUser(q)
      /\ q.user \in Users /\ user[q.user] # None
      /\ q.pc \in {"link", "autolink"} /\ q.sub \in Subs
  BY <1>1, FlowFacts DEF FlowAt, Founded, Flow
<1>3. row \in LinkRow /\ row # None
  <2>1. row \in LinkRow
    BY <1>1, <1>2 DEF LinkRow, Flow
  <2> QED
    BY <2>1, NoneIsNothing
<1>4. /\ link[k] = None /\ link' = [link EXCEPT ![k] = row]
      /\ home' = [home EXCEPT ![q.sub] = @ \cup {q.user}]
      /\ LinkOf(q.sub) = {}
      /\ UNCHANGED <<user, token, verify, unlink>>
  BY <1>1 DEF InsertLink
<1>5. \A j \in Links : /\ j # k => link'[j] = link[j]
                       /\ link'[k] = row
  BY <1>4 DEF Inv, TypeOK
<1>6. FlowPart' /\ UserPart' /\ ChecksAreCurrent'
  BY <1>4, FlowPartMoves, UserPartStays, ChecksStay, Parts DEF InsertLink, EndFlow, Inv
<1>7. RowsExist'
  BY <1>1, <1>2, <1>3, <1>4, <1>5 DEF RowsExist, Inv, IdentityInv
<1>8. OneLinkPerSub'
  BY <1>1, <1>4, <1>5 DEF OneLinkPerSub, Linked, LinkOf, Inv, IdentityInv
<1>9. HomesAreLinked'
  <2>1. \A s \in Subs : /\ LinkOf(s) \subseteq LinkOf(s)'
                        /\ \A j \in LinkOf(s) : link'[j] = link[j]
    BY <1>4, <1>5 DEF LinkOf, Linked
  <2>2. k \in LinkOf(q.sub)' /\ link'[k].user = q.user
    BY <1>1, <1>3, <1>5 DEF LinkOf, Linked
  <2>3. ASSUME NEW s \in Subs, NEW u \in home'[s]
        PROVE  u \in home[s] \/ (s = q.sub /\ u = q.user)
    BY <1>4 DEF Inv, TypeOK
  <2> QED
    BY <2>1, <2>2, <2>3 DEF HomesAreLinked, Inv, IdentityInv
<1>10. LinksAreEarned'
  <2>1. user[q.user].born = q.sub \/ row.proof \in user[q.user].held
    BY <1>1, <1>2 DEF KnowsItsUser
  <2> QED
    BY <1>1, <1>4, <1>5, <2>1 DEF LinksAreEarned, Inv, IdentityInv
<1> QED
  BY <1>6, <1>7, <1>8, <1>9, <1>10, NextParts DEF LinkPart

LEMMA SignInKnownKeeps ==
    ASSUME Inv, TypeOK', NEW s \in Subs, SignInKnown(s) PROVE IdentityInv'
<1>1. PICK u \in KnownAs(s) : home' = [home EXCEPT ![s] = @ \cup {u}]
  BY DEF SignInKnown
<1>2. PICK k \in LinkOf(s) : link[k].user = u
  BY DEF KnownAs
<1>3. UNCHANGED <<user, token, link, flow, verify, unlink>>
  BY DEF SignInKnown, Requests
<1>4. FlowPart' /\ UserPart' /\ ChecksAreCurrent' /\ RowsExist'
  BY <1>3, FlowPartStays, UserPartStays, ChecksStay, RowsStay, Parts DEF Inv
<1>5. HomesAreLinked'
  <2>1. \A w \in Subs : LinkOf(w)' = LinkOf(w)
    BY <1>3 DEF LinkOf, Linked
  <2>2. ASSUME NEW w \in Subs, NEW x \in home'[w]
        PROVE  x \in home[w] \/ (w = s /\ x = u)
    BY <1>1 DEF Inv, TypeOK
  <2> QED
    BY <1>2, <1>3, <2>1, <2>2 DEF HomesAreLinked, Inv, IdentityInv
<1>6. OneLinkPerSub' /\ LinksAreEarned'
  BY <1>3 DEF OneLinkPerSub, LinksAreEarned, Linked, Inv, IdentityInv
<1> QED
  BY <1>4, <1>5, <1>6, NextParts DEF LinkPart

LEMMA SignInKeeps == ASSUME Inv, TypeOK', SignInStep PROVE IdentityInv'
<1>1. ASSUME NEW f \in Flows, NEW s \in Subs, NEW e \in Emails \cup {None},
             NEW proven \in BOOLEAN, SignInUnknown(f, s, e, proven)
      PROVE  IdentityInv'
  BY <1>1, StartKeeps, NoneIsNothing DEF SignInUnknown
<1>2. ASSUME NEW f \in Flows, AutoLinkFails(f) PROVE IdentityInv'
  BY <1>2, EndKeeps DEF AutoLinkFails, History
<1>3. ASSUME NEW f \in Flows, NEW k \in Links, CreateIdentity(f, k) \/ AutoLink(f, k)
      PROVE  IdentityInv'
  BY <1>3, InsertLinkKeeps DEF CreateIdentity, AutoLink
<1>4. CASE \E f \in Flows, s \in Subs, e \in Emails \cup {None}, proven \in BOOLEAN :
              SignInUnknown(f, s, e, proven)
  BY ONLY <1>1, <1>4
<1>5. ASSUME NEW s \in Subs, SignInKnown(s) PROVE IdentityInv'
  BY <1>5, SignInKnownKeeps
<1>6. ASSUME NEW f \in Flows, LookUpAddress(f) PROVE IdentityInv'
  BY <1>6, LookUpKeeps
<1>7. ASSUME NEW f \in Flows, NEW u \in Users, CreateUser(f, u) PROVE IdentityInv'
  BY <1>7, CreateUserKeeps
<1> QED
  BY ONLY SignInStep, <1>2, <1>3, <1>4, <1>5, <1>6, <1>7 DEF SignInStep

-----------------------------------------------------------------------------
(* Confirmations and the administrator.                                    *)

LEMMA VerifyFacts ==
    ASSUME Inv, NEW v \in Verifications, verify[v] # None
    PROVE  /\ verify[v] \in Verification /\ verify[v].user \in Users
           /\ user[verify[v].user] # None /\ user[verify[v].user] \in UserRow
           /\ token[verify[v].user] # None /\ token[verify[v].user] \in TokenRow
BY DEF Inv, TypeOK, IdentityInv, RowsExist, Verification

\* A confirmation moves on, and nothing else changes.
LEMMA VerifyMoves ==
    ASSUME Inv, NEW v \in Verifications, NEW r,
           verify' = [verify EXCEPT ![v] = r],
           r # None => /\ r \in Verification /\ user[r.user] # None /\ token[r.user] # None
                       /\ r.pc \in {"used", "verified"} /\ ~user[r.user].moved
                              => user[r.user].email = r.email,
           UNCHANGED <<user, token, link, flow, unlink, home>>
    PROVE  IdentityInv'
<1>1. \A w \in Verifications : verify'[w] # None =>
          \/ verify'[w] = verify[w] /\ verify[w] # None
          \/ verify'[w] = r /\ r # None
  BY DEF Inv, TypeOK
<1>2. ChecksAreCurrent'
  BY <1>1 DEF ChecksAreCurrent, VerifyAt, Inv, IdentityInv
<1>3. RowsExist'
  BY <1>1 DEF RowsExist, Inv, IdentityInv
<1>4. FlowPart' /\ UserPart' /\ LinkPart'
  BY FlowPartStays, UserPartStays, LinkPartStays, Parts DEF Inv
<1> QED
  BY <1>2, <1>3, <1>4, NextParts

\* A token changes its status.
LEMMA TokenStepKeeps ==
    ASSUME Inv, NEW u \in Users, token[u] # None, NEW row \in TokenRow,
           token' = [token EXCEPT ![u] = row],
           UNCHANGED <<user, link, flow, unlink, home>>
    PROVE  verify' = verify => IdentityInv'
<1> SUFFICES ASSUME verify' = verify PROVE IdentityInv'
  OBVIOUS
<1>1. RowsExist'
  BY TokenMoves DEF Inv, IdentityInv, RowsExist
<1>2. FlowPart' /\ UserPart' /\ LinkPart' /\ ChecksAreCurrent'
  BY FlowPartStays, UserPartStays, LinkPartStays, ChecksStay, Parts DEF Inv
<1> QED
  BY <1>1, <1>2, NextParts

\* Both at once.
LEMMA TokenVerifyKeeps ==
    ASSUME Inv, TypeOK', NEW v \in Verifications, verify[v] # None, NEW row \in TokenRow,
           token' = [token EXCEPT ![verify[v].user] = row],
           NEW r, verify' = [verify EXCEPT ![v] = r],
           r # None => /\ r.user = verify[v].user /\ r.email = verify[v].email
                       /\ verify[v].pc \in {"used", "verified"},
           UNCHANGED <<user, link, flow, unlink, home>>
    PROVE  IdentityInv'
<1>1. row # None
  BY NoneIsNothing
<1>2. \A u \in Users : /\ token[u] # None => token'[u] # None
                       /\ token'[u] # None => token[u] # None
  BY <1>1, VerifyFacts DEF Inv, TypeOK
<1>3. \A w \in Verifications : verify'[w] # None =>
          \/ verify'[w] = verify[w] /\ verify[w] # None
          \/ w = v /\ verify'[w] = r /\ r # None
  BY DEF Inv, TypeOK
<1>4. \A w \in Verifications : verify[w] # None => verify[w].user \in Users
  BY DEF Inv, TypeOK, Verification
<1>5. RowsExist'
  BY <1>2, <1>3, <1>4 DEF RowsExist, Inv, IdentityInv
<1>6. ChecksAreCurrent'
  BY <1>3 DEF ChecksAreCurrent, VerifyAt, Inv, IdentityInv
<1>7. FlowPart' /\ UserPart' /\ LinkPart'
  BY FlowPartStays, UserPartStays, LinkPartStays, Parts DEF Inv
<1> QED
  BY <1>5, <1>6, <1>7, NextParts

LEMMA MarkUserKeeps ==
    ASSUME Inv, TypeOK', NEW v \in Verifications, MarkUserEmailVerified(v)
    PROVE  IdentityInv'
<1>1. PICK u, e, row : /\ u = verify[v].user /\ e = verify[v].email
                       /\ row = [user[u] EXCEPT !.verified = TRUE, !.checked = e]
  OBVIOUS
<1>2. /\ verify[v] # None /\ verify[v].pc = "verified" /\ verify[v] \in Verification
      /\ u \in Users /\ user[u] # None /\ user[u] \in UserRow /\ e \in Emails
  BY <1>1, VerifyFacts DEF MarkUserEmailVerified, VerifyAt, Verification
<1>3. row \in UserRow
  BY <1>1, <1>2, RowEdits
<1>4. /\ row.born = user[u].born /\ row.held = user[u].held /\ row.password = user[u].password
      /\ row.email = user[u].email /\ row.moved = user[u].moved
      /\ row.deleted = user[u].deleted /\ row.checked = e
  BY <1>1, <1>2 DEF UserRow
<1>5. ~row.moved => row.email = row.checked
  BY <1>1, <1>2, <1>4 DEF Inv, IdentityInv, ChecksAreCurrent, VerifyAt
<1>6. user' = [user EXCEPT ![u] = row] /\ UNCHANGED <<token, link, flow, unlink, home>>
  BY <1>1 DEF MarkUserEmailVerified, MarkVerified, History
<1>7. UserPart' /\ LinkPart' /\ Grown /\ FlowPart'
  BY <1>2, <1>3, <1>4, <1>5, <1>6, QuietEditKeeps
<1>8. \A w \in Users : user'[w] # None =>
          user'[w].email = user[w].email /\ user'[w].moved = user[w].moved
  BY <1>2, <1>4, <1>6 DEF Inv, TypeOK
<1>9. \A w \in Verifications : verify'[w] # None =>
          /\ verify[w] # None /\ verify'[w].user = verify[w].user
          /\ verify'[w].email = verify[w].email
          /\ verify'[w].pc \in {"used", "verified"} => verify'[w] = verify[w]
          /\ verify[w].user \in Users
  BY <1>2 DEF MarkUserEmailVerified, Inv, TypeOK, Verification
<1>10. RowsExist'
  <2>1. \A w \in Users : user[w] # None => user'[w] # None
    BY <1>7 DEF Grown
  <2> QED
    BY <1>6, <1>9, <2>1 DEF RowsExist, Inv, IdentityInv, TypeOK, LinkRow
<1>11. ChecksAreCurrent'
  BY <1>7, <1>8, <1>9, <1>10 DEF ChecksAreCurrent, VerifyAt, Inv, IdentityInv, RowsExist
<1> QED
  BY <1>7, <1>10, <1>11, NextParts

LEMMA VerifyKeeps == ASSUME Inv, TypeOK', VerifyStep PROVE IdentityInv'
<1>1. ASSUME NEW v \in Verifications, NEW u \in Users, Verify(v, u) PROVE IdentityInv'
  <2>1. PICK r : r = [pc |-> "user", user |-> u, email |-> token[u].email]
    OBVIOUS
  <2>2. r \in Verification
    BY <1>1, <2>1 DEF Verify, Verification, Inv, TypeOK, TokenRow
  <2>3. user[u] # None /\ token[u] # None
    BY <1>1 DEF Verify, Inv, IdentityInv, RowsExist
  <2> QED
    BY <1>1, <2>1, <2>2, <2>3, VerifyMoves DEF Verify, History
<1>2. ASSUME NEW v \in Verifications, GetUserByID(v) PROVE IdentityInv'
  <2>1. PICK r : r = [verify[v] EXCEPT !.pc = "used"]
    OBVIOUS
  <2>2. /\ verify[v] \in Verification /\ user[verify[v].user] # None
        /\ token[verify[v].user] # None /\ user[verify[v].user].email = verify[v].email
    BY <1>2, VerifyFacts DEF GetUserByID, VerifyAt, SameAddress
  <2>3. r \in Verification /\ r.user = verify[v].user /\ r.email = verify[v].email
    BY <2>1, <2>2 DEF Verification
  <2> QED
    BY <1>2, <2>1, <2>2, <2>3, VerifyMoves DEF GetUserByID, History
<1>3. ASSUME NEW v \in Verifications, MarkTokenUsed(v) PROVE IdentityInv'
  <2>1. PICK u, row, r :
            /\ u = verify[v].user
            /\ row = [token[u] EXCEPT !.status = IF @ = "deleted" THEN @ ELSE "used"]
            /\ r = [verify[v] EXCEPT !.pc = "verified"]
    OBVIOUS
  <2>2. /\ verify[v] # None /\ verify[v].pc = "used" /\ verify[v] \in Verification
        /\ token[u] \in TokenRow
    BY <1>3, <2>1, VerifyFacts DEF MarkTokenUsed, VerifyAt
  <2>3. row \in TokenRow /\ r.user = verify[v].user /\ r.email = verify[v].email
    BY <2>1, <2>2 DEF TokenRow, Verification
  <2>4. token' = [token EXCEPT ![verify[v].user] = row] /\ verify' = [verify EXCEPT ![v] = r]
    BY <1>3, <2>1 DEF MarkTokenUsed
  <2> QED
    BY <1>3, <2>2, <2>3, <2>4, TokenVerifyKeeps DEF MarkTokenUsed, History
<1>4. ASSUME NEW v \in Verifications, DeleteTokensForUser(v) PROVE IdentityInv'
  <2>1. PICK row : row = [token[verify[v].user] EXCEPT !.status = "deleted"]
    OBVIOUS
  <2>2. verify[v] # None /\ token[verify[v].user] \in TokenRow
    BY <1>4, VerifyFacts DEF DeleteTokensForUser, VerifyAt
  <2>3. row \in TokenRow
    BY <2>1, <2>2 DEF TokenRow
  <2>4. token' = [token EXCEPT ![verify[v].user] = row]
    BY <1>4, <2>1 DEF DeleteTokensForUser, DeleteToken
  <2> QED
    BY <1>4, <2>2, <2>3, <2>4, TokenVerifyKeeps DEF DeleteTokensForUser, EndVerify, History
<1>5. ASSUME NEW v \in Verifications, AbandonVerify(v) PROVE IdentityInv'
  BY <1>5, VerifyMoves DEF AbandonVerify, EndVerify, History
<1>6. ASSUME NEW u \in Users, ExpireToken(u) \/ SweepToken(u) PROVE IdentityInv'
  <2>1. PICK status \in {"expired", "deleted"} :
            token[u] # None /\ token' = [token EXCEPT ![u].status = status]
    BY <1>6 DEF ExpireToken, SweepToken, DeleteToken
  <2>2. PICK row : row = [token[u] EXCEPT !.status = status]
    OBVIOUS
  <2>3. row \in TokenRow /\ token' = [token EXCEPT ![u] = row]
    BY <2>1, <2>2 DEF Inv, TypeOK, TokenRow
  <2>4. UNCHANGED <<user, link, flow, verify, unlink, home>>
    BY <1>6 DEF ExpireToken, SweepToken, Requests, History
  <2> QED
    BY <2>1, <2>3, <2>4, TokenStepKeeps
<1> QED
  BY <1>1, <1>2, <1>3, <1>4, <1>5, <1>6, MarkUserKeeps DEF VerifyStep

LEMMA ChangeEmailKeeps ==
    ASSUME Inv, TypeOK', NEW u \in Users, NEW e \in Emails, ChangeEmail(u, e)
    PROVE  IdentityInv'
<1>1. PICK moved : moved = (user[u].moved \/ user[u].verified \/ BeingChecked(u))
  OBVIOUS
<1>2. PICK row : row = [user[u] EXCEPT !.email = e, !.held = user[u].held \cup {e},
                                       !.moved = moved]
  OBVIOUS
<1>3. user[u] # None /\ user[u] \in UserRow /\ ~user[u].deleted /\ HeldBy(e) \subseteq {u}
  BY DEF ChangeEmail, Active, Inv, TypeOK
<1>4. moved \in BOOLEAN
  BY <1>1
<1>5. row \in UserRow
  <2>1. user[u].held \in SUBSET Emails
    BY <1>3 DEF UserRow
  <2> QED
    BY <1>2, <1>3, <1>4, <2>1, RowEdits
<1>6. /\ row.born = user[u].born /\ row.held = user[u].held \cup {e}
      /\ row.password = user[u].password
      /\ row.email = e /\ row.moved = moved /\ row.deleted = user[u].deleted
      /\ row.verified = user[u].verified /\ row.checked = user[u].checked
  BY <1>2, <1>3 DEF UserRow
<1>7. user' = [user EXCEPT ![u] = row] /\ UNCHANGED <<token, link, flow, verify, unlink, home>>
  BY <1>1, <1>2 DEF ChangeEmail, Requests, History
<1>8. Grown /\ LinkPart' /\ RowsExist'
  BY <1>3, <1>5, <1>6, <1>7, EditKeeps
<1>9. \A w \in Users : /\ w # u => user'[w] = user[w]
                       /\ user'[u] = row
  BY <1>7 DEF Inv, TypeOK
<1>10. UserPart'
  <2>1. AddressesAreHeld'
    BY <1>6, <1>9 DEF AddressesAreHeld, Inv, IdentityInv
  <2>2. \A x \in Emails : /\ x # e => HeldBy(x)' \subseteq HeldBy(x)
                          /\ x = e => HeldBy(x)' \subseteq {u}
    BY <1>3, <1>6, <1>9 DEF HeldBy, Active
  <2>3. OneUserPerEmail'
    BY <2>2 DEF OneUserPerEmail, Inv, IdentityInv
  <2>4. VerifiedAddressWasChecked'
    BY <1>1, <1>6, <1>9 DEF VerifiedAddressWasChecked, Inv, IdentityInv
  <2> QED
    BY <2>1, <2>3, <2>4 DEF UserPart
<1>11. FlowPart'
  <2>1. ASSUME NEW f \in Flows, flow[f] # None
        PROVE  \E q : q = flow'[f] /\ Founded(q)' /\ KnowsItsUser(q)'
    <3>1. PICK q : q = flow[f]
      OBVIOUS
    <3>2. q \in Flow /\ Founded(q) /\ KnowsItsUser(q)
      BY <2>1, <3>1, FlowFacts
    <3>3. Founded(q)'
      BY <1>8, <3>2 DEF Founded, Grown, Flow
    <3>4. q.user \in Users \cup {None} /\ (q.user = u /\ q.kind = "admin" => moved)
      BY <1>1, <2>1, <3>1, <3>2 DEF BeingChecked, Flow
    <3>5. KnowsItsUser(q)'
      BY <1>6, <1>9, <3>2, <3>4 DEF KnowsItsUser, Founded
    <3> QED
      BY <1>7, <3>1, <3>3, <3>5
  <2> QED
    BY <1>7, <2>1 DEF FlowPart, FlowsAreFounded, FlowsKnowTheirUsers, Founded, KnowsItsUser
<1>12. ChecksAreCurrent'
  <2>1. ASSUME NEW v \in Verifications, VerifyAt(v, "used") \/ VerifyAt(v, "verified")
        PROVE  verify[v].user \in Users /\ (verify[v].user = u => moved)
    BY <1>1, <2>1 DEF VerifyAt, BeingChecked, Inv, TypeOK, Verification
  <2> QED
    BY <1>6, <1>7, <1>9, <2>1 DEF ChecksAreCurrent, VerifyAt, Inv, IdentityInv
<1> QED
  BY <1>8, <1>10, <1>11, <1>12, NextParts

LEMMA SetPasswordKeeps ==
    ASSUME Inv, TypeOK', NEW u \in Users, SetPassword(u) PROVE IdentityInv'
<1>1. PICK row : row = [user[u] EXCEPT !.password = TRUE]
  OBVIOUS
<1>2. user[u] # None /\ user[u] \in UserRow
  BY DEF SetPassword, Active, Inv, TypeOK
<1>3. row \in UserRow
  BY <1>1, <1>2, RowEdits
<1>4. /\ row.born = user[u].born /\ row.held = user[u].held /\ row.password
      /\ row.email = user[u].email /\ row.moved = user[u].moved
      /\ row.deleted = user[u].deleted
      /\ row.verified = user[u].verified /\ row.checked = user[u].checked
  BY <1>1, <1>2 DEF UserRow
<1>5. row.verified /\ ~row.moved => row.email = row.checked
  BY <1>2, <1>4 DEF Inv, IdentityInv, VerifiedAddressWasChecked
<1>6. user' = [user EXCEPT ![u] = row] /\ UNCHANGED <<token, link, flow, verify, unlink, home>>
  BY <1>1 DEF SetPassword, Requests
<1> QED
  BY <1>2, <1>3, <1>4, <1>5, <1>6, QuietEditKeeps, NextParts

\* A removal moves on, and nothing else changes.
LEMMA UnlinkMoves ==
    ASSUME Inv, NEW n \in Unlinks, NEW r, unlink' = [unlink EXCEPT ![n] = r],
           r # None => link[r.link] # None,
           UNCHANGED <<user, token, link, flow, verify, home>>
    PROVE  IdentityInv'
<1>1. RowsExist'
  BY DEF RowsExist, Inv, IdentityInv, TypeOK
<1>2. FlowPart' /\ UserPart' /\ LinkPart' /\ ChecksAreCurrent'
  BY FlowPartStays, UserPartStays, LinkPartStays, ChecksStay, Parts DEF Inv
<1> QED
  BY <1>1, <1>2, NextParts

LEMMA DeleteLinkKeeps ==
    ASSUME Inv, TypeOK', NEW n \in Unlinks, DeleteUserIdentity(n) PROVE IdentityInv'
<1>1. PICK k, row : k = unlink[n].link /\ row = [link[k] EXCEPT !.removed = TRUE]
  OBVIOUS
<1>2. k \in Links /\ Linked(k) /\ link[k] # None /\ link[k] \in LinkRow
  BY <1>1 DEF DeleteUserIdentity, UnlinkAt, Linked, Inv, TypeOK, Unlink
<1>3. /\ row.user = link[k].user /\ row.sub = link[k].sub /\ row.proof = link[k].proof
      /\ row.removed /\ row # None
  <2>1. row \in LinkRow
    BY <1>1, <1>2 DEF LinkRow
  <2>2. row # None
    BY <2>1, NoneIsNothing
  <2> QED
    BY <1>1, <1>2, <2>2 DEF LinkRow
<1>4. /\ link' = [link EXCEPT ![k] = row] /\ unlink' = [unlink EXCEPT ![n] = None]
      /\ home' = [home EXCEPT ![link[k].sub] = {}]
      /\ UNCHANGED <<user, token, flow, verify>>
  BY <1>1 DEF DeleteUserIdentity, EndUnlink
<1>5. \A j \in Links : /\ j # k => link'[j] = link[j]
                       /\ link'[k] = row
  BY <1>2, <1>4 DEF Inv, TypeOK
<1>6. FlowPart' /\ UserPart' /\ ChecksAreCurrent'
  BY <1>4, FlowPartStays, UserPartStays, ChecksStay, Parts DEF Inv
<1>7. RowsExist'
  <2>1. \A j \in Links : link[j] # None <=> link'[j] # None
    BY <1>2, <1>3, <1>5
  <2>2. \A m \in Unlinks : unlink'[m] # None => unlink'[m] = unlink[m] /\ unlink[m].link \in Links
    BY <1>4 DEF Inv, TypeOK, Unlink
  <2>3. \A j \in Links : link'[j] # None => user[link'[j].user] # None
    BY <1>2, <1>3, <1>5, <2>1 DEF RowsExist, Inv, IdentityInv
  <2> QED
    BY <1>4, <2>1, <2>2, <2>3 DEF RowsExist, Inv, IdentityInv
<1>8. OneLinkPerSub' /\ LinksAreEarned'
  BY <1>2, <1>3, <1>4, <1>5 DEF OneLinkPerSub, LinksAreEarned, Linked, Inv, IdentityInv
<1>9. HomesAreLinked'
  <2>1. ASSUME NEW s \in Subs, NEW u \in home'[s] PROVE \E j \in LinkOf(s)' : link'[j].user = u
    <3>1. s # link[k].sub /\ u \in home[s]
      BY <1>2, <1>4, <2>1 DEF Inv, TypeOK, LinkRow
    <3>2. PICK j \in LinkOf(s) : link[j].user = u
      BY <3>1 DEF HomesAreLinked, Inv, IdentityInv
    <3> QED
      BY <1>5, <3>1, <3>2 DEF LinkOf, Linked
  <2> QED
    BY <2>1 DEF HomesAreLinked
<1> QED
  BY <1>6, <1>7, <1>8, <1>9, NextParts DEF LinkPart

LEMMA AdminKeeps == ASSUME Inv, TypeOK', AdminStep PROVE IdentityInv'
<1>1. ASSUME NEW u \in Users, DeleteUser(u) PROVE IdentityInv'
  BY <1>1, SoftDeleteKeeps, NextParts DEF DeleteUser, Active, Requests, History
<1>2. ASSUME NEW n \in Unlinks, NEW k \in Links, UnlinkUserFederation(n, k) PROVE IdentityInv'
  <2>1. PICK r : r = [pc |-> "password", link |-> k]
    OBVIOUS
  <2> QED
    BY <1>2, <2>1, UnlinkMoves DEF UnlinkUserFederation, Linked, History
<1>3. ASSUME NEW n \in Unlinks, HasPassword(n) \/ ListUserIdentities(n) PROVE IdentityInv'
  <2>1. unlink[n] \in Unlink /\ link[unlink[n].link] # None
    BY <1>3 DEF HasPassword, ListUserIdentities, UnlinkAt, Inv, TypeOK, IdentityInv, RowsExist
  <2>2. PICK r : /\ unlink' = [unlink EXCEPT ![n] = r]
                 /\ r # None => r.link = unlink[n].link
    <3>1. \A pc : [unlink[n] EXCEPT !.pc = pc].link = unlink[n].link
      BY <2>1 DEF Unlink
    <3>2. \/ unlink' = [unlink EXCEPT ![n] = None]
          \/ \E pc \in {"others", "delete"} :
                 unlink' = [unlink EXCEPT ![n] = [unlink[n] EXCEPT !.pc = pc]]
      BY <1>3 DEF HasPassword, ListUserIdentities, EndUnlink
    <3> QED
      BY <3>1, <3>2
  <2> QED
    BY <1>3, <2>1, <2>2, UnlinkMoves DEF HasPassword, ListUserIdentities, History
<1>4. ASSUME NEW n \in Unlinks, AbandonUnlink(n) PROVE IdentityInv'
  BY <1>4, UnlinkMoves DEF AbandonUnlink, EndUnlink, History
<1> QED
  BY <1>1, <1>2, <1>3, <1>4, ChangeEmailKeeps, SetPasswordKeeps, DeleteLinkKeeps DEF AdminStep

LEMMA NextKeeps == ASSUME Inv, [Next]_vars PROVE Inv'
<1>1. TypeOK'
  BY NextTypes
<1>2. CASE UNCHANGED vars
  <2>1. UNCHANGED <<user, token, link, flow, verify, unlink, home>>
    BY <1>2 DEF vars
  <2> QED
    BY <1>1, <2>1, FlowPartStays, FlowStepKeeps, Parts DEF Inv
<1> QED
  BY <1>1, <1>2, SignupKeeps, SignInKeeps, VerifyKeeps, AdminKeeps DEF Next, Inv

LEMMA InitInv == ASSUME Init PROVE Inv
<1>1. TypeOK
  BY DEF Init, TypeOK
<1>2. \A e \in Emails : HeldBy(e) = {}
  BY DEF Init, HeldBy, Active
<1> QED
  BY <1>1, <1>2 DEF Init, Inv, IdentityInv, RowsExist, FlowsAreFounded, FlowsKnowTheirUsers,
     AddressesAreHeld, OneUserPerEmail, OneLinkPerSub, Linked, HomesAreLinked, LinksAreEarned,
     ChecksAreCurrent, VerifyAt, VerifiedAddressWasChecked

LEMMA AlwaysInv == Spec => []Inv
BY InitInv, NextKeeps, PTL DEF Spec

-----------------------------------------------------------------------------
(* A way in.  With one removal at a time, what the removal has counted is  *)
(* still there when it deletes.                                            *)

WayInInv == UsersKeepAWayIn /\ AnotherWayInRemains

LinksKept == \A k \in Links : link[k] # None => link'[k] = link[k]

\* No account that was not there before, but for one being created.
NobodyAppears == \A u \in Users : Active(u)' => Active(u) \/ \E f \in Flows : Creating(f, u)'

\* A creation goes on, succeeds, is undone or is written off.
CreationsGoOn ==
    \A f \in Flows, u \in Users :
        Creating(f, u) => Creating(f, u)' \/ HasWayIn(u)' \/ u \in stranded' \/ ~Active(u)'

StrandedStay == \A u \in stranded : u \in stranded' \/ HasWayIn(u)'

LEMMA WayInStays ==
    ASSUME Inv, WayInInv, Grown, LinksKept, NobodyAppears, CreationsGoOn, StrandedStay
    PROVE  UsersKeepAWayIn' /\ (unlink' = unlink => AnotherWayInRemains')
<1>1. ASSUME NEW u \in Users, user[u] # None, HasWayIn(u) PROVE HasWayIn(u)'
  <2>1. CASE user[u].password
    BY <1>1, <2>1 DEF Grown, HasWayIn
  <2>2. CASE \E k \in Links : Linked(k) /\ link[k].user = u
    BY <2>2 DEF LinksKept, HasWayIn, Linked
  <2> QED
    BY <1>1, <2>1, <2>2 DEF HasWayIn
<1>2. UsersKeepAWayIn'
  <2>1. ASSUME NEW u \in Users, Active(u)'
        PROVE  HasWayIn(u)' \/ u \in stranded' \/ \E f \in Flows : Creating(f, u)'
    <3>1. CASE Active(u) /\ HasWayIn(u)
      BY <1>1, <3>1 DEF Active
    <3>2. CASE Active(u) /\ u \in stranded
      BY <3>2 DEF StrandedStay
    <3>3. CASE Active(u) /\ \E f \in Flows : Creating(f, u)
      BY <2>1, <3>3 DEF CreationsGoOn
    <3> QED
      BY <2>1, <3>1, <3>2, <3>3 DEF NobodyAppears, WayInInv, UsersKeepAWayIn
  <2> QED
    BY <2>1 DEF UsersKeepAWayIn
<1>3. ASSUME unlink' = unlink, NEW n \in Unlinks, UnlinkAt(n, "delete")', Linked(unlink[n].link)'
      PROVE  \/ user'[link'[unlink[n].link].user].password
             \/ Remaining(unlink[n].link)' # {}
  <2>1. PICK k : k = unlink[n].link
    OBVIOUS
  <2>2. k \in Links /\ link[k] # None /\ UnlinkAt(n, "delete")
    BY <1>3, <2>1 DEF UnlinkAt, Inv, TypeOK, IdentityInv, RowsExist, Unlink
  <2>3. link'[k] = link[k] /\ Linked(k) /\ link[k].user \in Users /\ user[link[k].user] # None
    BY <1>3, <2>1, <2>2 DEF LinksKept, Linked, Inv, TypeOK, LinkRow, IdentityInv, RowsExist
  <2>4. Remaining(k) \subseteq Remaining(k)'
    BY <2>3 DEF LinksKept, Remaining, Linked
  <2>5. user[link[k].user].password \/ Remaining(k) # {}
    BY <2>1, <2>2, <2>3 DEF WayInInv, AnotherWayInRemains
  <2>6. user'[link'[k].user].password \/ Remaining(k)' # {}
    BY <2>3, <2>4, <2>5 DEF Grown
  <2> QED
    BY <1>3, <2>1, <2>6
<1> QED
  BY <1>2, <1>3 DEF AnotherWayInRemains, UnlinkAt

\* Nothing but requests, tokens and marks of addresses changes.
LEMMA WayInUntouched ==
    ASSUME Inv, WayInInv, Grown, NobodyAppears, UNCHANGED <<link, flow, stranded>>
    PROVE  UsersKeepAWayIn' /\ (unlink' = unlink => AnotherWayInRemains')
<1>1. LinksKept /\ CreationsGoOn /\ StrandedStay
  BY DEF LinksKept, CreationsGoOn, Creating, StrandedStay
<1> QED
  BY <1>1, WayInStays

LEMMA EditGrows ==
    ASSUME Inv, NEW u \in Users, user[u] # None, NEW row \in UserRow,
           user' = [user EXCEPT ![u] = row], row.born = user[u].born,
           user[u].held \subseteq row.held, user[u].password => row.password,
           user[u].deleted => row.deleted
    PROVE  Grown /\ NobodyAppears
<1>1. row # None
  BY NoneIsNothing
<1>2. \A w \in Users : /\ w # u => user'[w] = user[w]
                       /\ user'[u] = row
  BY DEF Inv, TypeOK
<1> QED
  BY <1>1, <1>2 DEF Grown, NobodyAppears, Active

LEMMA SmallEditsGrow ==
    ASSUME Inv, NEW u \in Users, user[u] # None,
           \/ user' = [user EXCEPT ![u].password = TRUE]
           \/ SoftDelete(u)
           \/ \E e \in Emails \cup {None} : MarkVerified(u, e)
    PROVE  Grown /\ NobodyAppears
<1>1. PICK row : /\ user' = [user EXCEPT ![u] = row]
                 /\ \/ row = [user[u] EXCEPT !.password = TRUE]
                    \/ row = [user[u] EXCEPT !.deleted = TRUE]
                    \/ \E e \in Emails \cup {None} :
                           row = [user[u] EXCEPT !.verified = TRUE, !.checked = e]
  BY DEF SoftDelete, MarkVerified
<1>2. user[u] \in UserRow
  BY DEF Inv, TypeOK
<1>3. row \in UserRow
  BY <1>1, <1>2, RowEdits
<1>4. /\ row.born = user[u].born /\ row.held = user[u].held
      /\ user[u].password => row.password
      /\ user[u].deleted => row.deleted
  BY <1>1, <1>2 DEF UserRow
<1> QED
  BY <1>1, <1>3, <1>4, EditGrows

LEMMA NoEditGrows == ASSUME UNCHANGED user PROVE Grown /\ NobodyAppears
BY DEF Grown, NobodyAppears, Active

\* A handler other than one that creates moves: the creations go on.
LEMMA OneFlowMoves ==
    ASSUME Inv, NEW f \in Flows, NEW r, flow' = [flow EXCEPT ![f] = r],
           \A u \in Users :
               Creating(f, u) => (r # None /\ r.pc # "autolink" /\ r.user = u)
                                 \/ HasWayIn(u)' \/ u \in stranded' \/ ~Active(u)'
    PROVE  CreationsGoOn
BY DEF CreationsGoOn, Creating, Inv, TypeOK

LEMMA KeptWhenUnchanged ==
    /\ UNCHANGED link => LinksKept
    /\ UNCHANGED stranded => StrandedStay
BY DEF LinksKept, StrandedStay

\* A handler that may create an account moves.
LEMMA FlowMovesKeepWayIn ==
    ASSUME Inv, WayInInv, NEW f \in Flows, NEW r, flow' = [flow EXCEPT ![f] = r],
           Grown, NobodyAppears, StrandedStay, UNCHANGED <<link, unlink>>,
           \A u \in Users :
               Creating(f, u) => (r # None /\ r.pc # "autolink" /\ r.user = u)
                                 \/ HasWayIn(u)' \/ u \in stranded' \/ ~Active(u)'
    PROVE  UsersKeepAWayIn' /\ AnotherWayInRemains'
BY WayInStays, OneFlowMoves, KeptWhenUnchanged

LEMMA StartKeepsWayIn ==
    ASSUME Inv, WayInInv, NEW f \in Flows, flow[f] = None, NEW r,
           flow' = [flow EXCEPT ![f] = r], UNCHANGED <<user, link, unlink, stranded>>
    PROVE  UsersKeepAWayIn' /\ AnotherWayInRemains'
BY FlowMovesKeepWayIn, NoEditGrows, KeptWhenUnchanged DEF Creating

LEMMA SignupKeepsWayIn ==
    ASSUME Inv, WayInInv, SignupStep PROVE UsersKeepAWayIn' /\ AnotherWayInRemains'
<1>1. ASSUME NEW f \in Flows, NEW e \in Emails, Register(f, e)
      PROVE  UsersKeepAWayIn' /\ AnotherWayInRemains'
  BY <1>1, StartKeepsWayIn DEF Register, Start, History
<1>2. ASSUME NEW f \in Flows, NEW e \in Emails, NEW vouched \in BOOLEAN,
             AdminCreate(f, e, vouched)
      PROVE  UsersKeepAWayIn' /\ AnotherWayInRemains'
  BY <1>2, StartKeepsWayIn DEF AdminCreate, Start, History
<1>3. ASSUME NEW f \in Flows, StoreCredential(f)
      PROVE  UsersKeepAWayIn' /\ AnotherWayInRemains'
  <2>1. PICK u : u = flow[f].user
    OBVIOUS
  <2>2. u \in Users /\ user[u] # None /\ user[u] \in UserRow
    BY <1>3, <2>1, FlowFacts DEF StoreCredential, FlowAt
  <2>3. user' = [user EXCEPT ![u].password = TRUE]
    BY <1>3, <2>1 DEF StoreCredential
  <2>4. HasWayIn(u)'
    BY <2>2, <2>3 DEF Inv, TypeOK, UserRow, HasWayIn
  <2>5. PICK r : flow' = [flow EXCEPT ![f] = r]
    BY <1>3 DEF StoreCredential, Advance, EndFlow
  <2>6. Grown /\ NobodyAppears /\ StrandedStay
    BY <1>3, <2>2, <2>3, SmallEditsGrow, KeptWhenUnchanged DEF StoreCredential, History
  <2>7. \A w \in Users : Creating(f, w) => w = u
    BY <2>1 DEF Creating
  <2> QED
    BY <1>3, <2>4, <2>5, <2>6, <2>7, FlowMovesKeepWayIn DEF StoreCredential, History
<1>4. ASSUME NEW f \in Flows, NEW pc \in {"mail", "undo"}, flow[f] # None, Advance(f, pc),
             UNCHANGED <<user, link, unlink, stranded>>
      PROVE  UsersKeepAWayIn' /\ AnotherWayInRemains'
  <2>1. PICK r : r = [flow[f] EXCEPT !.pc = pc]
    OBVIOUS
  <2>2. r \in Flow /\ r.pc = pc /\ r.user = flow[f].user
    BY <1>4, <2>1, FlowFacts DEF Flow
  <2>3. r # None
    BY <2>2, NoneIsNothing
  <2> QED
    BY <1>4, <2>1, <2>2, <2>3, FlowMovesKeepWayIn, NoEditGrows, KeptWhenUnchanged
    DEF Advance, Creating
<1>5. ASSUME NEW f \in Flows, CreateEmailVerificationToken(f)
      PROVE  UsersKeepAWayIn' /\ AnotherWayInRemains'
  BY <1>4, <1>5 DEF CreateEmailVerificationToken, FlowAt, History
<1>6. ASSUME NEW f \in Flows, SendMail(f)
      PROVE  UsersKeepAWayIn' /\ AnotherWayInRemains'
  <2>1. \A u \in Users : Creating(f, u) => HasWayIn(u)'
    BY <1>6, FlowFacts DEF SendMail, FlowAt, KnowsItsUser, Creating, HasWayIn
  <2> QED
    BY <1>6, <2>1, FlowMovesKeepWayIn, NoEditGrows, KeptWhenUnchanged
    DEF SendMail, EndFlow, History
<1>7. ASSUME NEW f \in Flows, SetFlags(f)
      PROVE  UsersKeepAWayIn' /\ AnotherWayInRemains'
  <2>1. /\ flow[f].user \in Users /\ user[flow[f].user] # None
        /\ flow[f].email \in Emails \cup {None} /\ user[flow[f].user].password
    BY <1>7, FlowFacts DEF SetFlags, FlowAt, KnowsItsUser, Flow
  <2>2. Grown /\ NobodyAppears
    BY <1>7, <2>1, SmallEditsGrow DEF SetFlags
  <2>3. \A u \in Users : Creating(f, u) => HasWayIn(u)'
    BY <2>1, <2>2 DEF Grown, HasWayIn, Creating
  <2> QED
    BY <1>7, <2>2, <2>3, FlowMovesKeepWayIn, KeptWhenUnchanged DEF SetFlags, EndFlow, History
<1>8. ASSUME NEW f \in Flows, CredentialFails(f)
      PROVE  UsersKeepAWayIn' /\ AnotherWayInRemains'
  BY <1>4, <1>8 DEF CredentialFails, FlowAt, History
<1>9. ASSUME NEW f \in Flows, Undo(f)
      PROVE  UsersKeepAWayIn' /\ AnotherWayInRemains'
  <2>1. PICK u : u = flow[f].user
    OBVIOUS
  <2>2. u \in Users /\ user[u] # None /\ user[u] \in UserRow /\ SoftDelete(u)
    BY <1>9, <2>1, FlowFacts DEF Undo, FlowAt
  <2>3. ~Active(u)'
    BY <2>2 DEF SoftDelete, Active, Inv, TypeOK, UserRow
  <2>4. \A w \in Users : Creating(f, w) => w = u
    BY <2>1 DEF Creating
  <2> QED
    BY <1>9, <2>2, <2>3, <2>4, FlowMovesKeepWayIn, SmallEditsGrow, KeptWhenUnchanged
    DEF Undo, EndFlow, History
<1>10. ASSUME NEW f \in Flows, AbandonFlow(f)
       PROVE  UsersKeepAWayIn' /\ AnotherWayInRemains'
  <2>1. flow[f] \in Flow /\ Founded(flow[f]) /\ KnowsItsUser(flow[f]) /\ flow[f].pc # "autolink"
    BY <1>10, FlowFacts DEF AbandonFlow
  <2>2. \A u \in Users : Creating(f, u) => HasWayIn(u)' \/ u \in stranded'
    <3>1. ASSUME NEW u \in Users, Creating(f, u), flow[f].pc \in {"token", "mail", "flags"}
          PROVE  HasWayIn(u)'
      BY <1>10, <2>1, <3>1 DEF AbandonFlow, Creating, KnowsItsUser, HasWayIn
    <3>2. ASSUME NEW u \in Users, Creating(f, u)
          PROVE  flow[f].pc \notin {"address", "insert"}
      BY <2>1, <3>2, NoneIsNothing DEF Creating, Founded
    <3> QED
      BY <1>10, <2>1, <3>1, <3>2 DEF AbandonFlow, Creating, Flow
  <2>3. StrandedStay
    BY <1>10 DEF AbandonFlow, StrandedStay
  <2> QED
    BY <1>10, <2>2, <2>3, FlowMovesKeepWayIn, NoEditGrows DEF AbandonFlow, EndFlow
<1> QED
  BY <1>1, <1>2, <1>3, <1>5, <1>6, <1>7, <1>8, <1>9, <1>10 DEF SignupStep

LEMMA SignInKeepsWayIn ==
    ASSUME Inv, WayInInv, SignInStep PROVE UsersKeepAWayIn' /\ AnotherWayInRemains'
<1>1. ASSUME NEW s \in Subs, SignInKnown(s) PROVE UsersKeepAWayIn' /\ AnotherWayInRemains'
  BY <1>1, WayInUntouched, NoEditGrows DEF SignInKnown, Requests
<1>2. ASSUME NEW f \in Flows, NEW s \in Subs, NEW e \in Emails \cup {None},
             NEW proven \in BOOLEAN, SignInUnknown(f, s, e, proven)
      PROVE  UsersKeepAWayIn' /\ AnotherWayInRemains'
  BY <1>2, StartKeepsWayIn DEF SignInUnknown, Start, History
<1>3. ASSUME NEW f \in Flows, LookUpAddress(f) PROVE UsersKeepAWayIn' /\ AnotherWayInRemains'
  <2>1. \A u \in Users : ~Creating(f, u)
    BY <1>3, FlowFacts, NoneIsNothing DEF LookUpAddress, FlowAt, Founded, Creating
  <2>2. PICK r : flow' = [flow EXCEPT ![f] = r]
    BY <1>3 DEF LookUpAddress
  <2> QED
    BY <1>3, <2>1, <2>2, FlowMovesKeepWayIn, NoEditGrows, KeptWhenUnchanged
    DEF LookUpAddress, History
<1>4. ASSUME NEW f \in Flows, AutoLinkFails(f) PROVE UsersKeepAWayIn' /\ AnotherWayInRemains'
  <2>1. \A u \in Users : ~Creating(f, u)
    BY <1>4 DEF AutoLinkFails, FlowAt, Creating
  <2> QED
    BY <1>4, <2>1, FlowMovesKeepWayIn, NoEditGrows, KeptWhenUnchanged
    DEF AutoLinkFails, EndFlow, History
<1>5. ASSUME NEW f \in Flows, NEW u \in Users, CreateUser(f, u)
      PROVE  UsersKeepAWayIn' /\ AnotherWayInRemains'
  <2>1. PICK q, row, pc, r :
            /\ q = flow[f] /\ row = NewUser(q)
            /\ pc = IF q.kind = "federation" THEN "link" ELSE "credential"
            /\ r = [q EXCEPT !.user = u, !.pc = pc]
    OBVIOUS
  <2>2. flow[f] \in Flow /\ Founded(flow[f]) /\ flow[f].pc = "insert" /\ user[u] = None
    BY <1>5, FlowFacts DEF CreateUser, FlowAt
  <2>3. flow' = [flow EXCEPT ![f] = r]
    BY <1>5, <2>1, <2>2 DEF CreateUser, Flow
  <2>4. r \in Flow /\ r.user = u /\ r.pc \in {"link", "credential"} /\ r # None
    <3>1. r \in Flow /\ r.user = u /\ r.pc = pc
      BY <2>1, <2>2 DEF Flow
    <3> QED
      BY <2>1, <3>1, NoneIsNothing
  <2>5. \A w \in Users : ~Creating(f, w)
    BY <2>2, NoneIsNothing DEF Founded, Creating
  <2>6. \A w \in Users : w # u => user'[w] = user[w]
    BY <1>5 DEF CreateUser, Inv, TypeOK
  <2>7. Creating(f, u)'
    BY <2>3, <2>4 DEF Creating, Inv, TypeOK
  <2>8. Grown /\ NobodyAppears
    BY <2>2, <2>6, <2>7 DEF Grown, NobodyAppears, Active
  <2> QED
    BY <1>5, <2>3, <2>5, <2>8, FlowMovesKeepWayIn, KeptWhenUnchanged DEF CreateUser, History
<1>6. ASSUME NEW f \in Flows, NEW k \in Links, CreateIdentity(f, k) \/ AutoLink(f, k)
      PROVE  UsersKeepAWayIn' /\ AnotherWayInRemains'
  <2>1. PICK u, row : /\ u = flow[f].user
                      /\ row = [user |-> u, sub |-> flow[f].sub, removed |-> FALSE,
                                proof |-> IF flow[f].proven THEN flow[f].email ELSE None]
    OBVIOUS
  <2>2. InsertLink(f, k) /\ flow[f] \in Flow /\ u \in Users /\ flow[f].sub \in Subs
    BY <1>6, <2>1, FlowFacts DEF CreateIdentity, AutoLink, FlowAt, Founded, Flow
  <2>3. row \in LinkRow
    BY <2>1, <2>2 DEF LinkRow, Flow
  <2>4. row # None
    BY <2>3, NoneIsNothing
  <2>5. link[k] = None /\ link' = [link EXCEPT ![k] = row]
    BY <2>1, <2>2 DEF InsertLink
  <2>6. LinksKept
    BY <2>5 DEF LinksKept, Inv, TypeOK
  <2>7. HasWayIn(u)'
    BY <2>1, <2>4, <2>5 DEF HasWayIn, Linked, Inv, TypeOK
  <2>8. StrandedStay
    BY <2>1, <2>2, <2>7 DEF StrandedStay, InsertLink
  <2>9. CreationsGoOn
    <3>1. \A w \in Users : Creating(f, w) => w = u
      BY <2>1 DEF Creating
    <3> QED
      BY <2>2, <2>7, <3>1, OneFlowMoves DEF InsertLink, EndFlow
  <2> QED
    BY <2>2, <2>6, <2>8, <2>9, WayInStays, NoEditGrows DEF InsertLink
<1>7. CASE \E f \in Flows, s \in Subs, e \in Emails \cup {None}, proven \in BOOLEAN :
              SignInUnknown(f, s, e, proven)
  BY ONLY <1>2, <1>7
<1> QED
  BY ONLY SignInStep, <1>1, <1>3, <1>4, <1>5, <1>6, <1>7 DEF SignInStep

LEMMA VerifyKeepsWayIn ==
    ASSUME Inv, WayInInv, VerifyStep PROVE UsersKeepAWayIn' /\ AnotherWayInRemains'
<1>1. ASSUME NEW v \in Verifications, MarkUserEmailVerified(v)
      PROVE  UsersKeepAWayIn' /\ AnotherWayInRemains'
  <2>1. /\ verify[v].user \in Users /\ user[verify[v].user] # None
        /\ verify[v].email \in Emails \cup {None}
    BY <1>1, VerifyFacts DEF MarkUserEmailVerified, VerifyAt, Verification
  <2>2. Grown /\ NobodyAppears
    BY <1>1, <2>1, SmallEditsGrow DEF MarkUserEmailVerified
  <2> QED
    BY <1>1, <2>2, WayInUntouched DEF MarkUserEmailVerified, History
<1>2. ASSUME UNCHANGED <<user, link, flow, unlink, stranded>>
      PROVE  UsersKeepAWayIn' /\ AnotherWayInRemains'
  BY <1>2, WayInUntouched, NoEditGrows
<1>3. \/ UNCHANGED <<user, link, flow, unlink, stranded>>
      \/ \E v \in Verifications : MarkUserEmailVerified(v)
  BY DEF VerifyStep, Verify, GetUserByID, MarkTokenUsed, DeleteTokensForUser, AbandonVerify,
     ExpireToken, SweepToken, Requests, History
<1> QED
  BY <1>1, <1>2, <1>3

LEMMA AdminKeepsWayIn ==
    ASSUME Inv, WayInInv, \A m, n \in Unlinks : m = n, AdminStep
    PROVE  UsersKeepAWayIn' /\ AnotherWayInRemains'
<1>1. ASSUME NEW u \in Users, NEW e \in Emails, ChangeEmail(u, e)
      PROVE  UsersKeepAWayIn' /\ AnotherWayInRemains'
  <2>1. user[u] # None /\ user[u] \in UserRow
    BY <1>1 DEF ChangeEmail, Active, Inv, TypeOK
  <2>2. Grown /\ NobodyAppears
    <3>1. PICK moved, row :
              /\ moved = (user[u].moved \/ user[u].verified \/ BeingChecked(u))
              /\ row = [user[u] EXCEPT !.email = e, !.held = user[u].held \cup {e},
                                       !.moved = moved]
      OBVIOUS
    <3>2. user' = [user EXCEPT ![u] = row]
      BY <1>1, <3>1 DEF ChangeEmail
    <3>3. \A w \in Users : (w # u => user'[w] = user[w]) /\ user'[u] = row
      BY <3>2 DEF Inv, TypeOK
    <3>4. moved \in BOOLEAN /\ user[u].held \in SUBSET Emails
      BY <2>1, <3>1 DEF UserRow
    <3>5. row \in UserRow
      BY <2>1, <3>1, <3>4, RowEdits
    <3>6. /\ row.born = user[u].born /\ row.held = user[u].held \cup {e}
          /\ row.password = user[u].password /\ row.deleted = user[u].deleted
      BY <2>1, <3>1 DEF UserRow
    <3>7. row # None
      BY <3>5, NoneIsNothing
    <3> QED
      BY <2>1, <3>3, <3>6, <3>7 DEF Grown, NobodyAppears, Active
  <2> QED
    BY <1>1, <2>2, WayInUntouched DEF ChangeEmail, Requests, History
<1>2. ASSUME NEW u \in Users, DeleteUser(u) PROVE UsersKeepAWayIn' /\ AnotherWayInRemains'
  BY <1>2, SmallEditsGrow, WayInUntouched DEF DeleteUser, Active, Requests, History
<1>3. ASSUME NEW u \in Users, SetPassword(u) PROVE UsersKeepAWayIn' /\ AnotherWayInRemains'
  <2>1. user[u] # None /\ user[u] \in UserRow /\ user' = [user EXCEPT ![u].password = TRUE]
    BY <1>3 DEF SetPassword, Active, Inv, TypeOK
  <2>2. Grown /\ NobodyAppears
    BY <2>1, SmallEditsGrow
  <2>3. HasWayIn(u)'
    BY <2>1 DEF HasWayIn, Inv, TypeOK, UserRow
  <2>4. StrandedStay
    BY <1>3, <2>3 DEF SetPassword, StrandedStay
  <2>5. CreationsGoOn
    BY <1>3 DEF SetPassword, CreationsGoOn, Creating, Requests
  <2> QED
    BY <1>3, <2>2, <2>4, <2>5, WayInStays, KeptWhenUnchanged DEF SetPassword, Requests
<1>4. ASSUME NEW n \in Unlinks, NEW r, unlink' = [unlink EXCEPT ![n] = r],
             r # None /\ r.pc = "delete" /\ Linked(r.link) =>
                 user[link[r.link].user].password \/ Remaining(r.link) # {},
             UNCHANGED <<user, link, flow, stranded>>
      PROVE  UsersKeepAWayIn' /\ AnotherWayInRemains'
  <2>1. UsersKeepAWayIn'
    BY <1>4, WayInUntouched, NoEditGrows
  <2>2. ASSUME NEW m \in Unlinks, UnlinkAt(m, "delete")', Linked(unlink'[m].link)
        PROVE  user[link[unlink'[m].link].user].password \/ Remaining(unlink'[m].link) # {}
    BY <1>4, <2>2 DEF UnlinkAt, WayInInv, AnotherWayInRemains, Inv, TypeOK
  <2>3. AnotherWayInRemains'
    BY <1>4, <2>2 DEF AnotherWayInRemains, UnlinkAt, Linked, Remaining
  <2> QED
    BY <2>1, <2>3
<1>5. ASSUME NEW n \in Unlinks, NEW k \in Links, UnlinkUserFederation(n, k)
      PROVE  UsersKeepAWayIn' /\ AnotherWayInRemains'
  <2>1. PICK r : r = [pc |-> "password", link |-> k]
    OBVIOUS
  <2> QED
    BY <1>4, <1>5, <2>1 DEF UnlinkUserFederation, History
<1>6. ASSUME NEW n \in Unlinks, HasPassword(n) PROVE UsersKeepAWayIn' /\ AnotherWayInRemains'
  <2>1. PICK pc : pc = IF user[link[unlink[n].link].user].password THEN "delete" ELSE "others"
    OBVIOUS
  <2>2. PICK r : r = [unlink[n] EXCEPT !.pc = pc]
    OBVIOUS
  <2>3. r.pc = pc /\ r.link = unlink[n].link
    BY <1>6, <2>2 DEF HasPassword, UnlinkAt, Inv, TypeOK, Unlink
  <2>4. unlink' = [unlink EXCEPT ![n] = r] /\ UNCHANGED <<user, link, flow, stranded>>
    BY <1>6, <2>1, <2>2 DEF HasPassword, History
  <2>5. r.pc = "delete" => user[link[r.link].user].password
    BY <2>1, <2>3
  <2> QED
    BY <1>4, <2>4, <2>5
<1>7. ASSUME NEW n \in Unlinks, ListUserIdentities(n)
      PROVE  UsersKeepAWayIn' /\ AnotherWayInRemains'
  <2>1. PICK r : r = [unlink[n] EXCEPT !.pc = "delete"]
    OBVIOUS
  <2>2. r.link = unlink[n].link
    BY <1>7, <2>1 DEF ListUserIdentities, UnlinkAt, Inv, TypeOK, Unlink
  <2>3. CASE Remaining(unlink[n].link) # {}
    BY <1>4, <1>7, <2>1, <2>2, <2>3 DEF ListUserIdentities, History
  <2>4. CASE unlink' = [unlink EXCEPT ![n] = None]
    BY <1>4, <1>7, <2>4 DEF ListUserIdentities, History
  <2> QED
    BY <1>7, <2>3, <2>4 DEF ListUserIdentities, EndUnlink
<1>8. ASSUME NEW n \in Unlinks, AbandonUnlink(n) PROVE UsersKeepAWayIn' /\ AnotherWayInRemains'
  BY <1>4, <1>8 DEF AbandonUnlink, EndUnlink, History
<1>9. ASSUME NEW n \in Unlinks, DeleteUserIdentity(n)
      PROVE  UsersKeepAWayIn' /\ AnotherWayInRemains'
  <2>1. PICK k : k = unlink[n].link
    OBVIOUS
  <2>2. /\ k \in Links /\ Linked(k) /\ link[k] \in LinkRow
        /\ link' = [link EXCEPT ![k].removed = TRUE]
        /\ unlink' = [unlink EXCEPT ![n] = None]
        /\ UNCHANGED <<user, flow, stranded>>
    BY <1>9, <2>1 DEF DeleteUserIdentity, EndUnlink, UnlinkAt, Linked, Inv, TypeOK, Unlink
  <2>3. \A j \in Links : j # k => link'[j] = link[j]
    BY <2>2 DEF Inv, TypeOK
  <2>4. user[link[k].user].password \/ Remaining(k) # {}
    BY <1>9, <2>1, <2>2 DEF DeleteUserIdentity, WayInInv, AnotherWayInRemains
  <2>5. ASSUME NEW u \in Users, HasWayIn(u) PROVE HasWayIn(u)'
    <3>1. CASE user[u].password
      BY <2>2, <3>1 DEF HasWayIn
    <3>2. CASE \E j \in Links \ {k} : Linked(j) /\ link[j].user = u
      BY <2>3, <3>2 DEF HasWayIn, Linked
    <3>3. CASE link[k].user = u /\ ~user[u].password
      <4>1. PICK j \in Remaining(k) : TRUE
        BY <2>4, <3>3
      <4> QED
        BY <2>3, <3>3, <4>1 DEF Remaining, HasWayIn, Linked
    <3> QED
      BY <2>5, <3>1, <3>2, <3>3 DEF HasWayIn
  <2>6. UsersKeepAWayIn'
    BY <2>2, <2>5 DEF UsersKeepAWayIn, WayInInv, Active, Creating
  <2>7. \A m \in Unlinks : unlink'[m] = None
    BY <2>2 DEF Inv, TypeOK
  <2>8. AnotherWayInRemains'
    BY <2>7 DEF AnotherWayInRemains, UnlinkAt
  <2> QED
    BY <2>6, <2>8
<1> QED
  BY <1>1, <1>2, <1>3, <1>5, <1>6, <1>7, <1>8, <1>9 DEF AdminStep

-----------------------------------------------------------------------------

\* The tables and the handlers keep their shapes (all of Identities).
THEOREM TypeCorrect == Spec => []TypeOK
BY AlwaysInv, PTL DEF Inv

\* However look-ups, inserts and edits overlap, no two accounts that are not
\* deleted share an address (Register, createUser, LinkOrCreate, UpdateUser).
THEOREM AddressesAreUnique == Spec => []OneUserPerEmail
<1>1. Inv => OneUserPerEmail
  BY DEF Inv, IdentityInv
<1> QED
  BY <1>1, AlwaysInv, PTL

\* Until it is unlinked, a provider account opens one and the same account,
\* save for a login whose link could not be stored (LinkOrCreate).
THEOREM ProviderAccountsHaveOneHome == Spec => []OneHomePerAccount
<1>1. Inv => OneHomePerAccount
  <2> SUFFICES ASSUME Inv, NEW s \in Subs, NEW u \in home[s], NEW w \in home[s] PROVE u = w
    BY DEF OneHomePerAccount
  <2>1. PICK j \in LinkOf(s) : link[j].user = u
    BY DEF Inv, IdentityInv, HomesAreLinked
  <2>2. PICK k \in LinkOf(s) : link[k].user = w
    BY DEF Inv, IdentityInv, HomesAreLinked
  <2> QED
    BY <2>1, <2>2 DEF Inv, IdentityInv, OneLinkPerSub, LinkOf
<1> QED
  BY <1>1, AlwaysInv, PTL

\* A link leads to an account created for it, or one that has had an address
\* the provider verified (LinkOrCreate).
THEOREM OnlyProvenAddressesLink == Spec => []LinksAreEarned
<1>1. Inv => LinksAreEarned
  BY DEF Inv, IdentityInv
<1> QED
  BY <1>1, AlwaysInv, PTL

\* An address marked verified and not edited since is the one that was
\* confirmed or vouched for (Verify, createUser).
THEOREM MarksAreForTheAddress == Spec => []VerifiedAddressWasChecked
<1>1. Inv => VerifiedAddressWasChecked
  BY DEF Inv, IdentityInv
<1> QED
  BY <1>1, AlwaysInv, PTL

\* If links are removed one at a time, nobody but an account whose creation
\* broke off is left without a way in (unlinkUserFederation).
THEOREM UnlinkingOneByOneIsSafe ==
    ASSUME \A m, n \in Unlinks : m = n
    PROVE  Spec => []UsersKeepAWayIn
<1>1. Init => WayInInv
  BY DEF Init, WayInInv, UsersKeepAWayIn, Active, AnotherWayInRemains, UnlinkAt
<1>2. Inv /\ WayInInv /\ [Next]_vars => WayInInv'
  <2> SUFFICES ASSUME Inv, WayInInv, [Next]_vars PROVE WayInInv'
    OBVIOUS
  <2>1. CASE UNCHANGED vars
    BY <2>1, WayInUntouched, NoEditGrows DEF vars, WayInInv
  <2> QED
    BY <2>1, SignupKeepsWayIn, SignInKeepsWayIn, VerifyKeepsWayIn, AdminKeepsWayIn
    DEF Next, WayInInv
<1>3. WayInInv => UsersKeepAWayIn
  BY DEF WayInInv
<1> QED
  BY <1>1, <1>2, <1>3, AlwaysInv, PTL DEF Spec

=============================================================================

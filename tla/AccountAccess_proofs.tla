------------------------- MODULE AccountAccess_proofs -------------------------
(***************************************************************************)
(* Proofs about access to an account, for any number of concurrent logins  *)
(* and change handlers, any lock-out threshold and any bounds.             *)
(***************************************************************************)
EXTENDS AccountAccess, SequenceTheorems, FiniteSetTheorems, TLAPS

-----------------------------------------------------------------------------
(* Typing, together with the progress of the handlers.                     *)

Typed == TypeOK /\ Progressing

\* A handler that goes on has a statement left, or is gone.
LEMMA AdvanceTypes ==
    ASSUME Typed, NEW h \in Changes, change[h] # None,
           NEW version \in Versions, NEW revoked \in BOOLEAN,
           revoked => change[h].revoked \/ Head(change[h].todo) = "revoke",
           AdvanceAt(h, version, revoked)
    PROVE  /\ change' \in [Changes -> Change \cup {None}]
           /\ change'[h] # None =>
                 /\ change'[h].todo # <<>> /\ RevokesLast(change'[h])
                 /\ change'[h].version = version
           /\ \A g \in Changes : g # h => change'[g] = change[g]
<1> DEFINE todo == change[h].todo
<1>1. change[h] \in Change /\ todo \in Seq(Statements) /\ todo # <<>> /\ RevokesLast(change[h])
  BY DEF Typed, TypeOK, Change, Progressing
<1>2. /\ Len(todo) \in Nat \ {0}
      /\ Tail(todo) \in Seq(Statements) /\ Len(Tail(todo)) = Len(todo) - 1
      /\ Head(todo) = todo[1]
      /\ \A i \in 1 .. Len(Tail(todo)) : Tail(todo)[i] = todo[i + 1]
  <2> HIDE DEF todo
  <2>1. Len(todo) \in Nat \ {0}
    BY <1>1, EmptySeq
  <2>2. /\ Tail(todo) \in Seq(Statements) /\ Len(Tail(todo)) = Len(todo) - 1
        /\ \A i \in 1 .. Len(Tail(todo)) : Tail(todo)[i] = todo[i + 1]
    BY <1>1, HeadTailProperties, Zenon
  <2>3. Head(todo) = todo[1]
    BY <1>1
  <2> QED
    BY <2>1, <2>2, <2>3
<1>3. Len(todo) # 1 => Tail(todo) # <<>>
  <2> HIDE DEF todo
  <2>1. Len(todo) # 1 => Len(Tail(todo)) # 0
    BY <1>2
  <2>2. Len(<<>>) = 0
    OBVIOUS
  <2> QED
    BY <2>1, <2>2, Zenon
<1> DEFINE next == [todo |-> Tail(todo), version |-> version, link |-> change[h].link,
                    revoked |-> revoked]
<1>4. Len(todo) # 1 => next \in Change
  BY <1>1, <1>2 DEF Change
<1>5. \A i \in 1 .. Len(Tail(todo)) : Bars(Tail(todo)[i]) =>
         ~revoked /\ \A j \in 1 .. i : Tail(todo)[j] # "revoke"
  <2> SUFFICES ASSUME NEW i \in 1 .. Len(Tail(todo)), Bars(Tail(todo)[i])
               PROVE  ~revoked /\ \A j \in 1 .. i : Tail(todo)[j] # "revoke"
    OBVIOUS
  <2>1. i + 1 \in 1 .. Len(todo) /\ Bars(todo[i + 1])
    BY <1>2
  <2>2. ~change[h].revoked /\ \A j \in 1 .. i + 1 : todo[j] # "revoke"
    BY <1>1, <2>1 DEF RevokesLast
  <2>3. ~revoked
    BY <1>2, <2>2
  <2>4. ASSUME NEW j \in 1 .. i PROVE Tail(todo)[j] # "revoke"
    <3>1. j \in 1 .. Len(Tail(todo)) /\ j + 1 \in 1 .. i + 1
      BY <1>2
    <3> QED
      BY <1>2, <2>2, <3>1
  <2> QED
    BY <2>3, <2>4
<1>6. change' = [change EXCEPT ![h] = IF Len(todo) = 1 THEN None ELSE next]
  BY DEF AdvanceAt
<1>7. CASE Len(todo) = 1
  <2>1. change' = [change EXCEPT ![h] = None]
    BY <1>6, <1>7
  <2> QED
    BY <2>1 DEF Typed, TypeOK
<1>8. CASE Len(todo) # 1
  <2>1. next.todo = Tail(todo) /\ next.version = version /\ next.revoked = revoked
    BY <1>1 DEF Change
  <2>2. change' = [change EXCEPT ![h] = next] /\ next \in Change
    BY <1>4, <1>6, <1>8
  <2> HIDE DEF next
  <2>3. change'[h] = next
    BY <2>2 DEF Typed, TypeOK
  <2>4. RevokesLast(next)
    BY <1>5, <2>1 DEF RevokesLast
  <2> QED
    BY <1>3, <1>8, <2>1, <2>2, <2>3, <2>4 DEF Typed, TypeOK
<1> QED
  BY <1>7, <1>8

\* A list of statements a handler may begin with.
Ordered(todo) ==
    /\ todo \in Seq(Statements) /\ todo # <<>>
    /\ \A i \in 1 .. Len(todo) : Bars(todo[i]) => \A j \in 1 .. i : todo[j] # "revoke"

LEMMA OpenTypes ==
    ASSUME Typed, NEW h \in Changes, NEW k \in Links \cup {None}, NEW todo, Ordered(todo),
           Open(h, todo, k)
    PROVE  Typed'
<1> DEFINE first == [todo |-> todo, version |-> 0, link |-> k, revoked |-> FALSE]
<1>1. first \in Change /\ first.todo = todo /\ first.version = 0 /\ first.revoked = FALSE
  BY BoundsAreNaturals DEF Change, Versions, Ordered
<1>2. change' = [change EXCEPT ![h] = first]
  BY DEF Open
<1> HIDE DEF first
<1>3. first.todo # <<>> /\ RevokesLast(first)
  BY <1>1 DEF RevokesLast, Ordered
<1>4. cred.version >= 0
  BY DEF Typed, TypeOK, Credential, Versions
<1>5. change' \in [Changes -> Change \cup {None}]
  BY <1>1, <1>2 DEF Typed, TypeOK
<1>6. \A g \in Changes : change'[g] # None =>
         change'[g].todo # <<>> /\ RevokesLast(change'[g]) /\ change'[g].version <= cred.version
  BY <1>1, <1>2, <1>3, <1>4 DEF Typed, TypeOK, Progressing
<1>7. UNCHANGED <<account, login, counts, fences>>
  BY DEF Open
<1> QED
  BY <1>5, <1>6, <1>7 DEF Typed, TypeOK, Progressing, account, counts, fences

LEMMA StatementLists ==
    /\ Ordered(ResetStatements) /\ Ordered(AdminResetStatements)
    /\ Ordered(LockStatements) /\ Ordered(DeleteStatements) /\ Ordered(UnlockStatements)
    /\ Ordered(<<"revoke">>)
<1>1. Ordered(ResetStatements)
  BY DEF ResetStatements, Ordered, Statements, Bars
<1>2. Ordered(AdminResetStatements)
  BY DEF AdminResetStatements, Ordered, Statements, Bars
<1>3. Ordered(LockStatements) /\ Ordered(DeleteStatements) /\ Ordered(UnlockStatements)
  BY DEF LockStatements, DeleteStatements, UnlockStatements, Ordered, Statements, Bars
<1>4. Ordered(<<"revoke">>)
  BY DEF Ordered, Statements, Bars
<1> QED
  BY <1>1, <1>2, <1>3, <1>4

LEMMA ZeroedTypes ==
    ASSUME TypeOK
    PROVE  Zeroed \in Credential /\ Zeroed.version = cred.version
<1>1. cred \in Credential
  BY DEF TypeOK
<1>2. CASE cred.version = 0
  BY <1>1, <1>2 DEF Zeroed
<1>3. CASE cred.version # 0
  BY <1>1, <1>3 DEF Zeroed, Credential
<1> QED
  BY <1>2, <1>3

\* The steps of a login.
LEMMA LoginTypes ==
    ASSUME Typed, NEW l \in Logins, LoginStep(l) PROVE Typed'
<1> USE DEF Typed
<1>1. CASE FindUser(l)
  <2>1. [pc |-> "credential", version |-> 0, overtaken |-> FALSE] \in Login
    BY BoundsAreNaturals DEF Login, Versions
  <2> QED
    BY <1>1, <2>1 DEF FindUser, TypeOK, Progressing, account, counts, fences
<1>2. ASSUME NEW right \in BOOLEAN, ReadCredential(l, right) PROVE Typed'
  <2>1. login[l] \in Login
    BY <1>2 DEF ReadCredential, LoginAt, TypeOK
  <2>2. login' \in [Logins -> Login \cup {None}]
    BY <1>2, <2>1 DEF ReadCredential, TypeOK, Login, Credential
  <2> QED
    BY <1>2, <2>2 DEF ReadCredential, TypeOK, Progressing, account, counts, fences
<1>3. CASE CountFailure(l)
  <2>1. login[l] \in Login
    BY <1>3 DEF CountFailure, LoginAt, TypeOK
  <2>2. login' \in [Logins -> Login \cup {None}]
    BY <1>3, <2>1 DEF CountFailure, TypeOK, Login
  <2>3. cred' \in Credential /\ cred'.version = cred.version
    BY <1>3 DEF CountFailure, TypeOK, Credential
  <2> QED
    BY <1>3, <2>2, <2>3 DEF CountFailure, TypeOK, Progressing, counts, fences
<1>4. CASE SetLockout(l)
  <2>1. cred' \in Credential /\ cred'.version = cred.version
    BY <1>4 DEF SetLockout, TypeOK, Credential
  <2> QED
    BY <1>4, <2>1 DEF SetLockout, TypeOK, Progressing, counts, fences
<1>5. CASE LoseFailure(l)
  BY <1>5, BoundsAreNaturals DEF LoseFailure, TypeOK, Progressing, account, fences
<1>6. CASE ZeroFailures(l)
  <2>1. login[l] \in Login
    BY <1>6 DEF ZeroFailures, LoginAt, TypeOK
  <2>2. login' \in [Logins -> Login \cup {None}]
    BY <1>6, <2>1 DEF ZeroFailures, GoTo, TypeOK, Login
  <2> QED
    BY <1>6, <2>2, ZeroedTypes DEF ZeroFailures, TypeOK, Progressing, fences
<1>7. CASE SkipZero(l) \/ MFAGate(l)
  <2>1. login[l] \in Login
    BY <1>7 DEF SkipZero, MFAGate, LoginAt, TypeOK
  <2>2. PICK pc \in {"gate", "session", "challenge"} : GoTo(l, pc)
    BY <1>7 DEF SkipZero, MFAGate
  <2>3. login' \in [Logins -> Login \cup {None}]
    BY <2>1, <2>2 DEF GoTo, TypeOK, Login
  <2> QED
    BY <1>7, <2>3 DEF SkipZero, MFAGate, TypeOK, Progressing, account, counts, fences
<1>8. ASSUME NEW s \in Sessions, CreateSession(l, s) PROVE Typed'
  <2>1. login[l] \in Login
    BY <1>8 DEF CreateSession, LoginAt, TypeOK
  <2>2. [live |-> TRUE, version |-> login[l].version, overtaken |-> login[l].overtaken]
           \in SessionRow
    BY <2>1 DEF Login, SessionRow
  <2> QED
    BY <1>8, <2>2 DEF CreateSession, TypeOK, Progressing, counts, fences
<1>9. CASE AbandonLogin(l)
  BY <1>9 DEF AbandonLogin, TypeOK, Progressing, account, counts, fences
<1> QED
  BY <1>1, <1>2, <1>3, <1>4, <1>5, <1>6, <1>7, <1>8, <1>9 DEF LoginStep

\* Opening a handler.
LEMMA OpenStepIsOpen ==
    ASSUME NEW h \in Changes, OpenStep(h)
    PROVE  \E k \in Links \cup {None}, todo \in
              {ResetStatements, AdminResetStatements, LockStatements, DeleteStatements,
               UnlockStatements, <<"revoke">>} : Open(h, todo, k)
BY DEF OpenStep, Reset, ResetUserPassword, LockUser, UnlockUser, DeleteUser, RevokeUserSessions

LEMMA OpenStepTypes == ASSUME Typed, NEW h \in Changes, OpenStep(h) PROVE Typed'
<1>1. PICK k \in Links \cup {None}, todo \in
              {ResetStatements, AdminResetStatements, LockStatements, DeleteStatements,
               UnlockStatements, <<"revoke">>} : Open(h, todo, k)
  BY OpenStepIsOpen
<1>2. Ordered(todo)
  BY StatementLists
<1> QED
  BY <1>1, <1>2, OpenTypes

\* Running a statement of a handler.
LEMMA StatementTypes ==
    ASSUME Typed, NEW h \in Changes, StatementStep(h) PROVE Typed'
<1>0. change[h] # None /\ change[h] \in Change
  BY DEF StatementStep, RunUpsert, RunDisable, RunEnable, RunZero, RunRevoke, RunMark,
     RunPurge, SkipStatement, AbandonChange, Runs, Typed, TypeOK
<1>1. /\ change[h].version \in Versions /\ change[h].version <= cred.version
      /\ change[h].revoked \in BOOLEAN
  BY <1>0 DEF Change, Typed, Progressing
<1> DEFINE Fit(version) ==
             /\ change' \in [Changes -> Change \cup {None}]
             /\ \A g \in Changes : change'[g] # None =>
                   /\ change'[g].todo # <<>> /\ RevokesLast(change'[g])
                   /\ change'[g].version <= version
<1>2. CASE RunUpsert(h)
  <2>1. cred.version + 1 \in Versions
    BY <1>2, BoundsAreNaturals DEF RunUpsert, Typed, TypeOK, Credential, Versions
  <2>2. cred' \in Credential /\ cred'.version = cred.version + 1
    BY <1>2, <2>1 DEF RunUpsert, Credential
  <2>3. /\ change' \in [Changes -> Change \cup {None}]
        /\ change'[h] # None =>
              /\ change'[h].todo # <<>> /\ RevokesLast(change'[h])
              /\ change'[h].version = cred.version + 1
        /\ \A g \in Changes : g # h => change'[g] = change[g]
    BY <1>0, <1>1, <1>2, <2>1, AdvanceTypes DEF RunUpsert
  <2>4. Fit(cred'.version)
    BY <2>2, <2>3 DEF Typed, TypeOK, Progressing, Change, Credential, Versions
  <2>5. purged' \in Versions /\ purged' <= cred'.version
    BY <1>2, <2>1, <2>2 DEF RunUpsert, Typed, TypeOK, Progressing, Credential, Versions
  <2> QED
    BY <1>2, <2>2, <2>4, <2>5 DEF RunUpsert, Typed, TypeOK, Progressing
<1>3. ASSUME NEW revoked \in BOOLEAN, AdvanceAt(h, change[h].version, revoked),
             revoked => change[h].revoked \/ Head(change[h].todo) = "revoke"
      PROVE  Fit(cred.version)
  <2>1. /\ change' \in [Changes -> Change \cup {None}]
        /\ change'[h] # None =>
              /\ change'[h].todo # <<>> /\ RevokesLast(change'[h])
              /\ change'[h].version = change[h].version
        /\ \A g \in Changes : g # h => change'[g] = change[g]
    BY <1>0, <1>1, <1>3, AdvanceTypes
  <2> QED
    BY <1>1, <2>1 DEF Typed, Progressing
<1>4. Advance(h) => Fit(cred.version)
  BY <1>1, <1>3 DEF Advance
<1>5. CASE SkipStatement(h)
  BY <1>4, <1>5 DEF SkipStatement, Typed, TypeOK, Progressing, account, counts, fences
<1>6. CASE RunZero(h)
  <2>1. cred' \in Credential /\ cred'.version = cred.version
    BY <1>6, ZeroedTypes DEF RunZero, Typed
  <2> QED
    BY <1>4, <1>6, <2>1 DEF RunZero, Typed, TypeOK, Progressing, fences
<1>7. CASE RunRevoke(h)
  <2>1. session' \in [Sessions -> SessionRow \cup {None}]
    BY <1>7 DEF RunRevoke, Typed, TypeOK, SessionRow
  <2>2. login' \in [Logins -> Login \cup {None}]
    BY <1>7 DEF RunRevoke, Typed, TypeOK, Login
  <2>3. purged' \in Versions /\ purged' <= cred.version
    BY <1>1, <1>7 DEF RunRevoke, Typed, TypeOK, Progressing
  <2>4. Fit(cred.version)
    BY <1>3, <1>7 DEF RunRevoke, Runs
  <2> QED
    BY <1>7, <2>1, <2>2, <2>3, <2>4 DEF RunRevoke, Typed, TypeOK, Progressing, counts
<1>8. CASE RunMark(h) \/ RunPurge(h)
  <2>1. link' \in [Links -> {"unsent", "sent", "used", "expired", "deleted"}]
    BY <1>8 DEF RunMark, RunPurge, Typed, TypeOK
  <2> QED
    BY <1>4, <1>8, <2>1 DEF RunMark, RunPurge, Typed, TypeOK, Progressing, counts, fences
<1>9. CASE RunDisable(h)
  <2>1. status' = "disabled"
    BY <1>9 DEF RunDisable
  <2>2. deleted' \in BOOLEAN
    BY <1>9 DEF RunDisable, Runs
  <2>3. barred' \in BOOLEAN
    BY <1>9 DEF RunDisable
  <2> QED
    BY <1>4, <1>9, <2>1, <2>2, <2>3 DEF RunDisable, Typed, TypeOK, Progressing, counts
<1>10. CASE RunEnable(h)
  BY <1>4, <1>10 DEF RunEnable, Typed, TypeOK, Progressing, counts
<1>11. CASE AbandonChange(h)
  BY <1>11 DEF AbandonChange, Typed, TypeOK, Progressing, account, counts, fences
<1> QED
  BY <1>2, <1>5, <1>6, <1>7, <1>8, <1>9, <1>10, <1>11 DEF StatementStep

\* Everything else.
LEMMA OtherTypes == ASSUME Typed, OtherStep PROVE Typed'
<1> USE DEF Typed
<1>1. ASSUME NEW s \in {"active", "disabled"}, UpdateUser(s) PROVE Typed'
  BY <1>1 DEF UpdateUser, TypeOK, Progressing, counts
<1>2. ASSUME NEW k \in Links, RequestReset(k) \/ ExpireLink(k) PROVE Typed'
  BY <1>2 DEF RequestReset, ExpireLink, TypeOK, Progressing, counts, fences
<1>3. ASSUME NEW s \in Sessions, EndSession(s) PROVE Typed'
  <2>1. session' \in [Sessions -> SessionRow \cup {None}]
    BY <1>3 DEF EndSession, TypeOK, SessionRow
  <2> QED
    BY <1>3, <2>1 DEF EndSession, TypeOK, Progressing, counts, fences
<1>4. CASE LockLapses
  <2>1. cred' \in Credential /\ cred'.version = cred.version
    BY <1>4 DEF LockLapses, TypeOK, Credential
  <2> QED
    BY <1>4, <2>1 DEF LockLapses, TypeOK, Progressing, fences
<1> QED
  BY <1>1, <1>2, <1>3, <1>4 DEF OtherStep

LEMMA NextTypes == ASSUME Typed, [Next]_vars PROVE Typed'
<1>1. CASE UNCHANGED vars
  BY <1>1 DEF vars, account, counts, fences, Typed, TypeOK, Progressing
<1> QED
  BY <1>1, LoginTypes, OpenStepTypes, StatementTypes, OtherTypes DEF Next

LEMMA InitTyped == Init => Typed
<1> SUFFICES ASSUME Init PROVE Typed
  OBVIOUS
<1>1. 0 \in Versions /\ 0 \in 0 .. LostBound
  BY BoundsAreNaturals DEF Versions
<1>2. PICK v \in {0, 1} \cap Versions : cred = [version |-> v, failed |-> 0, locked |-> FALSE]
  BY DEF Init
<1>3. cred \in Credential /\ cred.version >= 0
  BY <1>2 DEF Credential
<1> QED
  BY <1>1, <1>3 DEF Init, Typed, TypeOK, Progressing

LEMMA AlwaysTyped == Spec => []Typed
BY InitTyped, NextTypes, PTL DEF Spec

-----------------------------------------------------------------------------
(* Password changes and locks end the sessions.                            *)

Fenced == Typed /\ FenceInv

\* A login that goes on keeps what it has verified, and stays overtaken.
LEMMA LoginFences ==
    ASSUME Fenced, Typed', NEW l \in Logins, LoginStep(l) PROVE FenceInv'
<1> USE DEF Fenced, Typed, FenceInv
<1>1. UNCHANGED <<status, purged, barred, change>> /\ cred'.version = cred.version
  <2>1. CASE CountFailure(l) \/ SetLockout(l) \/ ZeroFailures(l)
    BY <2>1, ZeroedTypes DEF CountFailure, SetLockout, ZeroFailures, TypeOK, Credential, fences
  <2>2. CASE \/ FindUser(l) \/ LoseFailure(l) \/ SkipZero(l) \/ MFAGate(l) \/ AbandonLogin(l)
             \/ \E right \in BOOLEAN : ReadCredential(l, right)
             \/ \E s \in Sessions : CreateSession(l, s)
    BY <2>2 DEF FindUser, LoseFailure, SkipZero, MFAGate, AbandonLogin, ReadCredential,
       CreateSession, account, fences
  <2> QED
    BY <2>1, <2>2 DEF LoginStep
<1>2. /\ purged \in Nat /\ cred.version \in Nat
      /\ login[l] # None => login[l] \in Login
  BY DEF TypeOK, Credential, Versions
<1> DEFINE StaysCurrent ==
             /\ \A m \in Logins : m # l => login'[m] = login[m]
             /\ login'[l] # None /\ ~login'[l].overtaken =>
                   /\ ~barred
                   /\ login'[l].pc # "credential" => login'[l].version >= purged
<1>3. StaysCurrent
  <2>1. CASE FindUser(l)
    BY <2>1 DEF FindUser, TypeOK, Progressing
  <2>2. ASSUME NEW right \in BOOLEAN, ReadCredential(l, right) PROVE StaysCurrent
    <3>1. login[l] # None /\ login[l] \in Login /\ purged <= cred.version
      BY <1>2, <2>2 DEF ReadCredential, LoginAt, Progressing
    <3> QED
      BY <1>2, <2>2, <3>1 DEF ReadCredential, TypeOK, Login, LoginsAreCurrent
  <2>3. CASE CountFailure(l) \/ SetLockout(l) \/ LoseFailure(l) \/ AbandonLogin(l)
    BY <1>2, <2>3 DEF CountFailure, SetLockout, LoseFailure, AbandonLogin, LoginAt, TypeOK, Login,
       LoginsAreCurrent
  <2>4. CASE ZeroFailures(l) \/ SkipZero(l) \/ MFAGate(l)
    <3>1. /\ login[l] \in Login /\ login[l] # None /\ login[l].pc # "credential"
          /\ \E pc \in {"gate", "session", "challenge"} : GoTo(l, pc)
      BY <1>2, <2>4 DEF ZeroFailures, SkipZero, MFAGate, LoginAt
    <3> QED
      BY <3>1 DEF GoTo, TypeOK, Login, LoginsAreCurrent
  <2>5. ASSUME NEW s \in Sessions, CreateSession(l, s) PROVE StaysCurrent
    BY <1>2, <2>5 DEF CreateSession, LoginAt, TypeOK, LoginsAreCurrent
  <2> QED
    BY <2>1, <2>2, <2>3, <2>4, <2>5 DEF LoginStep
<1>4. LoginsAreCurrent'
  BY <1>1, <1>3 DEF LoginsAreCurrent
<1> DEFINE ComesFromLogin ==
             \A s \in Sessions :
                \/ session'[s] = session[s]
                \/ /\ session'[s].version = login[l].version
                   /\ session'[s].overtaken = login[l].overtaken
                   /\ login[l] # None /\ login[l] \in Login /\ login[l].pc # "credential"
<1>5. ComesFromLogin
  <2>1. ASSUME NEW s \in Sessions, CreateSession(l, s) PROVE ComesFromLogin
    BY <1>2, <2>1 DEF CreateSession, LoginAt, TypeOK
  <2>2. CASE ~\E s \in Sessions : CreateSession(l, s)
    BY <2>2 DEF LoginStep, FindUser, ReadCredential, CountFailure, SetLockout, LoseFailure,
       ZeroFailures, SkipZero, MFAGate, AbandonLogin, account
  <2> QED
    BY <2>1, <2>2
<1>6. \A s \in Sessions : session'[s] # session[s] /\ ~session'[s].overtaken =>
         ~barred /\ session'[s].version >= purged
  BY <1>5 DEF LoginsAreCurrent, Login
<1>7. ChangeEndsOldSessions' /\ DisabledAccountsStayOut'
  <2>1. ASSUME NEW s \in Sessions, session'[s] # session[s], session'[s] # None,
               ~session'[s].overtaken
        PROVE  ~barred' /\ ~(session'[s].version < purged')
    <3>1. session'[s].version \in Nat
      BY <2>1 DEF TypeOK, SessionRow, Versions
    <3> QED
      BY <1>1, <1>2, <1>6, <2>1, <3>1
  <2> QED
    BY <1>1, <2>1 DEF ChangeEndsOldSessions, DisabledAccountsStayOut
<1> QED
  BY <1>4, <1>7

\* RevokeAllSessionsForUser ends the sessions and overtakes the logins.
LEMMA RevokeFences ==
    ASSUME Fenced, Typed', NEW h \in Changes, RunRevoke(h) PROVE FenceInv'
<1> USE DEF Fenced, Typed, FenceInv
<1>1. \A l \in Logins : login'[l] # None => login'[l].overtaken
  BY DEF RunRevoke, TypeOK, Login
<1>2. \A s \in Sessions : session'[s] # None => ~session'[s].live
  BY DEF RunRevoke, TypeOK, SessionRow
<1> QED
  BY <1>1, <1>2 DEF LoginsAreCurrent, ChangeEndsOldSessions, DisabledAccountsStayOut

\* What no other step touches.
LEMMA OthersFence ==
    ASSUME Fenced, Typed', UNCHANGED <<session, login, purged>>, barred' => barred
    PROVE  FenceInv'
BY DEF Fenced, Typed, FenceInv, LoginsAreCurrent, ChangeEndsOldSessions, DisabledAccountsStayOut

LEMMA EndSessionFences ==
    ASSUME Fenced, Typed', NEW s \in Sessions, EndSession(s) PROVE FenceInv'
<1> USE DEF Fenced, Typed, FenceInv
<1>1. UNCHANGED <<login, purged, barred>>
  BY DEF EndSession, fences
<1>2. \A t \in Sessions :
         \/ session'[t] = session[t]
         \/ session'[t] # None /\ ~session'[t].live
  BY NoneIsNoRow DEF EndSession, TypeOK, SessionRow
<1> QED
  BY <1>1, <1>2 DEF LoginsAreCurrent, ChangeEndsOldSessions, DisabledAccountsStayOut

\* Once a handler has revoked the sessions it bars nobody.
LEMMA BarringFences ==
    ASSUME Fenced, Typed', NEW h \in Changes, RunUpsert(h) \/ RunDisable(h) \/ RunEnable(h)
    PROVE  FenceInv'
<1>1. ASSUME Runs(h, "upsert") \/ Runs(h, "disable") \/ Runs(h, "delete")
      PROVE  ~change[h].revoked
  <2>1. /\ change[h] # None /\ change[h].todo \in Seq(Statements) /\ change[h].todo # <<>>
        /\ RevokesLast(change[h])
    BY <1>1 DEF Runs, Fenced, Typed, TypeOK, Progressing, Change
  <2>2. /\ 1 \in 1 .. Len(change[h].todo) /\ Head(change[h].todo) = change[h].todo[1]
    BY <2>1, HeadTailProperties, EmptySeq
  <2> QED
    BY <1>1, <2>1, <2>2 DEF Runs, RevokesLast, Bars
<1>2. UNCHANGED <<session, login, purged>> /\ (barred' => barred)
  <2>1. CASE RunUpsert(h)
    BY <1>1, <2>1 DEF RunUpsert
  <2>2. CASE RunDisable(h)
    BY <1>1, <2>2 DEF RunDisable
  <2>3. CASE RunEnable(h)
    BY <2>3 DEF RunEnable
  <2> QED
    BY <2>1, <2>2, <2>3
<1> QED
  BY <1>2, OthersFence

LEMMA NextFences == ASSUME Fenced, [Next]_vars PROVE Fenced'
<1>1. Typed'
  BY NextTypes DEF Fenced
<1>2. CASE UNCHANGED vars
  BY <1>1, <1>2, OthersFence DEF vars, account, fences, Fenced
<1>3. ASSUME NEW h \in Changes, OpenStep(h) PROVE Fenced'
  <2>1. UNCHANGED <<session, login, purged, barred>>
    BY <1>3, OpenStepIsOpen DEF Open, account, fences
  <2> QED
    BY <1>1, <2>1, OthersFence DEF Fenced
<1>4. ASSUME NEW h \in Changes, StatementStep(h), ~RunRevoke(h) PROVE Fenced'
  <2>1. CASE RunUpsert(h) \/ RunDisable(h) \/ RunEnable(h)
    BY <1>1, <2>1, BarringFences DEF Fenced
  <2>2. CASE ~(RunUpsert(h) \/ RunDisable(h) \/ RunEnable(h))
    <3>1. UNCHANGED <<session, login, purged, barred>>
      BY <1>4, <2>2 DEF StatementStep, RunZero, RunMark, RunPurge, SkipStatement,
         AbandonChange, account, fences
    <3> QED
      BY <1>1, <3>1, OthersFence DEF Fenced
  <2> QED
    BY <2>1, <2>2
<1>5. ASSUME OtherStep, ~\E s \in Sessions : EndSession(s) PROVE Fenced'
  <2>1. UNCHANGED <<session, login, purged>> /\ (barred' => barred)
    <3>1. ASSUME NEW s \in {"active", "disabled"}, UpdateUser(s)
          PROVE  UNCHANGED <<session, login, purged>> /\ (barred' => barred)
      BY <3>1 DEF UpdateUser
    <3>2. ASSUME NEW k \in Links, RequestReset(k) \/ ExpireLink(k)
          PROVE  UNCHANGED <<session, login, purged>> /\ (barred' => barred)
      BY <3>2 DEF RequestReset, ExpireLink, fences
    <3>3. CASE LockLapses
      BY <3>3 DEF LockLapses, fences
    <3> QED
      BY <1>5, <3>1, <3>2, <3>3 DEF OtherStep
  <2> QED
    BY <1>1, <2>1, OthersFence DEF Fenced
<1> QED
  BY <1>1, <1>2, <1>3, <1>4, <1>5, LoginFences, RevokeFences, EndSessionFences DEF Next, Fenced

LEMMA AlwaysFenced == Spec => []Fenced
<1>1. Init => Fenced
  <2>1. Init => FenceInv
    BY InitTyped DEF Init, Typed, FenceInv, LoginsAreCurrent, ChangeEndsOldSessions,
       DisabledAccountsStayOut
  <2> QED
    BY <2>1, InitTyped DEF Fenced
<1> QED
  BY <1>1, NextFences, PTL DEF Spec
-----------------------------------------------------------------------------
(* The lock-out bounds guessing.                                           *)

LEMMA SetsOfLogins ==
    ASSUME NEW S \in SUBSET Logins
    PROVE  /\ IsFiniteSet(S) /\ Cardinality(S) \in Nat
           /\ Cardinality(Logins) \in Nat /\ Cardinality(S) <= Cardinality(Logins)
           /\ \A T \in SUBSET S : Cardinality(T) <= Cardinality(S)
           /\ \A l \in S : Cardinality(S \ {l}) = Cardinality(S) - 1
           /\ \A l \in Logins \ S : Cardinality(S \cup {l}) = Cardinality(S) + 1
<1>1. IsFiniteSet(S)
  BY LoginsAreFinite, FS_Subset
<1> QED
  BY <1>1, LoginsAreFinite, FS_Subset, FS_CardinalityType, FS_AddElement, FS_RemoveElement

LEMMA PendingLogins ==
    /\ Counting \in SUBSET Logins /\ Locking \in SUBSET Logins
    /\ Counting' \in SUBSET Logins /\ Locking' \in SUBSET Logins
BY DEF Counting, Locking

Budgeted == Typed /\ BudgetInv

\* A step that starts the count of guesses anew.
LEMMA FreshBudget == ASSUME Typed', guesses' = 0 PROVE BudgetInv'
<1> DEFINE C == Counting'
           B == (Counting \cup Locking)'
<1>1. C \in SUBSET Logins /\ B \in SUBSET Logins
  BY PendingLogins
<1> HIDE DEF C, B
<1>2. Cardinality(C) \in Nat /\ Cardinality(B) \in Nat /\ Cardinality(Logins) \in Nat
  BY <1>1, SetsOfLogins
<1>3. lost' \in Nat /\ cred'.failed \in Nat
  BY BoundsAreNaturals DEF Typed, TypeOK, Credential
<1>4. /\ 0 <= cred'.failed + Cardinality(C) + lost'
      /\ 0 <= MaxFailedAttempts - 1 + Cardinality(B) + lost'
      /\ 0 <= MaxFailedAttempts - 1 + Cardinality(Logins) + lost'
  BY <1>2, <1>3, BoundsAreNaturals
<1> QED
  BY <1>4 DEF BudgetInv, GuessBudget, C, B

\* A step that leaves the counts and the pending failures as they are.
LEMMA QuietBudget ==
    ASSUME Budgeted, UNCHANGED <<cred, counts>>,
           \A l \in Logins : \A pc \in {"count", "lock"} : LoginAt(l, pc)' <=> LoginAt(l, pc)
    PROVE  BudgetInv'
<1>1. Counting' = Counting /\ Locking' = Locking
  BY DEF Counting, Locking
<1> QED
  BY <1>1 DEF Budgeted, BudgetInv, GuessBudget, counts

\* The steps that find, record, act on or lose a failure.
LEMMA FailureBudget ==
    ASSUME Budgeted, Typed', NEW l \in Logins,
           \/ ReadCredential(l, FALSE)
           \/ CountFailure(l) \/ SetLockout(l) \/ LoseFailure(l)
    PROVE  BudgetInv'
<1> DEFINE C == Cardinality(Counting)
           B == Cardinality(Counting \cup Locking)
           CC == Cardinality(Counting')
           BB == Cardinality((Counting \cup Locking)')
           L == Cardinality(Logins)
<1>1. /\ C \in Nat /\ B \in Nat /\ CC \in Nat /\ BB \in Nat /\ L \in Nat
      /\ CC <= BB /\ BB <= L
  <2>1. /\ Counting \in SUBSET Logins /\ Counting \cup Locking \in SUBSET Logins
        /\ Counting' \in SUBSET Logins /\ (Counting \cup Locking)' \in SUBSET Logins
        /\ Counting' \in SUBSET ((Counting \cup Locking)')
    BY PendingLogins
  <2> QED
    BY <2>1, SetsOfLogins
<1>2. /\ guesses \in Nat /\ lost \in Nat /\ cred.failed \in Nat /\ lost' \in Nat
      /\ MaxFailedAttempts \in Nat \ {0}
  BY BoundsAreNaturals DEF Budgeted, Typed, TypeOK, Credential
<1>3. /\ guesses <= cred.failed + C + lost
      /\ ~cred.locked => guesses <= MaxFailedAttempts - 1 + B + lost
      /\ guesses <= MaxFailedAttempts - 1 + L + lost
  BY DEF Budgeted, BudgetInv, GuessBudget
<1> DEFINE Goal == /\ guesses' <= cred'.failed + CC + lost'
                   /\ ~cred'.locked => guesses' <= MaxFailedAttempts - 1 + BB + lost'
                   /\ guesses' <= MaxFailedAttempts - 1 + L + lost'
<1>4. SUFFICES Goal
  BY DEF BudgetInv, GuessBudget
<1>5. /\ login \in [Logins -> Login \cup {None}] /\ cred \in Credential
      /\ login[l] # None => login[l] \in Login
  BY DEF Budgeted, Typed, TypeOK
<1>6. CASE ReadCredential(l, FALSE)
  <2>1. /\ LoginAt(l, "count")' /\ ~LoginAt(l, "lock")'
        /\ ~LoginAt(l, "count") /\ ~LoginAt(l, "lock")
        /\ \A m \in Logins : m # l => login'[m] = login[m]
    BY <1>5, <1>6, NoneIsNoRow DEF ReadCredential, LoginAt, Login, Typed, TypeOK
  <2>2. /\ Counting' = Counting \cup {l} /\ l \notin Counting
        /\ (Counting \cup Locking)' = (Counting \cup Locking) \cup {l}
        /\ l \notin Counting \cup Locking
    BY <2>1 DEF Counting, Locking, LoginAt
  <2>3. CC = C + 1 /\ BB = B + 1
    BY <2>2, PendingLogins, SetsOfLogins
  <2>4. ~cred.locked /\ guesses' = guesses + 1 /\ cred' = cred /\ lost' = lost
    BY <1>6 DEF ReadCredential, account
  <2> HIDE DEF C, B, CC, BB, L
  <2> QED
    BY <1>1, <1>2, <1>3, <2>3, <2>4
<1>7. CASE CountFailure(l)
  <2>1. /\ LoginAt(l, "count") /\ ~LoginAt(l, "lock") /\ ~LoginAt(l, "count")'
        /\ LoginAt(l, "lock")' <=> cred.failed + 1 >= MaxFailedAttempts
        /\ \A m \in Logins : m # l => login'[m] = login[m]
    <3>1. login[l] \in Login /\ login[l].pc = "count"
      BY <1>5, <1>7 DEF CountFailure, LoginAt
    <3> DEFINE locking == [login[l] EXCEPT !.pc = "lock"]
    <3>2. locking \in Login /\ locking.pc = "lock" /\ locking # None
      BY <3>1, NoneIsNoRow DEF Login
    <3>3. login' = [login EXCEPT ![l] = IF cred.failed + 1 >= MaxFailedAttempts
                                        THEN locking ELSE None]
      BY <1>7 DEF CountFailure
    <3> HIDE DEF locking
    <3> QED
      BY <1>5, <3>1, <3>2, <3>3, NoneIsNoRow DEF LoginAt
  <2>2. /\ Counting' = Counting \ {l} /\ l \in Counting
        /\ cred.failed + 1 >= MaxFailedAttempts =>
              (Counting \cup Locking)' = Counting \cup Locking
    BY <2>1 DEF Counting, Locking, LoginAt
  <2>3. CC = C - 1 /\ (cred.failed + 1 >= MaxFailedAttempts => BB = B)
    BY <2>2, PendingLogins, SetsOfLogins
  <2>4. /\ guesses' = guesses /\ lost' = lost
        /\ cred'.failed = cred.failed + 1 /\ cred'.locked = cred.locked
    BY <1>5, <1>7 DEF CountFailure, Credential, counts
  <2>5. guesses' <= cred'.failed + CC + lost'
    <3> HIDE DEF C, B, CC, BB, L
    <3> QED
      BY <1>1, <1>2, <1>3, <2>3, <2>4
  <2>6. ~cred'.locked => guesses' <= MaxFailedAttempts - 1 + BB + lost'
    <3> HIDE DEF C, B, CC, BB, L
    <3>1. CASE cred.failed + 1 >= MaxFailedAttempts
      <4>1. BB = B
        BY <2>3, <3>1
      <4>2. guesses' = guesses /\ lost' = lost
        BY <2>4
      <4>3. ~cred'.locked => ~cred.locked
        BY <2>4, Zenon
      <4> QED
        BY <1>3, <4>1, <4>2, <4>3
    <3>2. CASE ~(cred.failed + 1 >= MaxFailedAttempts)
      <4>1. cred'.failed <= MaxFailedAttempts - 1
        BY <1>2, <2>4, <3>2
      <4> QED
        BY <1>1, <1>2, <2>4, <2>5, <4>1
    <3> QED
      BY <3>1, <3>2
  <2> HIDE DEF C, B, CC, BB, L
  <2> QED
    BY <1>3, <2>4, <2>5, <2>6
<1>8. CASE SetLockout(l)
  <2>1. /\ LoginAt(l, "lock") /\ ~LoginAt(l, "count") /\ ~LoginAt(l, "count")'
        /\ \A m \in Logins : m # l => login'[m] = login[m]
    BY <1>5, <1>8 DEF SetLockout, LoginAt, Login
  <2>2. Counting' = Counting
    BY <2>1 DEF Counting, LoginAt
  <2>3. cred'.locked /\ cred'.failed = cred.failed /\ guesses' = guesses /\ lost' = lost
    BY <1>5, <1>8 DEF SetLockout, Credential, counts
  <2> QED
    BY <1>3, <2>2, <2>3
<1>9. CASE LoseFailure(l)
  <2>1. /\ LoginAt(l, "count") \/ LoginAt(l, "lock")
        /\ ~(LoginAt(l, "count") /\ LoginAt(l, "lock"))
        /\ ~LoginAt(l, "count")' /\ ~LoginAt(l, "lock")'
        /\ \A m \in Logins : m # l => login'[m] = login[m]
    BY <1>5, <1>9 DEF LoseFailure, LoginAt, Login
  <2>2. /\ Counting' = Counting \ {l}
        /\ (Counting \cup Locking)' = (Counting \cup Locking) \ {l}
        /\ l \in Counting \cup Locking
    BY <2>1 DEF Counting, Locking, LoginAt
  <2>3. BB = B - 1 /\ CC >= C - 1
    <3>1. BB = B - 1
      BY <2>2, PendingLogins, SetsOfLogins
    <3>2. CASE l \in Counting
      BY <1>1, <2>2, <3>1, <3>2, PendingLogins, SetsOfLogins
    <3>3. CASE l \notin Counting
      <4>1. Counting' = Counting
        BY <2>2, <3>3
      <4> QED
        BY <1>1, <3>1, <4>1
    <3> QED
      BY <3>1, <3>2, <3>3
  <2>4. guesses' = guesses /\ lost' = lost + 1 /\ cred' = cred
    BY <1>9 DEF LoseFailure, account
  <2> HIDE DEF C, B, CC, BB, L
  <2> QED
    BY <1>1, <1>2, <1>3, <2>3, <2>4
<1> QED
  BY <1>6, <1>7, <1>8, <1>9

LEMMA NextBudget == ASSUME Budgeted, [Next]_vars PROVE Budgeted'
<1>1. Typed'
  BY NextTypes DEF Budgeted
<1> DEFINE Quiet == /\ UNCHANGED <<cred, counts>>
                    /\ \A l \in Logins : \A pc \in {"count", "lock"} :
                          LoginAt(l, pc)' <=> LoginAt(l, pc)
<1>2. Quiet => Budgeted'
  BY <1>1, QuietBudget DEF Budgeted
<1>3. guesses' = 0 => Budgeted'
  BY <1>1, FreshBudget DEF Budgeted
<1>4. UNCHANGED <<login, cred, counts>> => Quiet
  BY DEF LoginAt
<1>5. ASSUME NEW l \in Logins, LoginStep(l) PROVE Budgeted'
  <2>1. CASE \/ ReadCredential(l, FALSE)
             \/ CountFailure(l) \/ SetLockout(l) \/ LoseFailure(l)
    BY <1>1, <2>1, FailureBudget DEF Budgeted
  <2>2. CASE ZeroFailures(l)
    BY <1>3, <2>2 DEF ZeroFailures
  <2>3. CASE \/ FindUser(l) \/ ReadCredential(l, TRUE) \/ SkipZero(l) \/ MFAGate(l)
             \/ AbandonLogin(l)
             \/ \E s \in Sessions : CreateSession(l, s)
    <3>1. UNCHANGED <<cred, counts>>
      <4>1. CASE ReadCredential(l, TRUE)
        BY <4>1 DEF ReadCredential, account, counts
      <4>2. CASE FindUser(l) \/ SkipZero(l) \/ MFAGate(l) \/ AbandonLogin(l)
        BY <4>2 DEF FindUser, SkipZero, MFAGate, AbandonLogin, account
      <4>3. ASSUME NEW s \in Sessions, CreateSession(l, s) PROVE UNCHANGED <<cred, counts>>
        BY <4>3 DEF CreateSession
      <4> QED
        BY <2>3, <4>1, <4>2, <4>3
    <3>2. /\ login \in [Logins -> Login \cup {None}]
          /\ \A m \in Logins : m # l => login'[m] = login[m]
      BY <2>3 DEF FindUser, ReadCredential, SkipZero, MFAGate, AbandonLogin, CreateSession,
         GoTo, Budgeted, Typed, TypeOK
    <3>3. \A pc \in {"count", "lock"} : ~LoginAt(l, pc)
      BY <2>3, <3>2 DEF FindUser, ReadCredential, SkipZero, MFAGate, AbandonLogin,
         CreateSession, LoginAt
    <3>4. \A pc \in {"count", "lock"} : ~LoginAt(l, pc)'
      <4>1. CASE FindUser(l)
        BY <3>2, <4>1 DEF FindUser, LoginAt
      <4>2. CASE ReadCredential(l, TRUE)
        BY <3>2, <4>2 DEF ReadCredential, LoginAt, Login
      <4>3. CASE SkipZero(l) \/ MFAGate(l)
        BY <3>2, <4>3 DEF SkipZero, MFAGate, GoTo, LoginAt, Login
      <4>4. CASE AbandonLogin(l)
        BY <3>2, <4>4 DEF AbandonLogin, LoginAt
      <4>5. ASSUME NEW s \in Sessions, CreateSession(l, s)
            PROVE  \A pc \in {"count", "lock"} : ~LoginAt(l, pc)'
        BY <3>2, <4>5 DEF CreateSession, LoginAt
      <4> QED
        BY <2>3, <4>1, <4>2, <4>3, <4>4, <4>5
    <3>5. Quiet
      BY <3>1, <3>2, <3>3, <3>4 DEF LoginAt
    <3> QED
      BY <1>2, <3>5
  <2> QED
    BY <1>5, <2>1, <2>2, <2>3 DEF LoginStep
<1>6. ASSUME NEW h \in Changes, OpenStep(h) PROVE Budgeted'
  <2>1. UNCHANGED <<login, cred, counts>>
    BY <1>6, OpenStepIsOpen DEF Open, account
  <2> QED
    BY <1>2, <1>4, <2>1
<1>7. ASSUME NEW h \in Changes, StatementStep(h) PROVE Budgeted'
  <2>1. CASE RunUpsert(h) \/ RunZero(h)
    BY <1>3, <2>1 DEF RunUpsert, RunZero
  <2>2. CASE RunRevoke(h)
    <3>1. UNCHANGED <<cred, counts>>
      BY <2>2 DEF RunRevoke
    <3>2. \A l \in Logins : \A pc \in {"count", "lock"} : LoginAt(l, pc)' <=> LoginAt(l, pc)
      BY <2>2, NoneIsNoRow DEF RunRevoke, LoginAt, Budgeted, Typed, TypeOK, Login
    <3> QED
      BY <1>2, <3>1, <3>2
  <2>3. CASE \/ RunDisable(h) \/ RunEnable(h) \/ RunMark(h) \/ RunPurge(h)
             \/ SkipStatement(h) \/ AbandonChange(h)
    <3>1. UNCHANGED <<login, cred, counts>>
      BY <2>3 DEF RunDisable, RunEnable, RunMark, RunPurge, SkipStatement, AbandonChange,
         account
    <3> QED
      BY <1>2, <1>4, <3>1
  <2> QED
    BY <1>7, <2>1, <2>2, <2>3 DEF StatementStep
<1>8. CASE OtherStep
  <2>1. CASE LockLapses
    BY <1>3, <2>1 DEF LockLapses
  <2>2. CASE ~LockLapses
    <3>1. UNCHANGED <<login, cred, counts>>
      BY <1>8, <2>2 DEF OtherStep, UpdateUser, RequestReset, ExpireLink, EndSession
    <3> QED
      BY <1>2, <1>4, <3>1
  <2> QED
    BY <2>1, <2>2
<1>9. CASE UNCHANGED vars
  BY <1>2, <1>4, <1>9 DEF vars, account
<1> QED
  BY <1>5, <1>6, <1>7, <1>8, <1>9 DEF Next

LEMMA AlwaysBudgeted == Spec => []Budgeted
<1>1. Init => Budgeted
  <2>1. ASSUME Init PROVE Budgeted
    <3>1. Typed /\ guesses = 0 /\ cred.failed \in Nat /\ lost \in Nat
      BY <2>1, InitTyped, BoundsAreNaturals DEF Init, Typed, TypeOK, Credential
    <3>2. /\ Cardinality(Counting) \in Nat /\ Cardinality(Counting \cup Locking) \in Nat
          /\ Cardinality(Logins) \in Nat
      BY PendingLogins, SetsOfLogins
    <3> QED
      BY <3>1, <3>2, BoundsAreNaturals DEF Budgeted, BudgetInv, GuessBudget
  <2> QED
    BY <2>1
<1> QED
  BY <1>1, NextBudget, PTL DEF Spec

-----------------------------------------------------------------------------
(* A reset link replaces one password, if handlers do not overlap.         *)

\* The list of a handler that begins; it has a link if it is a reset, and then
\* Verify has just found the link good.
LEMMA OpenLinks ==
    ASSUME NEW h \in Changes, OpenStep(h)
    PROVE  \E k \in Links \cup {None} : \E todo :
              /\ Open(h, todo, k)
              /\ \A i \in 2 .. Len(todo) : todo[i] # "upsert"
              /\ k # None => link[k] = "sent"
<1> DEFINE Fits(todo) == \A i \in 2 .. Len(todo) : todo[i] # "upsert"
<1>1. /\ Fits(ResetStatements) /\ Fits(AdminResetStatements) /\ Fits(LockStatements)
      /\ Fits(DeleteStatements) /\ Fits(UnlockStatements) /\ Fits(<<"revoke">>)
  BY DEF ResetStatements, AdminResetStatements, LockStatements, DeleteStatements,
     UnlockStatements
<1>2. ASSUME NEW k \in Links, Reset(h, k)
      PROVE  Open(h, ResetStatements, k) /\ link[k] = "sent"
  BY <1>2 DEF Reset
<1>3. CASE ~\E k \in Links : Reset(h, k)
  <2>1. \E todo \in {AdminResetStatements, LockStatements, UnlockStatements,
                     DeleteStatements, <<"revoke">>} : Open(h, todo, None)
    BY <1>3 DEF OpenStep, ResetUserPassword, LockUser, UnlockUser, DeleteUser,
       RevokeUserSessions
  <2> QED BY <1>1, <2>1
<1> QED BY <1>1, <1>2, <1>3

\* What a handler has left after a statement is the tail of its list.
LEMMA StatementLinks ==
    ASSUME Typed, LinksAreFresh, NEW h \in Changes, StatementStep(h), change'[h] # None
    PROVE  /\ \A i \in 1 .. Len(change'[h].todo) : change'[h].todo[i] # "upsert"
           /\ change'[h].todo # <<>>
<1>1. PICK version, revoked : AdvanceAt(h, version, revoked)
  BY DEF StatementStep, RunUpsert, RunDisable, RunEnable, RunZero, RunRevoke, RunMark, RunPurge,
     SkipStatement, AbandonChange, Advance, Typed, TypeOK
<1> DEFINE todo == change[h].todo
<1>2. change[h] # None
  BY DEF StatementStep, RunUpsert, RunDisable, RunEnable, RunZero, RunRevoke, RunMark, RunPurge,
     SkipStatement, AbandonChange, Runs
<1>3. /\ todo \in Seq(Statements) /\ todo # <<>>
      /\ \A i \in 2 .. Len(todo) : todo[i] # "upsert"
  BY <1>2 DEF Typed, TypeOK, Change, Progressing, LinksAreFresh
<1>4. change'[h].todo = Tail(todo) /\ Len(todo) # 1
  BY <1>1, <1>2 DEF AdvanceAt, Typed, TypeOK
<1> HIDE DEF todo
<1>5. /\ Len(todo) \in Nat \ {0} /\ Len(Tail(todo)) = Len(todo) - 1
      /\ \A i \in 1 .. Len(Tail(todo)) : Tail(todo)[i] = todo[i + 1]
  <2>1. Len(todo) \in Nat \ {0}
    BY <1>3, EmptySeq
  <2>2. /\ Len(Tail(todo)) = Len(todo) - 1
        /\ \A i \in 1 .. Len(Tail(todo)) : Tail(todo)[i] = todo[i + 1]
    BY <1>3, HeadTailProperties, Zenon
  <2> QED BY <2>1, <2>2
<1>6. Len(Tail(todo)) # 0
  BY <1>4, <1>5
<1>7. ASSUME NEW i \in 1 .. Len(Tail(todo)) PROVE Tail(todo)[i] # "upsert"
  <2>1. i + 1 \in 2 .. Len(todo)
    BY <1>5
  <2> QED BY <1>3, <1>5, <2>1
<1>8. Len(<<>>) = 0
  OBVIOUS
<1>9. Tail(todo) # <<>>
  BY <1>6, <1>8, Zenon
<1> QED BY <1>4, <1>7, <1>9

\* The other steps: a link in a handler's hands is sent or expires.
LEMMA OtherLinks ==
    ASSUME Typed, LinksAreFresh, UNCHANGED change,
           \A k \in Links : \/ link'[k] = link[k]
                            \/ link[k] = "unsent"
                            \/ link'[k] = "expired"
    PROVE  LinksAreFresh'
<1> SUFFICES ASSUME NEW h \in Changes, change'[h] # None, change'[h].link # None,
                    Runs(h, "upsert")'
             PROVE  (link[change[h].link] \in {"sent", "expired"})'
  BY DEF LinksAreFresh
<1>1. change[h].link \in Links /\ Runs(h, "upsert")
  BY DEF Runs, Typed, TypeOK, Change
<1> QED BY <1>1 DEF LinksAreFresh

LEMMA NextLinks ==
    ASSUME \A g, h \in Changes : g = h, Typed, LinksAreFresh, [Next]_vars
    PROVE  LinksAreFresh'
<1>1. ASSUME NEW h \in Changes, OpenStep(h) PROVE LinksAreFresh'
  <2>0. PICK k \in Links \cup {None} : \E todo :
              /\ Open(h, todo, k)
              /\ \A i \in 2 .. Len(todo) : todo[i] # "upsert"
              /\ k # None => link[k] = "sent"
    BY <1>1, OpenLinks
  <2>1. PICK todo :
              /\ Open(h, todo, k)
              /\ \A i \in 2 .. Len(todo) : todo[i] # "upsert"
              /\ k # None => link[k] = "sent"
    BY <2>0
  <2>2. change'[h].todo = todo /\ change'[h].link = k /\ link' = link
    BY <2>1 DEF Open, Typed, TypeOK, account
  <2> QED BY <2>1, <2>2 DEF LinksAreFresh
<1>2. ASSUME NEW h \in Changes, StatementStep(h) PROVE LinksAreFresh'
  <2> SUFFICES ASSUME change'[h] # None
               PROVE  /\ \A i \in 2 .. Len(change'[h].todo) : change'[h].todo[i] # "upsert"
                      /\ Head(change'[h].todo) # "upsert"
    BY DEF LinksAreFresh, Runs
  <2> DEFINE todo == change'[h].todo
  <2>1. todo # <<>> /\ \A i \in 1 .. Len(todo) : todo[i] # "upsert"
    BY <1>2, StatementLinks
  <2>2. todo \in Seq(Statements)
    BY NextTypes DEF Typed, TypeOK, Change
  <2> HIDE DEF todo
  <2>3. Len(todo) \in Nat \ {0} /\ Head(todo) = todo[1]
    BY <2>1, <2>2, EmptySeq
  <2> QED BY <2>1, <2>3 DEF todo
<1>3. CASE \E l \in Logins : LoginStep(l)
  <2>1. UNCHANGED <<change, link>>
    BY <1>3 DEF LoginStep, FindUser, ReadCredential, CountFailure, SetLockout, LoseFailure,
       ZeroFailures, SkipZero, MFAGate, CreateSession, AbandonLogin, account
  <2> QED BY <2>1, OtherLinks
<1>4. CASE OtherStep
  <2>1. UNCHANGED change
    BY <1>4 DEF OtherStep, UpdateUser, RequestReset, ExpireLink, EndSession, LockLapses
  <2>2. ASSUME NEW k \in Links
        PROVE  link'[k] = link[k] \/ link[k] = "unsent" \/ link'[k] = "expired"
    BY <1>4 DEF OtherStep, UpdateUser, RequestReset, ExpireLink, EndSession, LockLapses,
       Typed, TypeOK
  <2> QED BY <2>1, <2>2, OtherLinks
<1>5. CASE UNCHANGED vars
  BY <1>5, OtherLinks DEF vars, account
<1> QED BY <1>1, <1>2, <1>3, <1>4, <1>5 DEF Next

-----------------------------------------------------------------------------
(* The results.                                                            *)

\* Every row, login and handler keeps its shape, and no status outside the
\* table's CHECK constraint is stored.
THEOREM TypeCorrect == Spec => []TypeOK
BY AlwaysTyped, PTL DEF Typed

\* A completed password change leaves alive no session opened with an older
\* password, except by logins it overtook (Reset, resetUserPassword), for any
\* number of logins and changes at once.
THEOREM ChangesEndOldSessions == Spec => []ChangeEndsOldSessions
BY AlwaysFenced, PTL DEF Fenced, FenceInv

\* A lock or a deletion leaves no session alive, except by logins it overtook
\* (lockUser, deleteUser), until the account is enabled again.
THEOREM DisabledAccountsAreOut == Spec => []DisabledAccountsStayOut
BY AlwaysFenced, PTL DEF Fenced, FenceInv

\* The lock-out's bound on wrong passwords holds for every threshold and every
\* number of concurrent logins (Authenticate, recordFailure).
THEOREM GuessesAreBounded == Spec => []GuessBudget
BY AlwaysBudgeted, PTL DEF Budgeted, BudgetInv

\* As internal/store/README.md has it, a reset link is single-use: once it is marked
\* used or deleted it stays so, and no password is replaced with it again; as long
\* as the handlers that change the account do not overlap, whatever fails in them.
\* Two requests that overlap both read the link before either marks it (Reset).
THEOREM LinksUsedOneByOneWorkOnce ==
    ASSUME \A g, h \in Changes : g = h
    PROVE  Spec => [][\A k \in Links : link[k] \in {"used", "deleted"} =>
                        /\ link'[k] \in {"used", "deleted"}
                        /\ \A h \in Changes :
                              change[h] # None /\ change[h].link = k => ~RunUpsert(h)]_vars
<1> DEFINE Stays(k) ==
             /\ link'[k] \in {"used", "deleted"}
             /\ \A h \in Changes : change[h] # None /\ change[h].link = k => ~RunUpsert(h)
<1>1. Init => LinksAreFresh
  BY DEF Init, LinksAreFresh
<1>2. Typed /\ LinksAreFresh /\ [Next]_vars => LinksAreFresh'
  BY NextLinks
<1>3. ASSUME Typed, [Next]_vars, NEW k \in Links, link[k] \in {"used", "deleted"}
      PROVE  link'[k] \in {"used", "deleted"}
  <2>1. link'[k] = link[k] \/ link'[k] \in {"used", "deleted"}
    BY <1>3 DEF Next, vars, LoginStep, FindUser, ReadCredential, CountFailure, SetLockout,
       LoseFailure, ZeroFailures, SkipZero, MFAGate, CreateSession, AbandonLogin, OpenStep, Open,
       Reset, ResetUserPassword, LockUser, UnlockUser, DeleteUser, RevokeUserSessions,
       StatementStep, RunUpsert, RunDisable, RunEnable, RunZero, RunRevoke, RunMark, RunPurge,
       SkipStatement, AbandonChange, OtherStep, UpdateUser, RequestReset, ExpireLink,
       EndSession, LockLapses, account, Typed, TypeOK
  <2> QED BY <1>3, <2>1
<1>4. ASSUME LinksAreFresh, NEW k \in Links, link[k] \in {"used", "deleted"},
             NEW h \in Changes, change[h] # None, change[h].link = k
      PROVE  ~RunUpsert(h)
  BY <1>4, NoneIsNoRow DEF LinksAreFresh, RunUpsert
<1>5. Typed /\ LinksAreFresh /\ [Next]_vars =>
         [\A k \in Links : link[k] \in {"used", "deleted"} => Stays(k)]_vars
  BY <1>3, <1>4
<1> QED BY <1>1, <1>2, <1>5, AlwaysTyped, PTL DEF Spec
=============================================================================

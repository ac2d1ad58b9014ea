------------------------- MODULE SecondFactor_proofs --------------------------
(***************************************************************************)
(* Proofs about the second factors of a user, for any number of methods,   *)
(* codes, logins, challenges, answers and removals at the same time.       *)
(***************************************************************************)
EXTENDS SecondFactor, TLAPS

Inv == TypeOK /\ FactorInv

LEMMA FactorsAreFactors ==
    /\ \A m \in Methods : m \in Methods \cup Codes \cup {None} /\ m \notin Codes
    /\ \A c \in Codes : c \in Methods \cup Codes \cup {None}
    /\ None \notin Codes
    /\ \A n \in CodeSets : CodesOf(n) \subseteq Codes
BY FactorsDiffer DEF Methods, Codes, CodesOf

-----------------------------------------------------------------------------
(* Types.                                                                  *)

LEMMA LoginTypes ==
    ASSUME TypeOK, NEW l \in Logins, LoginStep(l) PROVE TypeOK'
<1> USE DEF TypeOK
<1>1. ASSUME NEW origin \in {"password", "federation"}, BeginLogin(l, origin) PROVE TypeOK'
  <2>1. [pc |-> "gate", origin |-> origin, guarded |-> Enrolled] \in Login
    BY DEF Login, Enrolled
  <2> QED
    BY <1>1, <2>1 DEF BeginLogin, Rows, Cookies
<1>2. ASSUME NEW c \in Challenges, IssueChallenge(l, c) PROVE TypeOK'
  BY <1>2 DEF IssueChallenge, Rows
<1>3. CASE PassGate(l)
  BY <1>3 DEF PassGate, Login, Rows, Cookies
<1>4. ASSUME NEW s \in Sessions, CreateSession(l, s) PROVE TypeOK'
  <2>1. [acr |-> "0", by |-> None, guarded |-> login[l].guarded] \in SessionRow
    BY <1>4 DEF CreateSession, Login, SessionRow
  <2> QED
    BY <1>4, <2>1 DEF CreateSession, Cookies
<1>5. CASE AbandonLogin(l)
  BY <1>5 DEF AbandonLogin, Rows, Cookies
<1> QED
  BY <1>1, <1>2, <1>3, <1>4, <1>5 DEF LoginStep

LEMMA PresentTypes ==
    ASSUME TypeOK, NEW a \in Attempts, NEW factor \in Methods \cup Codes,
           NEW pc \in {"mark", "session"}, AttemptAt(a, "verify") \/ AttemptAt(a, "mark"),
           Present(a, factor, pc)
    PROVE  attempt' \in [Attempts -> Attempt \cup {None}]
<1>1. [pc |-> pc, by |-> factor] \in Attempt
  BY DEF Attempt
<1> QED
  BY <1>1 DEF TypeOK, Present

LEMMA AttemptTypes ==
    ASSUME Inv, NEW a \in Attempts, AttemptStep(a) PROVE TypeOK'
<1> USE DEF Inv, TypeOK
<1>1. CASE ReadChallenge(a)
  <2>1. [pc |-> "verify", by |-> None] \in Attempt
    BY DEF Attempt
  <2> QED
    BY <1>1, <2>1 DEF ReadChallenge, Rows, Cookies
<1>2. ASSUME NEW m \in Methods, VerifyTOTP(a, m) \/ FinishWebAuthnLogin(a, m) PROVE TypeOK'
  <2>1. attempt' \in [Attempts -> Attempt \cup {None}]
    BY <1>2, PresentTypes DEF VerifyTOTP, FinishWebAuthnLogin
  <2> QED
    BY <1>2, <2>1 DEF VerifyTOTP, FinishWebAuthnLogin, Rows, Cookies
<1>3. ASSUME NEW c \in Codes, ListUnusedBackupCodes(a, c) PROVE TypeOK'
  <2>1. attempt' \in [Attempts -> Attempt \cup {None}]
    BY <1>3, PresentTypes DEF ListUnusedBackupCodes
  <2> QED
    BY <1>3, <2>1 DEF ListUnusedBackupCodes, Rows, Cookies
<1>4. CASE MarkBackupCodeUsed(a)
  <2>1. attempt[a].by \in Codes
    BY <1>4 DEF MarkBackupCodeUsed, FactorInv, MarkingCodes
  <2>2. attempt' \in [Attempts -> Attempt \cup {None}]
    BY <1>4, <2>1, PresentTypes DEF MarkBackupCodeUsed
  <2> QED
    BY <1>4, <2>1, <2>2 DEF MarkBackupCodeUsed, Cookies
<1>5. ASSUME NEW s \in Sessions, FinishChallenge(a, s) PROVE TypeOK'
  <2>1. [acr |-> "1", by |-> attempt[a].by, guarded |-> FALSE] \in SessionRow
    BY <1>5 DEF FinishChallenge, AttemptAt, Attempt, SessionRow
  <2> QED
    BY <1>5, <2>1 DEF FinishChallenge, Cookies
<1>6. CASE AbandonAttempt(a)
  BY <1>6 DEF AbandonAttempt, Rows, Cookies
<1> QED
  BY <1>1, <1>2, <1>3, <1>4, <1>5, <1>6 DEF AttemptStep, Methods

\* Removing a method changes the two variables it should.
LEMMA DeleteTypes ==
    ASSUME TypeOK, NEW m \in Methods, Delete(m)
    PROVE  /\ method' \in [Methods -> {"none", "pending", "confirmed", "deleted"}]
           /\ login' \in [Logins -> Login \cup {None}]
<1>1. \A l \in Logins : login[l] # None =>
         [login[l] EXCEPT !.guarded = @ /\ Confirmed \ {m} # {}] \in Login
  BY DEF TypeOK, Login
<1> QED
  BY <1>1 DEF Delete, TypeOK

LEMMA MethodTypes ==
    ASSUME TypeOK, MethodStep PROVE TypeOK'
<1> USE DEF TypeOK
<1>1. ASSUME NEW m \in Methods, NEW status \in {"pending", "confirmed"}, SetMethod(m, status)
      PROVE  TypeOK'
  BY <1>1 DEF SetMethod, Cookies
<1>2. ASSUME NEW m \in Methods, DeleteMFAMethod(m) PROVE TypeOK'
  BY <1>2, DeleteTypes DEF DeleteMFAMethod, Cookies
<1> QED
  BY <1>1, <1>2
  DEF MethodStep, BeginTOTPEnrollment, ConfirmTOTPEnrollment, FinishWebAuthnRegistration, Methods

LEMMA ChangeTypes ==
    ASSUME TypeOK, NEW g \in Changes, ChangeStep(g) PROVE TypeOK'
<1> USE DEF TypeOK
<1>1. ASSUME NEW fresh \in BOOLEAN, NEW todo \in SUBSET Methods, NEW listed \in SUBSET Methods,
             BeginChange(g, fresh, todo, listed)
      PROVE  TypeOK'
  <2>1. [pc |-> "methods", todo |-> todo, doomed |-> {}, fresh |-> fresh,
         listed |-> listed, whole |-> TRUE] \in Change
    BY DEF Change
  <2> QED
    BY <1>1, <2>1 DEF BeginChange, Rows, Cookies
<1>2. ASSUME NEW m \in Methods, DeleteListed(g, m) \/ SkipListed(g, m) PROVE TypeOK'
  <2>1. change' \in [Changes -> Change \cup {None}]
    BY <1>2 DEF DeleteListed, SkipListed, ChangeAt, Change
  <2>2. CASE DeleteListed(g, m)
    BY <2>1, <2>2, DeleteTypes DEF DeleteListed, Cookies
  <2>3. CASE SkipListed(g, m)
    BY <2>1, <2>3 DEF SkipListed, Rows, Cookies
  <2> QED
    BY <1>2, <2>2, <2>3
<1>3. CASE DeleteOldCodes(g)
  <2> DEFINE doomed == {c \in Codes : code[c] \in {"unused", "used"}}
  <2>1. [change[g] EXCEPT !.pc = "commit", !.doomed = doomed] \in Change
    BY <1>3 DEF DeleteOldCodes, ChangeAt, Change
  <2>2. change' = [change EXCEPT ![g] = [change[g] EXCEPT !.pc = "commit", !.doomed = doomed]]
    BY <1>3, <2>1 DEF DeleteOldCodes
  <2>3. UNCHANGED <<method, code, session, challenge, ceremonies, login, attempt, cleared>>
    BY <1>3 DEF DeleteOldCodes, Rows, Cookies
  <2> QED
    BY <2>1, <2>2, <2>3
<1>4. ASSUME NEW n \in CodeSets, CommitCodes(g, n) PROVE TypeOK'
  <2>1. cleared' \subseteq Methods
    BY <1>4 DEF CommitCodes, ChangeAt, Change
  <2>2. code' \in [Codes -> {"none", "unused", "used", "deleted"}]
    BY <1>4 DEF CommitCodes
  <2> QED
    BY <1>4, <2>1, <2>2 DEF CommitCodes, Cookies
<1>5. CASE AbandonChange(g)
  BY <1>5 DEF AbandonChange, Rows, Cookies
<1>6. CASE GenerateBackupCodes(g)
  <2>1. {} \in SUBSET Methods /\ BeginChange(g, TRUE, {}, {})
    BY <1>6 DEF GenerateBackupCodes
  <2> QED
    BY <1>1, <2>1
<1>7. CASE DeleteAllUserMFA(g)
  <2>1. Listed \in SUBSET Methods
    BY DEF Listed
  <2> QED
    BY <1>1, <1>7, <2>1 DEF DeleteAllUserMFA
<1> QED
  BY <1>2, <1>3, <1>4, <1>5, <1>6, <1>7 DEF ChangeStep

LEMMA NextTypes == ASSUME Inv, [Next]_vars PROVE TypeOK'
<1> USE DEF Inv
<1>1. CASE UNCHANGED vars
  BY <1>1 DEF vars, TypeOK
<1>2. ASSUME NEW c \in Challenges, ExpireChallenge(c) PROVE TypeOK'
  BY <1>2 DEF ExpireChallenge, TypeOK, Rows
<1>3. CASE BeginWebAuthnLogin
  <2>1. Confirmed \cap Keys \in SUBSET Keys
    OBVIOUS
  <2> QED
    BY <1>3, <2>1 DEF BeginWebAuthnLogin, TypeOK, Rows
<1> QED
  BY <1>1, <1>2, <1>3, LoginTypes, AttemptTypes, MethodTypes, ChangeTypes DEF Next

-----------------------------------------------------------------------------
(* Logins.  A guarded login is disturbed by the gate and by whatever takes *)
(* the last confirmed method away.                                         *)

LEMMA DeleteKeepsGuards ==
    ASSUME TypeOK, GuardsHold, NEW m \in Methods, Delete(m) PROVE GuardsHold'
<1>1. ASSUME NEW l \in Logins, login'[l] # None, login'[l].guarded
      PROVE  login'[l].pc = "gate" /\ Enrolled'
  <2>1. login[l] # None /\ login[l] \in Login
    BY <1>1 DEF Delete, TypeOK
  <2>2. login'[l] = [login[l] EXCEPT !.guarded = @ /\ Confirmed \ {m} # {}]
    BY <2>1 DEF Delete
  <2>3. login[l].guarded /\ Confirmed \ {m} # {} /\ login'[l].pc = login[l].pc
    BY <1>1, <2>1, <2>2 DEF Login
  <2>4. Confirmed \ {m} \subseteq Confirmed'
    BY DEF Confirmed, Delete, TypeOK
  <2> QED
    BY <2>1, <2>3, <2>4 DEF GuardsHold, Enrolled
<1> QED
  BY <1>1 DEF GuardsHold

LEMMA LoginsKeepGuards ==
    ASSUME Inv, NEW l \in Logins, LoginStep(l)
    PROVE  GuardsHold' /\ GuardedLoginsAreChallenged'
<1> USE DEF Inv, FactorInv
<1>1. CASE PassGate(l)
  <2>1. login[l] \in Login /\ ~login[l].guarded
    BY <1>1 DEF PassGate, Challenged, Required, EnrollmentRequired, GuardsHold, TypeOK
  <2>2. \A k \in Logins : login'[k] # None /\ login'[k].guarded => login'[k] = login[k]
    BY <1>1, <2>1 DEF PassGate, TypeOK, Login
  <2> QED
    BY <1>1, <2>2 DEF PassGate, GuardsHold, GuardedLoginsAreChallenged, Rows, Enrolled, Confirmed
<1>2. ASSUME NEW s \in Sessions, CreateSession(l, s)
      PROVE  GuardsHold' /\ GuardedLoginsAreChallenged'
  <2>1. ~login[l].guarded
    BY <1>2 DEF CreateSession, GuardsHold
  <2>2. \A r \in Sessions : session'[r] = session[r] \/ ~session'[r].guarded
    BY <1>2, <2>1 DEF CreateSession, TypeOK
  <2>3. \A k \in Logins : login'[k] # None => login'[k] = login[k]
    BY <1>2 DEF CreateSession, TypeOK
  <2> QED
    BY <1>2, <2>2, <2>3
    DEF CreateSession, GuardsHold, GuardedLoginsAreChallenged, Enrolled, Confirmed
<1>3. ASSUME NEW origin \in {"password", "federation"}, BeginLogin(l, origin)
      PROVE  GuardsHold' /\ GuardedLoginsAreChallenged'
  BY <1>3 DEF BeginLogin, GuardsHold, GuardedLoginsAreChallenged, Rows, Enrolled, Confirmed, TypeOK
<1>4. ASSUME NEW c \in Challenges, IssueChallenge(l, c)
      PROVE  GuardsHold' /\ GuardedLoginsAreChallenged'
  BY <1>4 DEF IssueChallenge, GuardsHold, GuardedLoginsAreChallenged, Rows, Enrolled, Confirmed,
              TypeOK
<1>5. CASE AbandonLogin(l)
  BY <1>5 DEF AbandonLogin, GuardsHold, GuardedLoginsAreChallenged, Rows, Enrolled, Confirmed, TypeOK
<1> QED
  BY <1>1, <1>2, <1>3, <1>4, <1>5 DEF LoginStep

LEMMA OthersKeepGuards ==
    ASSUME Inv, Next, \A l \in Logins : ~LoginStep(l)
    PROVE  GuardsHold' /\ GuardedLoginsAreChallenged'
<1> USE DEF Inv, FactorInv
<1>1. ASSUME NEW m \in Methods, Delete(m), UNCHANGED session
      PROVE  GuardsHold' /\ GuardedLoginsAreChallenged'
  BY <1>1, DeleteKeepsGuards DEF GuardedLoginsAreChallenged
<1>2. ASSUME NEW m \in Methods, NEW status, SetMethod(m, status),
             method[m] \in {"none", "pending"}
      PROVE  GuardsHold' /\ GuardedLoginsAreChallenged'
  <2>1. Enrolled => Enrolled'
    BY <1>2 DEF SetMethod, Enrolled, Confirmed, TypeOK
  <2> QED
    BY <1>2, <2>1 DEF SetMethod, GuardsHold, GuardedLoginsAreChallenged
<1>3. ASSUME UNCHANGED <<method, login>>,
             \A s \in Sessions : session'[s] = session[s] \/ session'[s].acr = "1"
      PROVE  GuardsHold' /\ GuardedLoginsAreChallenged'
  BY <1>3 DEF GuardsHold, GuardedLoginsAreChallenged, Enrolled, Confirmed
<1>4. CASE MethodStep
  BY <1>1, <1>2, <1>4
  DEF MethodStep, DeleteMFAMethod, BeginTOTPEnrollment, ConfirmTOTPEnrollment,
      FinishWebAuthnRegistration, Methods
<1>5. ASSUME NEW g \in Changes, ChangeStep(g) PROVE GuardsHold' /\ GuardedLoginsAreChallenged'
  <2>1. ASSUME NEW m \in Methods, DeleteListed(g, m)
        PROVE  GuardsHold' /\ GuardedLoginsAreChallenged'
    BY <1>1, <2>1 DEF DeleteListed
  <2>2. CASE \/ GenerateBackupCodes(g) \/ DeleteAllUserMFA(g) \/ DeleteOldCodes(g)
             \/ AbandonChange(g) \/ \E m \in Methods : SkipListed(g, m)
             \/ \E n \in CodeSets : CommitCodes(g, n)
    <3>1. UNCHANGED <<method, login, session>>
      BY <2>2 DEF GenerateBackupCodes, DeleteAllUserMFA, BeginChange, DeleteOldCodes,
                  AbandonChange, SkipListed, CommitCodes, Rows
    <3> QED
      BY <1>3, <3>1
  <2> QED
    BY <1>5, <2>1, <2>2 DEF ChangeStep
<1>6. ASSUME NEW a \in Attempts, AttemptStep(a) PROVE GuardsHold' /\ GuardedLoginsAreChallenged'
  <2>1. UNCHANGED <<method, login>>
    BY <1>6 DEF AttemptStep, ReadChallenge, VerifyTOTP, FinishWebAuthnLogin, ListUnusedBackupCodes,
                MarkBackupCodeUsed, FinishChallenge, AbandonAttempt, Rows
  <2>2. UNCHANGED session \/ \E s \in Sessions : FinishChallenge(a, s)
    BY <1>6 DEF AttemptStep, ReadChallenge, VerifyTOTP, FinishWebAuthnLogin, ListUnusedBackupCodes,
                MarkBackupCodeUsed, AbandonAttempt, Rows
  <2>3. \A s \in Sessions : session'[s] = session[s] \/ session'[s].acr = "1"
    BY <2>2 DEF FinishChallenge, TypeOK
  <2> QED
    BY <1>3, <2>1, <2>3
<1>7. CASE BeginWebAuthnLogin \/ \E c \in Challenges : ExpireChallenge(c)
  BY <1>3, <1>7 DEF BeginWebAuthnLogin, ExpireChallenge, Rows
<1> QED
  BY <1>4, <1>5, <1>6, <1>7 DEF Next

-----------------------------------------------------------------------------
(* Removals.  Nothing brings a deleted method back.                        *)

LEMMA DeletedStaysDeleted ==
    ASSUME TypeOK, [Next]_vars, NEW m \in Methods, method[m] = "deleted"
    PROVE  method'[m] = "deleted"
<1>1. ASSUME NEW d \in Methods, Delete(d) PROVE method'[m] = "deleted"
  BY <1>1 DEF Delete, TypeOK
<1>2. ASSUME NEW d \in Methods, NEW status, SetMethod(d, status), d # m
      PROVE  method'[m] = "deleted"
  BY <1>2 DEF SetMethod, TypeOK
<1>3. CASE MethodStep
  BY <1>1, <1>2, <1>3
  DEF MethodStep, DeleteMFAMethod, BeginTOTPEnrollment, ConfirmTOTPEnrollment,
      FinishWebAuthnRegistration, Methods
<1>4. ASSUME NEW g \in Changes, ChangeStep(g) PROVE method'[m] = "deleted"
  <2>1. UNCHANGED method \/ \E d \in Methods : Delete(d)
    BY <1>4 DEF ChangeStep, GenerateBackupCodes, DeleteAllUserMFA, BeginChange, DeleteOldCodes,
                AbandonChange, DeleteListed, SkipListed, CommitCodes, Rows
  <2> QED
    BY <1>1, <2>1
<1>5. ASSUME NEW a \in Attempts, AttemptStep(a) PROVE UNCHANGED method
  BY <1>5 DEF AttemptStep, ReadChallenge, VerifyTOTP, FinishWebAuthnLogin, ListUnusedBackupCodes,
              MarkBackupCodeUsed, FinishChallenge, AbandonAttempt, Rows
<1>6. ASSUME NEW l \in Logins, LoginStep(l) PROVE UNCHANGED method
  BY <1>6 DEF LoginStep, BeginLogin, IssueChallenge, PassGate, CreateSession, AbandonLogin, Rows
<1>7. CASE BeginWebAuthnLogin \/ (\E c \in Challenges : ExpireChallenge(c)) \/ UNCHANGED vars
  BY <1>7 DEF BeginWebAuthnLogin, ExpireChallenge, Rows, vars
<1> QED
  BY <1>3, <1>4, <1>5, <1>6, <1>7 DEF Next

LEMMA ChangeKeepsRemovals ==
    ASSUME Inv, TypeOK', NEW g \in Changes, ChangeStep(g) PROVE RemovalsSucceed'
<1> USE DEF Inv, FactorInv, RemovalsSucceed
<1>1. \A m \in Methods : method[m] = "deleted" => method'[m] = "deleted"
  BY DeletedStaysDeleted DEF Next
<1>2. \A h \in Changes : change[h] # None => change[h] \in Change
  BY DEF TypeOK
<1>3. \A h \in Changes \ {g} : change'[h] = change[h]
  <2>1. \E x : change' = [change EXCEPT ![g] = x]
    <3>1. CASE GenerateBackupCodes(g) \/ DeleteAllUserMFA(g)
      BY <3>1 DEF GenerateBackupCodes, DeleteAllUserMFA, BeginChange
    <3>2. CASE DeleteOldCodes(g)
      BY <3>2 DEF DeleteOldCodes
    <3>3. CASE AbandonChange(g) \/ \E n \in CodeSets : CommitCodes(g, n)
      BY <3>3 DEF AbandonChange, CommitCodes
    <3>4. CASE \E d \in Methods : DeleteListed(g, d) \/ SkipListed(g, d)
      BY <3>4 DEF DeleteListed, SkipListed
    <3> QED
      BY <3>1, <3>2, <3>3, <3>4 DEF ChangeStep
  <2> QED
    BY <2>1 DEF TypeOK
<1>4. ASSUME change'[g] # None
      PROVE  /\ change'[g].pc = "commit" => change'[g].todo = {}
             /\ change'[g].whole =>
                   \A m \in change'[g].listed \ change'[g].todo : method'[m] = "deleted"
  <2>1. ASSUME NEW fresh, NEW todo, BeginChange(g, fresh, todo, todo)
        PROVE  change'[g].pc = "methods" /\ change'[g].listed = change'[g].todo
    BY <2>1 DEF BeginChange, TypeOK
  <2>2. CASE GenerateBackupCodes(g) \/ DeleteAllUserMFA(g)
    BY <2>1, <2>2 DEF GenerateBackupCodes, DeleteAllUserMFA
  <2>3. ASSUME NEW d \in Methods, DeleteListed(g, d)
        PROVE  /\ change'[g] = [change[g] EXCEPT !.todo = @ \ {d}]
               /\ change[g] # None /\ change[g].pc = "methods" /\ method'[d] = "deleted"
    BY <2>3 DEF DeleteListed, Delete, ChangeAt, TypeOK
  <2>4. CASE \E d \in Methods : DeleteListed(g, d)
    <3>1. PICK d \in Methods : DeleteListed(g, d)
      BY <2>4
    <3>2. /\ change[g] \in Change /\ change'[g].pc = "methods" /\ change'[g].whole = change[g].whole
          /\ change'[g].listed = change[g].listed /\ change'[g].todo = change[g].todo \ {d}
      <4>1. change[g] \in Change
        BY <1>2, <2>3, <3>1
      <4> QED
        BY <2>3, <3>1, <4>1 DEF Change
    <3>3. change[g] # None /\ method'[d] = "deleted"
      BY <2>3, <3>1
    <3>4. \A m \in change[g].listed : m \in Methods
      BY <3>2 DEF Change
    <3> QED
      BY <1>1, <3>2, <3>3, <3>4
  <2>5. CASE \E d \in Methods : SkipListed(g, d)
    BY <1>2, <2>5 DEF SkipListed, ChangeAt, TypeOK, Change
  <2>6. CASE DeleteOldCodes(g)
    <3>1. /\ change[g] # None /\ change[g] \in Change /\ change[g].todo = {}
          /\ change'[g].todo = {} /\ change'[g].whole = change[g].whole
          /\ change'[g].listed = change[g].listed /\ UNCHANGED method
      <4> DEFINE doomed == {c \in Codes : code[c] \in {"unused", "used"}}
      <4>1. /\ change[g] # None /\ change[g] \in Change /\ change[g].todo = {} /\ UNCHANGED method
            /\ change' = [change EXCEPT ![g].pc = "commit", ![g].doomed = doomed]
        BY <1>2, <2>6 DEF DeleteOldCodes, ChangeAt, Rows
      <4>2. change'[g] = [change[g] EXCEPT !.pc = "commit", !.doomed = doomed]
        BY <4>1 DEF TypeOK
      <4>3. /\ change'[g].todo = change[g].todo /\ change'[g].whole = change[g].whole
            /\ change'[g].listed = change[g].listed
        <5> HIDE DEF doomed
        <5>1. change[g] \in Change
          BY <4>1
        <5> QED
          BY <4>2, <5>1 DEF Change
      <4> QED
        BY <4>1, <4>3
    <3> QED
      BY <3>1
  <2>7. CASE AbandonChange(g) \/ \E n \in CodeSets : CommitCodes(g, n)
    BY <1>4, <2>7 DEF AbandonChange, CommitCodes, TypeOK
  <2> QED
    BY <2>2, <2>4, <2>5, <2>6, <2>7 DEF ChangeStep
<1>5. \A m \in cleared' : method'[m] = "deleted"
  <2>1. CASE UNCHANGED cleared
    BY <1>1, <2>1 DEF TypeOK
  <2>2. CASE \E n \in CodeSets : CommitCodes(g, n)
    <3>1. /\ change[g] # None /\ change[g].pc = "commit" /\ change[g] \in Change
          /\ cleared' \in {cleared, cleared \cup change[g].listed}
          /\ cleared' # cleared => change[g].whole
          /\ UNCHANGED method
      BY <1>2, <2>2 DEF CommitCodes, ChangeAt
    <3> QED
      BY <3>1
  <2> QED
    BY <2>1, <2>2
    DEF ChangeStep, GenerateBackupCodes, DeleteAllUserMFA, BeginChange, DeleteOldCodes,
        AbandonChange, DeleteListed, SkipListed
<1>6. ASSUME NEW h \in Changes, h # g, change'[h] # None
      PROVE  /\ change'[h].pc = "commit" => change'[h].todo = {}
             /\ change'[h].whole =>
                   \A m \in change'[h].listed \ change'[h].todo : method'[m] = "deleted"
  BY <1>1, <1>2, <1>3, <1>6 DEF Change
<1> QED
  BY <1>4, <1>5, <1>6

LEMMA OthersKeepRemovals ==
    ASSUME Inv, [Next]_vars, \A g \in Changes : ~ChangeStep(g) PROVE RemovalsSucceed'
<1>1. UNCHANGED <<change, cleared>>
  <2>1. CASE UNCHANGED vars \/ BeginWebAuthnLogin \/ MethodStep \/ \E c \in Challenges : ExpireChallenge(c)
    BY <2>1 DEF vars, BeginWebAuthnLogin, ExpireChallenge, MethodStep, DeleteMFAMethod, SetMethod,
                BeginTOTPEnrollment, ConfirmTOTPEnrollment, FinishWebAuthnRegistration
  <2>2. ASSUME NEW l \in Logins, LoginStep(l) PROVE UNCHANGED <<change, cleared>>
    BY <2>2 DEF LoginStep, BeginLogin, IssueChallenge, PassGate, CreateSession, AbandonLogin
  <2>3. ASSUME NEW a \in Attempts, AttemptStep(a) PROVE UNCHANGED <<change, cleared>>
    BY <2>3 DEF AttemptStep, ReadChallenge, VerifyTOTP, FinishWebAuthnLogin, ListUnusedBackupCodes,
                MarkBackupCodeUsed, FinishChallenge, AbandonAttempt
  <2> QED
    BY <2>1, <2>2, <2>3 DEF Next
<1>2. \A m \in Methods : method[m] = "deleted" => method'[m] = "deleted"
  BY DeletedStaysDeleted DEF Inv
<1>3. \A g \in Changes : change[g] # None => change[g].listed \subseteq Methods
  BY DEF Inv, TypeOK, Change
<1> QED
  BY <1>1, <1>2, <1>3 DEF Inv, FactorInv, TypeOK, RemovalsSucceed

-----------------------------------------------------------------------------
(* Backup codes.                                                           *)

Spent(c) == code[c] \in {"used", "deleted"}

\* A spent code stays spent, and nothing gets hold of a code.
NoNewHolder ==
    \A c \in Codes :
        /\ Spent(c) => Spent(c)'
        /\ \A a \in Attempts : Holds(a, c)' => Holds(a, c)
        /\ \A s \in Sessions : OpenedBy(s, c)' => OpenedBy(s, c)

LEMMA NoNewHolderKeeps == ASSUME CodesHaveOneHolder, NoNewHolder PROVE CodesHaveOneHolder'
BY DEF CodesHaveOneHolder, NoNewHolder, Spent

LEMMA MarkKeepsCodes ==
    ASSUME Inv, NEW a \in Attempts, MarkBackupCodeUsed(a)
    PROVE  CodesHaveOneHolder' /\ MarkingCodes'
<1> USE DEF Inv, FactorInv
<1>1. PICK c \in Codes : attempt[a].by = c
  BY DEF MarkBackupCodeUsed, MarkingCodes
<1>2. \A b \in Attempts \ {a} : attempt'[b] = attempt[b]
  BY DEF MarkBackupCodeUsed, Present, TypeOK
<1>3. UNCHANGED session
  BY DEF MarkBackupCodeUsed
<1>4. CASE code[c] = "unused"
  <2>1. attempt'[a] = [pc |-> "session", by |-> c] /\ code' = [code EXCEPT ![c] = "used"]
    BY <1>1, <1>4 DEF MarkBackupCodeUsed, Present, TypeOK
  <2>2. \A b \in Attempts : ~Holds(b, c)
    BY <1>4 DEF CodesHaveOneHolder
  <2>3. \A s \in Sessions : ~OpenedBy(s, c)
    BY <1>4 DEF CodesHaveOneHolder
  <2>4. \A b \in Attempts, d \in Codes : Holds(b, d)' <=> (b = a /\ d = c) \/ (b # a /\ Holds(b, d))
    BY <1>2, <2>1, NoneIsNoRow DEF Holds, AttemptAt, Attempt
  <2>5. \A s \in Sessions, d \in Codes : OpenedBy(s, d)' <=> OpenedBy(s, d)
    BY <1>3 DEF OpenedBy
  <2>6. \A d \in Codes : code'[d] = IF d = c THEN "used" ELSE code[d]
    BY <2>1 DEF TypeOK
  <2>7. CodesHaveOneHolder'
    BY <2>2, <2>3, <2>4, <2>5, <2>6 DEF CodesHaveOneHolder
  <2> QED
    BY <1>2, <2>1, <2>7 DEF MarkingCodes, AttemptAt
<1>5. CASE code[c] # "unused"
  <2>1. attempt'[a] = None /\ UNCHANGED code
    BY <1>1, <1>5 DEF MarkBackupCodeUsed, TypeOK
  <2>2. NoNewHolder
    BY <1>2, <1>3, <2>1 DEF NoNewHolder, Holds, AttemptAt, OpenedBy, Spent
  <2> QED
    BY <1>2, <2>1, <2>2, NoNewHolderKeeps DEF MarkingCodes, AttemptAt
<1> QED
  BY <1>4, <1>5

LEMMA FinishKeepsCodes ==
    ASSUME Inv, NEW a \in Attempts, NEW s \in Sessions, FinishChallenge(a, s)
    PROVE  CodesHaveOneHolder' /\ MarkingCodes'
<1> USE DEF Inv, FactorInv
<1>1. \A b \in Attempts : attempt'[b] = IF b = a THEN None ELSE attempt[b]
  BY DEF FinishChallenge, TypeOK
<1>2. \A r \in Sessions : r # s => session'[r] = session[r]
  BY DEF FinishChallenge, TypeOK
<1>3. session'[s].by = attempt[a].by /\ UNCHANGED code /\ session[s] = None
  BY DEF FinishChallenge, TypeOK
<1>4. \A b \in Attempts, c \in Codes : Holds(b, c)' <=> b # a /\ Holds(b, c)
  BY <1>1 DEF Holds, AttemptAt
<1>5. \A r \in Sessions, c \in Codes : OpenedBy(r, c)' => (r # s /\ OpenedBy(r, c)) \/ (r = s /\ Holds(a, c))
  BY <1>2, <1>3 DEF OpenedBy, Holds, FinishChallenge
<1>6. CodesHaveOneHolder'
  BY <1>3, <1>4, <1>5 DEF CodesHaveOneHolder
<1> QED
  BY <1>1, <1>6 DEF MarkingCodes, AttemptAt

LEMMA AttemptKeepsCodes ==
    ASSUME Inv, NEW a \in Attempts, AttemptStep(a)
    PROVE  CodesHaveOneHolder' /\ MarkingCodes'
<1> USE DEF Inv, FactorInv
<1>1. ASSUME UNCHANGED <<code, session>>, \A b \in Attempts \ {a} : attempt'[b] = attempt[b],
             \/ attempt'[a] = None
             \/ attempt'[a].pc = "verify"
             \/ attempt'[a].pc = "mark" /\ attempt'[a].by \in Codes
             \/ attempt'[a].pc = "session" /\ attempt'[a].by \in Methods
      PROVE  CodesHaveOneHolder' /\ MarkingCodes'
  <2>1. NoNewHolder
    BY <1>1, FactorsAreFactors DEF NoNewHolder, Holds, AttemptAt, OpenedBy, Spent
  <2> QED
    BY <1>1, <2>1, NoNewHolderKeeps DEF MarkingCodes, AttemptAt
<1>2. ASSUME NEW m \in Methods, VerifyTOTP(a, m) \/ FinishWebAuthnLogin(a, m)
      PROVE  CodesHaveOneHolder' /\ MarkingCodes'
  BY <1>1, <1>2 DEF VerifyTOTP, FinishWebAuthnLogin, Present, Rows, TypeOK
<1>3. ASSUME NEW c \in Codes, ListUnusedBackupCodes(a, c)
      PROVE  CodesHaveOneHolder' /\ MarkingCodes'
  BY <1>1, <1>3 DEF ListUnusedBackupCodes, Present, Rows, TypeOK
<1>4. CASE ReadChallenge(a) \/ AbandonAttempt(a)
  BY <1>1, <1>4 DEF ReadChallenge, AbandonAttempt, Rows, TypeOK
<1> QED
  BY <1>2, <1>3, <1>4, MarkKeepsCodes, FinishKeepsCodes DEF AttemptStep, Methods

\* A session stays as it is, or is opened without a factor.
Untouched(s) == session'[s] = session[s] \/ (session[s] = None /\ session'[s].by = None)

\* What the steps of logins, changes and methods can do to codes.
LEMMA OtherSteps ==
    ASSUME Inv, [Next]_vars, \A a \in Attempts : ~AttemptStep(a)
    PROVE  /\ UNCHANGED attempt
           /\ UNCHANGED code \/ \E g \in Changes, n \in CodeSets : CommitCodes(g, n)
           /\ \A s \in Sessions : Untouched(s)
<1> USE DEF Inv, FactorInv, Untouched
<1>1. UNCHANGED attempt
  <2>1. CASE UNCHANGED vars \/ BeginWebAuthnLogin \/ MethodStep \/ \E c \in Challenges : ExpireChallenge(c)
    BY <2>1 DEF vars, BeginWebAuthnLogin, ExpireChallenge, MethodStep, DeleteMFAMethod, SetMethod,
                BeginTOTPEnrollment, ConfirmTOTPEnrollment, FinishWebAuthnRegistration
  <2>2. ASSUME NEW l \in Logins, LoginStep(l) PROVE UNCHANGED attempt
    BY <2>2 DEF LoginStep, BeginLogin, IssueChallenge, PassGate, CreateSession, AbandonLogin
  <2>3. ASSUME NEW g \in Changes, ChangeStep(g) PROVE UNCHANGED attempt
    BY <2>3 DEF ChangeStep, GenerateBackupCodes, DeleteAllUserMFA, BeginChange, DeleteOldCodes,
                AbandonChange, DeleteListed, SkipListed, CommitCodes
  <2> QED
    BY <2>1, <2>2, <2>3 DEF Next
<1>2. UNCHANGED code \/ \E g \in Changes, n \in CodeSets : CommitCodes(g, n)
  <2>1. CASE UNCHANGED vars \/ BeginWebAuthnLogin \/ MethodStep \/ \E c \in Challenges : ExpireChallenge(c)
    BY <2>1 DEF vars, BeginWebAuthnLogin, ExpireChallenge, MethodStep, DeleteMFAMethod, SetMethod,
                BeginTOTPEnrollment, ConfirmTOTPEnrollment, FinishWebAuthnRegistration, Rows
  <2>2. ASSUME NEW l \in Logins, LoginStep(l) PROVE UNCHANGED code
    BY <2>2 DEF LoginStep, BeginLogin, IssueChallenge, PassGate, CreateSession, AbandonLogin, Rows
  <2>3. ASSUME NEW g \in Changes, ChangeStep(g)
        PROVE  UNCHANGED code \/ \E n \in CodeSets : CommitCodes(g, n)
    BY <2>3 DEF ChangeStep, GenerateBackupCodes, DeleteAllUserMFA, BeginChange, DeleteOldCodes,
                AbandonChange, DeleteListed, SkipListed, Rows
  <2> QED
    BY <2>1, <2>2, <2>3 DEF Next
<1>3. \A s \in Sessions : Untouched(s)
  <2>1. CASE UNCHANGED vars \/ BeginWebAuthnLogin \/ MethodStep \/ \E c \in Challenges : ExpireChallenge(c)
    BY <2>1 DEF vars, BeginWebAuthnLogin, ExpireChallenge, MethodStep, DeleteMFAMethod, SetMethod,
                BeginTOTPEnrollment, ConfirmTOTPEnrollment, FinishWebAuthnRegistration, Rows
  <2>2. ASSUME NEW l \in Logins, LoginStep(l)
        PROVE  \A s \in Sessions : Untouched(s)
    <3>1. ASSUME NEW t \in Sessions, CreateSession(l, t)
          PROVE  \A s \in Sessions : Untouched(s)
      BY <3>1 DEF CreateSession, TypeOK
    <3>2. UNCHANGED session \/ \E t \in Sessions : CreateSession(l, t)
      BY <2>2 DEF LoginStep, BeginLogin, IssueChallenge, PassGate, AbandonLogin, Rows
    <3> QED
      BY <3>1, <3>2
  <2>3. ASSUME NEW g \in Changes, ChangeStep(g) PROVE UNCHANGED session
    BY <2>3 DEF ChangeStep, GenerateBackupCodes, DeleteAllUserMFA, BeginChange, DeleteOldCodes,
                AbandonChange, DeleteListed, SkipListed, CommitCodes, Rows
  <2> QED
    BY <2>1, <2>2, <2>3 DEF Next
<1> QED
  BY <1>1, <1>2, <1>3

LEMMA OthersKeepCodes ==
    ASSUME Inv, [Next]_vars, \A a \in Attempts : ~AttemptStep(a)
    PROVE  CodesHaveOneHolder' /\ MarkingCodes'
<1> USE DEF Inv, FactorInv
<1>1. UNCHANGED attempt
  BY OtherSteps
<1>2. UNCHANGED code \/ \E g \in Changes, n \in CodeSets : CommitCodes(g, n)
  BY OtherSteps
<1>3. \A s \in Sessions : session'[s] = session[s] \/ session'[s].by = None
  BY OtherSteps DEF Untouched
<1>4. \A c \in Codes : Spent(c) => Spent(c)'
  <2>1. ASSUME NEW g \in Changes, NEW n \in CodeSets, CommitCodes(g, n), NEW c \in Codes, Spent(c)
        PROVE  Spent(c)'
    BY <2>1 DEF CommitCodes, Spent
  <2> QED
    BY <1>2, <2>1 DEF Spent
<1>5. NoNewHolder
  BY <1>1, <1>3, <1>4, FactorsAreFactors DEF NoNewHolder, Holds, AttemptAt, OpenedBy
<1> QED
  BY <1>1, <1>5, NoNewHolderKeeps DEF MarkingCodes, AttemptAt

-----------------------------------------------------------------------------
LEMMA InvariantHolds == Spec => []Inv
<1>1. Init => Inv
  BY DEF Init, Inv, TypeOK, FactorInv, CodesHaveOneHolder, MarkingCodes, GuardsHold,
         GuardedLoginsAreChallenged, RemovalsSucceed, Holds, OpenedBy, AttemptAt
<1>2. Inv /\ [Next]_vars => Inv'
  <2> SUFFICES ASSUME Inv, [Next]_vars PROVE Inv'
    OBVIOUS
  <2>1. TypeOK'
    BY NextTypes
  <2>2. CodesHaveOneHolder' /\ MarkingCodes'
    BY AttemptKeepsCodes, OthersKeepCodes
  <2>3. GuardsHold' /\ GuardedLoginsAreChallenged'
    <3>1. CASE UNCHANGED vars
      BY <3>1 DEF vars, Inv, FactorInv, GuardsHold, GuardedLoginsAreChallenged, Enrolled, Confirmed
    <3> QED
      BY <3>1, LoginsKeepGuards, OthersKeepGuards
  <2>4. RemovalsSucceed'
    BY <2>1, ChangeKeepsRemovals, OthersKeepRemovals
  <2> QED
    BY <2>1, <2>2, <2>3, <2>4 DEF Inv, FactorInv
<1> QED
  BY <1>1, <1>2, PTL DEF Spec

-----------------------------------------------------------------------------
\* Every reachable row, cookie and request is well typed.
THEOREM TypeCorrect == Spec => []TypeOK
<1>1. Inv => TypeOK
  BY DEF Inv
<1> QED
  BY <1>1, InvariantHolds, PTL

\* However many requests present a backup code, and whatever replaces the set
\* meanwhile, the code opens one session.
THEOREM BackupCodesAreSpentOnce == Spec => []BackupCodesWorkOnce
<1>1. Inv => BackupCodesWorkOnce
  BY DEF Inv, FactorInv, CodesHaveOneHolder, OpenedBy, BackupCodesWorkOnce
<1> QED
  BY <1>1, InvariantHolds, PTL

\* The gate cannot be slipped past by replacing one factor with another while
\* a login is on its way.
THEOREM FactorsGuardLogins == Spec => []GuardedLoginsAreChallenged
<1>1. Inv => GuardedLoginsAreChallenged
  BY DEF Inv, FactorInv
<1> QED
  BY <1>1, InvariantHolds, PTL

\* What a complete removal has listed is never a usable factor again.
THEOREM RemovedFactorsStayOut == Spec => []ClearedMethodsStayOut
<1>1. Inv => ClearedMethodsStayOut
  BY DEF Inv, FactorInv, RemovalsSucceed, ClearedMethodsStayOut
<1> QED
  BY <1>1, InvariantHolds, PTL

-----------------------------------------------------------------------------
(* The refinement of OneTimeCredential.                                    *)

HolderSays ==
    \A c \in Codes :
        /\ Holder(c) \in {"none", "valid", "spent"} \cup Attempts
        /\ Holder(c) = "none" <=> code[c] = "none"
        /\ Holder(c) = "valid" <=> code[c] = "unused"
        /\ \A a \in Attempts : Holder(c) = a <=> Holds(a, c)
        /\ Opened(c) \in Sessions \cup {None}
        /\ \A s \in Sessions : Opened(c) = s <=> OpenedBy(s, c)

LEMMA HolderIsSound == Inv => HolderSays
<1> SUFFICES ASSUME Inv, NEW c \in Codes
             PROVE  /\ Holder(c) \in {"none", "valid", "spent"} \cup Attempts
                    /\ Holder(c) = "none" <=> code[c] = "none"
                    /\ Holder(c) = "valid" <=> code[c] = "unused"
                    /\ \A a \in Attempts : Holder(c) = a <=> Holds(a, c)
                    /\ Opened(c) \in Sessions \cup {None}
                    /\ \A s \in Sessions : Opened(c) = s <=> OpenedBy(s, c)
  BY DEF HolderSays
<1> USE AttemptsDiffer DEF Inv, FactorInv
<1>1. /\ Opened(c) \in Sessions \cup {None}
      /\ \A s \in Sessions : Opened(c) = s <=> OpenedBy(s, c)
  <2>1. ASSUME NEW s \in Sessions, OpenedBy(s, c)
        PROVE  Opened(c) = s /\ \A r \in Sessions : OpenedBy(r, c) => r = s
    <3>1. \A r \in Sessions : OpenedBy(r, c) => r = s
      BY <2>1 DEF CodesHaveOneHolder
    <3>2. Opened(c) = CHOOSE r \in Sessions : OpenedBy(r, c)
      BY <2>1 DEF Opened
    <3> QED BY <2>1, <3>1, <3>2
  <2>2. CASE \A s \in Sessions : ~OpenedBy(s, c)
    <3>1. Opened(c) = None
      BY <2>2 DEF Opened
    <3> QED BY <2>2, <3>1
  <2> QED BY <2>1, <2>2
<1>2. ASSUME NEW a \in Attempts, Holds(a, c)
      PROVE  /\ Holder(c) = a /\ code[c] \in {"used", "deleted"}
             /\ \A b \in Attempts : Holds(b, c) => b = a
  <2>1. code[c] \in {"used", "deleted"} /\ \A b \in Attempts : Holds(b, c) => b = a
    BY <1>2 DEF CodesHaveOneHolder
  <2>2. Holder(c) = CHOOSE b \in Attempts : Holds(b, c)
    BY <1>2, <2>1 DEF Holder
  <2>3. a = CHOOSE b \in Attempts : Holds(b, c)
    BY <1>2, <2>1
  <2> QED BY <2>1, <2>2, <2>3
<1>3. CASE \E a \in Attempts : Holds(a, c)
  BY <1>1, <1>2, <1>3
<1>4. CASE \A a \in Attempts : ~Holds(a, c)
  <2>1. Holder(c) = CASE code[c] = "none" -> "none" [] code[c] = "unused" -> "valid"
                      [] OTHER -> "spent"
    BY <1>4 DEF Holder
  <2> QED BY <1>1, <1>4, <2>1
<1> QED BY <1>3, <1>4

\* A code that a step does not concern keeps its holder, and what it opened.
LEMMA HolderStays ==
    ASSUME HolderSays, HolderSays', NEW c \in Codes,
           code'[c] = "none" <=> code[c] = "none", code'[c] = "unused" <=> code[c] = "unused",
           \A a \in Attempts : Holds(a, c)' <=> Holds(a, c)
    PROVE  Holder(c)' = Holder(c)
<1>1. CASE \E a \in Attempts : Holds(a, c)
  BY <1>1 DEF HolderSays
<1>2. CASE \A a \in Attempts : ~Holds(a, c)
  <2>1. Holder(c) \in {"none", "valid", "spent"} /\ Holder(c)' \in {"none", "valid", "spent"}
    BY <1>2 DEF HolderSays
  <2>2. /\ Holder(c) = "none" <=> Holder(c)' = "none"
        /\ Holder(c) = "valid" <=> Holder(c)' = "valid"
    BY DEF HolderSays
  <2> QED BY <2>1, <2>2
<1> QED BY <1>1, <1>2

LEMMA OpenedStays ==
    ASSUME HolderSays, HolderSays', NEW c \in Codes,
           \A s \in Sessions : OpenedBy(s, c)' <=> OpenedBy(s, c)
    PROVE  Opened(c)' = Opened(c)
BY DEF HolderSays

\* A stutter is an issue of nothing.
LEMMA NothingMaps ==
    ASSUME \A c \in Codes : Holder(c)' = Holder(c) /\ Opened(c)' = Opened(c)
    PROVE  Credential!CredentialNext
<1>1. Credential!Issue({}, {})
  BY DEF Credential!Issue
<1>2. {} \in SUBSET Codes
  OBVIOUS
<1> QED BY <1>1, <1>2 DEF Credential!CredentialNext

\* Sessions of other factors open no code.
LEMMA OtherSessions ==
    ASSUME HolderSays, HolderSays', \A s \in Sessions : Untouched(s)
    PROVE  \A c \in Codes : Opened(c)' = Opened(c)
<1>1. \A s \in Sessions, c \in Codes : OpenedBy(s, c)' <=> OpenedBy(s, c)
  BY FactorsAreFactors DEF Untouched, OpenedBy
<1> QED BY <1>1, OpenedStays

\* The COMMIT of a replacement: a set is issued and what was unused of the old
\* ones goes; a code that a request has marked stays with the request.
LEMMA CommitMaps ==
    ASSUME Inv, HolderSays, HolderSays', DoomedCodesExist, UNCHANGED attempt,
           NEW g \in Changes, NEW n \in CodeSets, CommitCodes(g, n)
    PROVE  Credential!CredentialNext
<1> DEFINE issued == {c \in Codes : code[c] = "none" /\ code'[c] = "unused"}
           gone == {c \in Codes : code[c] = "unused" /\ code'[c] = "deleted"}
<1>1. UNCHANGED session
  BY DEF CommitCodes
<1>2. \A c \in Codes : Opened(c)' = Opened(c)
  BY <1>1, OpenedStays DEF OpenedBy
<1>3. \A c \in Codes : code'[c] = IF c \in change[g].doomed THEN "deleted"
                          ELSE IF change[g].fresh /\ c \in CodesOf(n) THEN "unused" ELSE code[c]
  BY DEF CommitCodes
<1>4. change[g] # None
  BY DEF CommitCodes, ChangeAt
<1>5. \A a \in Attempts, c \in Codes : Holds(a, c)' <=> Holds(a, c)
  BY DEF Holds, AttemptAt
<1>6. ASSUME NEW c \in Codes, c \notin issued, c \notin gone PROVE Holder(c)' = Holder(c)
  <2>1. /\ c \in change[g].doomed => code[c] # "none"
        /\ change[g].fresh /\ c \in CodesOf(n) => code[c] = "none"
    BY <1>4 DEF DoomedCodesExist, CommitCodes
  <2>2. /\ code'[c] = "none" <=> code[c] = "none"
        /\ code'[c] = "unused" <=> code[c] = "unused"
    BY <1>3, <1>6, <2>1
  <2> QED BY <1>5, <2>2, HolderStays
<1>7. ASSUME NEW c \in issued PROVE Holder(c) = "none" /\ Holder(c)' = "valid"
  BY DEF HolderSays
<1>8. ASSUME NEW c \in gone PROVE Holder(c) = "valid" /\ Holder(c)' = "spent"
  <2>1. Holder(c) = "valid" /\ Holder(c)' \notin {"none", "valid"}
    BY DEF HolderSays
  <2>2. \A a \in Attempts : ~Holds(a, c)
    BY <2>1, AttemptsDiffer DEF HolderSays
  <2> QED BY <1>5, <2>1, <2>2 DEF HolderSays
<1>9. issued \in SUBSET Codes /\ gone \in SUBSET Codes /\ issued \cap gone = {}
  OBVIOUS
<1> HIDE DEF issued, gone
<1>10. Credential!Issue(issued, gone)
  BY <1>2, <1>6, <1>7, <1>8, <1>9 DEF Credential!Issue
<1> QED BY <1>9, <1>10 DEF Credential!CredentialNext

LEMMA MarkMaps ==
    ASSUME Inv, HolderSays, HolderSays', NEW a \in Attempts, MarkBackupCodeUsed(a)
    PROVE  Credential!CredentialNext
<1> USE DEF Inv, FactorInv
<1>1. PICK c \in Codes : attempt[a].by = c
  BY DEF MarkBackupCodeUsed, MarkingCodes
<1>2. /\ \A b \in Attempts \ {a} : attempt'[b] = attempt[b]
      /\ AttemptAt(a, "mark") /\ UNCHANGED session
  BY DEF MarkBackupCodeUsed, Present, TypeOK
<1>3. \A d \in Codes : Opened(d)' = Opened(d)
  BY <1>2, OpenedStays DEF OpenedBy
<1>4. \A d \in Codes : ~Holds(a, d)
  BY <1>2 DEF Holds, AttemptAt
<1>5. CASE code[c] = "unused"
  <2>1. attempt'[a] = [pc |-> "session", by |-> c] /\ code' = [code EXCEPT ![c] = "used"]
    BY <1>1, <1>5 DEF MarkBackupCodeUsed, Present, TypeOK
  <2>2. attempt'[a] # None
    BY <2>1, NoneIsNoRow DEF Attempt
  <2>3. \A b \in Attempts, d \in Codes :
           Holds(b, d)' <=> (b = a /\ d = c) \/ Holds(b, d)
    BY <1>2, <1>4, <2>1, <2>2 DEF Holds, AttemptAt
  <2>4. \A d \in Codes \ {c} : Holder(d)' = Holder(d)
    BY <2>1, <2>3, HolderStays DEF TypeOK
  <2>5. Holder(c) = "valid" /\ Holder(c)' = a
    BY <1>5, <2>3 DEF HolderSays
  <2>6. \A d \in Codes : Holder(d) # a
    BY <1>4 DEF HolderSays
  <2>7. Credential!Take(c, a)
    <3>1. [d \in Codes |-> Holder(d)]' = [[d \in Codes |-> Holder(d)] EXCEPT ![c] = a]
      BY <2>4, <2>5
    <3>2. UNCHANGED [d \in Codes |-> Opened(d)]
      BY <1>3
    <3>3. \A d \in Codes : [e \in Codes |-> Holder(e)][d] # a
      BY <2>6
    <3>4. [d \in Codes |-> Holder(d)][c] = "valid"
      BY <2>5
    <3> QED BY <3>1, <3>2, <3>3, <3>4 DEF Credential!Take
  <2> QED BY <2>7 DEF Credential!CredentialNext
<1>6. CASE code[c] # "unused"
  <2>1. attempt'[a] = None /\ UNCHANGED code
    BY <1>1, <1>6 DEF MarkBackupCodeUsed, TypeOK
  <2>2. \A b \in Attempts, d \in Codes : Holds(b, d)' <=> Holds(b, d)
    BY <1>2, <1>4, <2>1 DEF Holds, AttemptAt
  <2>3. \A d \in Codes : Holder(d)' = Holder(d)
    BY <2>1, <2>2, HolderStays
  <2> QED BY <1>3, <2>3, NothingMaps
<1> QED BY <1>5, <1>6

\* A request that has marked a code goes on to its session, or fails.
LEMMA LeavingMaps ==
    ASSUME Inv, HolderSays, HolderSays', NEW a \in Attempts,
           AbandonAttempt(a) \/ \E s \in Sessions : FinishChallenge(a, s)
    PROVE  Credential!CredentialNext
<1> USE DEF Inv, FactorInv
<1>1. \A b \in Attempts : attempt'[b] = IF b = a THEN None ELSE attempt[b]
  BY DEF AbandonAttempt, FinishChallenge, TypeOK
<1>2. UNCHANGED code
  BY DEF AbandonAttempt, FinishChallenge, Rows
<1>3. \A b \in Attempts, d \in Codes : Holds(b, d)' <=> b # a /\ Holds(b, d)
  BY <1>1 DEF Holds, AttemptAt
<1>4. CASE \A d \in Codes : ~Holds(a, d)
  <2>1. \A d \in Codes : Holder(d)' = Holder(d)
    BY <1>2, <1>3, <1>4, HolderStays
  <2>2. \A s \in Sessions, d \in Codes : OpenedBy(s, d)' <=> OpenedBy(s, d)
    <3>1. CASE AbandonAttempt(a)
      BY <3>1 DEF AbandonAttempt, Rows, OpenedBy
    <3>2. ASSUME NEW s \in Sessions, FinishChallenge(a, s)
          PROVE  \A r \in Sessions, d \in Codes : OpenedBy(r, d)' <=> OpenedBy(r, d)
      <4>1. attempt[a].by \notin Codes
        BY <1>4, <3>2 DEF FinishChallenge, Holds
      <4> QED BY <3>2, <4>1 DEF FinishChallenge, OpenedBy, TypeOK
    <3> QED BY <3>1, <3>2
  <2>3. \A d \in Codes : Opened(d)' = Opened(d)
    BY <2>2, OpenedStays
  <2> QED BY <2>1, <2>3, NothingMaps
<1>5. ASSUME NEW c \in Codes, Holds(a, c) PROVE Credential!CredentialNext
  <2>1. \A d \in Codes \ {c} : ~Holds(a, d)
    BY <1>5 DEF Holds
  <2>2. \A d \in Codes \ {c} : Holder(d)' = Holder(d)
    BY <1>2, <1>3, <2>1, HolderStays
  <2>3. /\ code[c] \in {"used", "deleted"}
        /\ \A b \in Attempts : Holds(b, c) => a = b
        /\ \A s \in Sessions : ~OpenedBy(s, c)
    BY <1>5 DEF CodesHaveOneHolder
  <2>4. Holder(c) = a
    BY <1>5 DEF HolderSays
  <2>5. Holder(c)' = "spent"
    <3>1. \A b \in Attempts : ~Holds(b, c)'
      BY <1>3, <2>3
    <3> QED BY <1>2, <2>3, <3>1 DEF HolderSays
  <2>6. CASE AbandonAttempt(a)
    <3>1. \A d \in Codes : Opened(d)' = Opened(d)
      BY <2>6, OpenedStays DEF AbandonAttempt, Rows, OpenedBy
    <3>2. Credential!Fail(c)
      BY <2>2, <2>4, <2>5, <3>1 DEF Credential!Fail
    <3> QED BY <3>2 DEF Credential!CredentialNext
  <2>7. ASSUME NEW s \in Sessions, FinishChallenge(a, s) PROVE Credential!CredentialNext
    <3>1. /\ session[s] = None
          /\ session'[s] = [acr |-> "1", by |-> c, guarded |-> FALSE]
          /\ \A r \in Sessions \ {s} : session'[r] = session[r]
      BY <1>5, <2>7 DEF FinishChallenge, Holds, TypeOK
    <3>2. session'[s] # None
      <4>1. [acr |-> "1", by |-> c, guarded |-> FALSE] \in SessionRow
        BY FactorsAreFactors DEF SessionRow
      <4> QED BY <3>1, <4>1, NoneIsNoRow
    <3>3. \A d \in Codes \ {c} : Opened(d)' = Opened(d)
      <4>1. \A r \in Sessions, d \in Codes \ {c} : OpenedBy(r, d)' <=> OpenedBy(r, d)
        BY <3>1 DEF OpenedBy
      <4> QED BY <4>1, OpenedStays
    <3>4. Opened(c)' = s
      BY <3>1, <3>2 DEF HolderSays, OpenedBy
    <3>5. \A d \in Codes : Opened(d) # s
      BY <3>1 DEF HolderSays, OpenedBy
    <3>6. Credential!Succeed(c, s)
      BY <2>2, <2>4, <2>5, <3>3, <3>4, <3>5 DEF Credential!Succeed
    <3> QED BY <3>6 DEF Credential!CredentialNext
  <2> QED BY <2>6, <2>7
<1> QED BY <1>4, <1>5

LEMMA AttemptMaps ==
    ASSUME Inv, HolderSays, HolderSays', NEW a \in Attempts, AttemptStep(a)
    PROVE  Credential!CredentialNext
<1> USE DEF Inv
<1>1. ASSUME UNCHANGED <<code, session>>, \A b \in Attempts \ {a} : attempt'[b] = attempt[b],
             attempt[a] = None \/ attempt[a].pc = "verify",
             \/ attempt'[a].pc \in {"verify", "mark"}
             \/ attempt'[a].pc = "session" /\ attempt'[a].by \in Methods
      PROVE  Credential!CredentialNext
  <2>1. \A b \in Attempts, d \in Codes : Holds(b, d)' <=> Holds(b, d)
    BY <1>1, FactorsAreFactors DEF Holds, AttemptAt
  <2>2. \A d \in Codes : Holder(d)' = Holder(d)
    BY <1>1, <2>1, HolderStays
  <2>3. \A d \in Codes : Opened(d)' = Opened(d)
    BY <1>1, OpenedStays DEF OpenedBy
  <2> QED BY <2>2, <2>3, NothingMaps
<1>2. ASSUME NEW m \in Methods, VerifyTOTP(a, m) \/ FinishWebAuthnLogin(a, m)
      PROVE  Credential!CredentialNext
  BY <1>1, <1>2 DEF VerifyTOTP, FinishWebAuthnLogin, Present, AttemptAt, Rows, TypeOK
<1>3. ASSUME NEW c \in Codes, ListUnusedBackupCodes(a, c) PROVE Credential!CredentialNext
  BY <1>1, <1>3 DEF ListUnusedBackupCodes, Present, AttemptAt, Rows, TypeOK
<1>4. CASE ReadChallenge(a)
  BY <1>1, <1>4 DEF ReadChallenge, Rows, TypeOK
<1> QED
  BY <1>2, <1>3, <1>4, MarkMaps, LeavingMaps DEF AttemptStep, Methods, Inv

-----------------------------------------------------------------------------
(* A doomed code had been issued, and nothing makes it as if it had not.   *)

LEMMA AttemptsMarkAtMost ==
    ASSUME Inv, NEW a \in Attempts, AttemptStep(a)
    PROVE  UNCHANGED code \/ \E d \in Codes : code' = [code EXCEPT ![d] = "used"]
<1>1. CASE MarkBackupCodeUsed(a)
  BY <1>1 DEF MarkBackupCodeUsed, MarkingCodes, Inv, FactorInv
<1> QED BY <1>1
  DEF AttemptStep, ReadChallenge, VerifyTOTP, FinishWebAuthnLogin, ListUnusedBackupCodes,
      FinishChallenge, AbandonAttempt, Rows

LEMMA OnlyChangesChange ==
    ASSUME [Next]_vars, \A h \in Changes : ~ChangeStep(h) PROVE UNCHANGED change
<1>1. CASE \/ UNCHANGED vars \/ BeginWebAuthnLogin \/ MethodStep
           \/ \E d \in Challenges : ExpireChallenge(d)
  BY <1>1 DEF vars, BeginWebAuthnLogin, ExpireChallenge, MethodStep, DeleteMFAMethod, SetMethod,
              BeginTOTPEnrollment, ConfirmTOTPEnrollment, FinishWebAuthnRegistration
<1>2. ASSUME NEW l \in Logins, LoginStep(l) PROVE UNCHANGED change
  BY <1>2 DEF LoginStep, BeginLogin, IssueChallenge, PassGate, CreateSession, AbandonLogin
<1>3. ASSUME NEW a \in Attempts, AttemptStep(a) PROVE UNCHANGED change
  BY <1>3 DEF AttemptStep, ReadChallenge, VerifyTOTP, FinishWebAuthnLogin,
              ListUnusedBackupCodes, MarkBackupCodeUsed, FinishChallenge, AbandonAttempt
<1> QED BY <1>1, <1>2, <1>3 DEF Next

LEMMA IssuedStaysIssued ==
    ASSUME Inv, [Next]_vars, NEW c \in Codes, code[c] # "none" PROVE code'[c] # "none"
<1>1. ASSUME NEW a \in Attempts, AttemptStep(a)
      PROVE  UNCHANGED code \/ \E d \in Codes : code' = [code EXCEPT ![d] = "used"]
  BY <1>1, AttemptsMarkAtMost
<1>2. ASSUME NEW g \in Changes, NEW n \in CodeSets, CommitCodes(g, n)
      PROVE  code'[c] \in {"deleted", "unused", code[c]}
  BY <1>2 DEF CommitCodes
<1> QED BY <1>1, <1>2, OtherSteps DEF Inv, TypeOK

LEMMA DoomedInvariance == Spec => []DoomedCodesExist
<1>1. Init => DoomedCodesExist
  BY DEF Init, DoomedCodesExist
<1>2. Inv /\ DoomedCodesExist /\ [Next]_vars => DoomedCodesExist'
  <2> SUFFICES ASSUME Inv, DoomedCodesExist, [Next]_vars,
                      NEW g \in Changes, change'[g] # None, NEW c \in change'[g].doomed
               PROVE  code'[c] # "none"
    BY DEF DoomedCodesExist
  <2>1. CASE change[g] # None /\ change'[g].doomed = change[g].doomed
    <3>1. c \in Codes /\ code[c] # "none"
      BY <2>1 DEF DoomedCodesExist, Inv, TypeOK, Change
    <3> QED BY <3>1, IssuedStaysIssued
  <2>2. CASE DeleteOldCodes(g)
    <3>1. c \in Codes /\ code[c] # "none" /\ UNCHANGED code
      BY <2>2 DEF DeleteOldCodes, ChangeAt, Inv, TypeOK, Change, Rows
    <3> QED BY <3>1
  <2>3. ASSUME NEW h \in Changes, ChangeStep(h), ~DeleteOldCodes(g)
        PROVE  \/ change[g] # None /\ change'[g].doomed = change[g].doomed
               \/ change'[g].doomed = {}
    <3>1. CASE g # h
      BY <2>3, <3>1
      DEF ChangeStep, GenerateBackupCodes, DeleteAllUserMFA, BeginChange, DeleteOldCodes,
          AbandonChange, DeleteListed, SkipListed, CommitCodes, Inv, TypeOK
    <3>2. CASE g = h
      <4>1. CASE GenerateBackupCodes(g) \/ DeleteAllUserMFA(g)
        BY <4>1 DEF GenerateBackupCodes, DeleteAllUserMFA, BeginChange, Inv, TypeOK
      <4>2. CASE \E m \in Methods : DeleteListed(g, m) \/ SkipListed(g, m)
        BY <4>2 DEF DeleteListed, SkipListed, ChangeAt, Inv, TypeOK, Change
      <4>3. CASE AbandonChange(g) \/ \E n \in CodeSets : CommitCodes(g, n)
        BY <4>3 DEF AbandonChange, CommitCodes, Inv, TypeOK
      <4> QED BY <2>3, <3>2, <4>1, <4>2, <4>3 DEF ChangeStep
    <3> QED BY <3>1, <3>2
  <2>4. CASE UNCHANGED change
    BY <2>1, <2>4
  <2> QED BY <2>1, <2>2, <2>3, <2>4, OnlyChangesChange
<1> QED BY <1>1, <1>2, InvariantHolds, PTL DEF Spec

\* Backup codes implement OneTimeCredential: for any number of requests, of sets
\* and of overlapping replacements, a code goes to one request and opens one
\* session at most, and a request that fails does not give it back.
THEOREM BackupCodesAreOneTimeCredentials == Spec => BackupCodesAreOneTime
<1>1. Init => Credential!CredentialInit
  BY DEF Init, Credential!CredentialInit, Holder, Opened, OpenedBy, Holds, AttemptAt
<1>2. Inv /\ DoomedCodesExist /\ HolderSays /\ HolderSays' /\ [Next]_vars
          => Credential!CredentialNext
  <2> SUFFICES ASSUME Inv, DoomedCodesExist, HolderSays, HolderSays', [Next]_vars
               PROVE  Credential!CredentialNext
    OBVIOUS
  <2>1. CASE \E a \in Attempts : AttemptStep(a)
    BY <2>1, AttemptMaps
  <2>2. CASE \A a \in Attempts : ~AttemptStep(a)
    <3>1. UNCHANGED attempt /\ \A s \in Sessions : Untouched(s)
      BY <2>2, OtherSteps
    <3>2. CASE \E g \in Changes, n \in CodeSets : CommitCodes(g, n)
      BY <3>1, <3>2, CommitMaps
    <3>3. CASE UNCHANGED code
      <4>1. \A c \in Codes : Holder(c)' = Holder(c)
        BY <3>1, <3>3, HolderStays DEF Holds, AttemptAt
      <4>2. \A c \in Codes : Opened(c)' = Opened(c)
        BY <3>1, OtherSessions
      <4> QED BY <4>1, <4>2, NothingMaps
    <3> QED BY <2>2, <3>2, <3>3, OtherSteps
  <2> QED BY <2>1, <2>2
<1> QED
  BY <1>1, <1>2, InvariantHolds, DoomedInvariance, HolderIsSound, PTL
  DEF Spec, BackupCodesAreOneTime, Credential!CredentialSpec

-----------------------------------------------------------------------------
(* Replacements that do not overlap.                                       *)

\* The codes a user can log in with are of one set, and a transaction that is
\* about to commit deletes all of them.
OneSetAtATime ==
    /\ \A c, d \in Codes : code[c] = "unused" /\ code[d] = "unused" => c[1] = d[1]
    /\ \A g \in Changes : ChangeAt(g, "commit") =>
          \A c \in Codes : code[c] = "unused" => c \in change[g].doomed

\* The COMMIT leaves the new set, or none.
LEMMA CommitLeavesOneSet ==
    ASSUME \A g, h \in Changes : g = h, Inv, OneSetAtATime,
           NEW g \in Changes, NEW n \in CodeSets, CommitCodes(g, n)
    PROVE  OneSetAtATime'
<1>1. \A c \in Codes : code'[c] = "unused" => c \in CodesOf(n)
  BY DEF CommitCodes, OneSetAtATime
<1>2. \A c \in CodesOf(n) : c[1] = n
  BY DEF CodesOf
<1>3. change'[g] = None
  BY DEF CommitCodes, Inv, TypeOK
<1>4. \A h \in Changes : ~ChangeAt(h, "commit")'
  BY <1>3 DEF ChangeAt
<1> QED BY <1>1, <1>2, <1>4 DEF OneSetAtATime

\* Until then the codes that can be used only get fewer.
LEMMA NoCommitKeepsOneSet ==
    ASSUME \A g, h \in Changes : g = h, Inv, OneSetAtATime, [Next]_vars,
           \A g \in Changes, n \in CodeSets : ~CommitCodes(g, n)
    PROVE  OneSetAtATime'
<1>1. \A c \in Codes : code'[c] = "unused" => code[c] = "unused"
  <2>1. UNCHANGED code \/ \E d \in Codes : code' = [code EXCEPT ![d] = "used"]
    BY AttemptsMarkAtMost, OtherSteps
  <2> QED BY <2>1 DEF Inv, TypeOK
<1>2. ASSUME NEW g \in Changes, ChangeAt(g, "commit")', NEW c \in Codes, code'[c] = "unused"
      PROVE  c \in change'[g].doomed
  <2>1. code[c] = "unused"
    BY <1>1, <1>2
  <2>2. CASE UNCHANGED change
    BY <1>2, <2>1, <2>2 DEF ChangeAt, OneSetAtATime
  <2>3. CASE DeleteOldCodes(g)
    BY <2>1, <2>3 DEF DeleteOldCodes, ChangeAt, Inv, TypeOK, Change
  <2>4. CASE \E m \in Methods : DeleteListed(g, m) \/ SkipListed(g, m)
    BY <1>2, <2>4 DEF DeleteListed, SkipListed, ChangeAt, Inv, TypeOK, Change
  <2>5. CASE GenerateBackupCodes(g) \/ DeleteAllUserMFA(g) \/ AbandonChange(g)
    BY <1>2, <2>5 DEF GenerateBackupCodes, DeleteAllUserMFA, BeginChange, AbandonChange, ChangeAt,
                      Inv, TypeOK
  <2>6. UNCHANGED change \/ ChangeStep(g)
    <3>1. UNCHANGED change \/ \E h \in Changes : ChangeStep(h)
      BY OnlyChangesChange
    <3> QED BY <3>1
  <2> QED BY <2>2, <2>3, <2>4, <2>5, <2>6 DEF ChangeStep
<1> QED BY <1>1, <1>2 DEF OneSetAtATime

\* As the comment of ReplaceBackupCodes has it, codes of two sets are never valid at
\* the same time: as long as the handlers that replace or remove them do not
\* overlap, whatever fails in them and however many requests present codes
\* meanwhile.  Two that overlap do leave two sets: their DELETEs do not see
\* each other's INSERTs.
THEOREM ReplacingOneByOneLeavesOneSet ==
    ASSUME \A g, h \in Changes : g = h
    PROVE  Spec => [](\A c, d \in Codes : code[c] = "unused" /\ code[d] = "unused" => c[1] = d[1])
<1>1. Init => OneSetAtATime
  BY DEF Init, OneSetAtATime, ChangeAt
<1>2. Inv /\ OneSetAtATime /\ [Next]_vars => OneSetAtATime'
  BY CommitLeavesOneSet, NoCommitKeepsOneSet
<1>3. OneSetAtATime =>
         \A c, d \in Codes : code[c] = "unused" /\ code[d] = "unused" => c[1] = d[1]
  BY DEF OneSetAtATime
<1> QED BY <1>1, <1>2, <1>3, InvariantHolds, PTL DEF Spec
=============================================================================

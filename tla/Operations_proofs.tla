--------------------------- MODULE Operations_proofs ---------------------------
(***************************************************************************)
(* Proofs about what runs the installation.                                *)
(*                                                                         *)
(* Administrators: rows and calls keep their types, and an administrator   *)
(* remains unless a caller was overtaken, for any number of users and of   *)
(* overlapping calls.                                                      *)
(*                                                                         *)
(* Housekeeping: no audit event is lost that nobody asked to prune, and    *)
(* the running month has its partition, for any tables to sweep, any       *)
(* number of months ahead and any faults.                                  *)
(***************************************************************************)
EXTENDS Administrators, Housekeeping, FiniteSetTheorems, TLAPS

(***************************************************************************)
(* Part I: Administrators.                                                 *)
(***************************************************************************)
-----------------------------------------------------------------------------
(* Types.                                                                  *)

\* The table takes what UpdateUser writes of a request that passed Storable.
LEMMA EditedIsARow ==
    ASSUME NEW row \in Row, NEW q \in Request, Storable(q)
    PROVE  /\ Edited(row, q) \in Row
           /\ Edited(row, q).deleted = row.deleted
           /\ q.status # "disabled" /\ row.status = "active" => Edited(row, q).status = "active"
           /\ q.rights # "remove" /\ row.admin => Edited(row, q).admin
<1>1. q.status \in {"same", "active", "disabled"}
  BY DEF Request, Storable
<1>2. q.rights \in {"same", "grant", "remove"}
  BY DEF Request
<1> QED BY <1>1, <1>2 DEF Edited, Row

\* createUser writes the flags of a request, never a status.
LEMMA FlagsAreARow ==
    ASSUME NEW row \in Row, NEW q \in Request
    PROVE  LET flags == Edited(row, [q EXCEPT !.status = "same"])
           IN  /\ flags \in Row
               /\ flags.deleted = row.deleted /\ flags.status = row.status
               /\ q.rights # "remove" /\ row.admin => flags.admin
<1>1. q.rights \in {"same", "grant", "remove"}
  BY DEF Request
<1>2. [q EXCEPT !.status = "same"].status = "same"
  BY DEF Request
<1>3. [q EXCEPT !.status = "same"].rights = q.rights
  BY DEF Request
<1> QED BY <1>1, <1>2, <1>3 DEF Edited, Row

\* What the handlers know of a call: its caller had an account, only requests
\* to create go on to the flags, and those do not concern the caller.
CallOK(c) ==
    call[c] # None =>
        /\ call[c].pc # "actor" => user[call[c].actor] # None
        /\ call[c].pc \in {"flags", "undo"} =>
               /\ call[c].request.kind = "create"
               /\ call[c].actor # call[c].target
               /\ user[call[c].target] # None

Inv == TypeOK /\ (\A c \in Calls : CallOK(c)) /\ AdministratorsRemain

LEMMA InitInv == Init => Inv
<1> SUFFICES ASSUME Init PROVE Inv
  OBVIOUS
<1>1. [status |-> "active", admin |-> TRUE, deleted |-> FALSE] \in Row
  BY DEF Row
<1>2. TypeOK
  BY <1>1 DEF Init, TypeOK
<1> QED BY <1>2 DEF Init, Inv, CallOK, AdministratorsRemain

\* A step that leaves the rows alone and overtakes nobody.
LEMMA RowsUntouched ==
    ASSUME AdministratorsRemain, UNCHANGED <<user, overtaken>>
    PROVE  AdministratorsRemain'
BY DEF AdministratorsRemain, Administrator, Exists

\* Whoever makes the statement: if the caller still has its rights it keeps
\* them, and if it has not, taking those of another is recorded.
LEMMA StatementByCaller ==
    ASSUME AdministratorsRemain, NEW c \in Calls, ByCaller(c),
           NEW a \in Users, call[c].actor = a, Administrator(a) => Administrator(a)'
    PROVE  AdministratorsRemain'
<1> SUFFICES ASSUME ~overtaken' PROVE \E u \in Users : Administrator(u)'
  BY DEF AdministratorsRemain
<1>1. ~overtaken
  BY DEF ByCaller
<1>2. PICK u \in Users : Administrator(u)
  BY <1>1 DEF AdministratorsRemain
<1>3. CASE Administrator(a)
  BY <1>3
<1>4. CASE ~Administrator(a)
  BY <1>1, <1>2, <1>4 DEF ByCaller
<1> QED BY <1>3, <1>4

-----------------------------------------------------------------------------
(* One lemma per group of actions.                                         *)

LEMMA ProtectedStep ==
    ASSUME Inv, NEW c \in Calls, Protected(c)
    PROVE  Inv'
<1> USE NoneIsNothing DEF Inv
<1>1. CASE \E u, t \in Users, q \in Asked : Receive(c, u, q, t)
  <2>1. PICK u \in Users, t \in Users, q \in Asked : Receive(c, u, q, t)
    BY <1>1
  <2>2. [request |-> q, actor |-> u, target |-> t, pc |-> "actor"] \in Call
    BY AskedIsARequest DEF Call
  <2>3. TypeOK'
    BY <2>1, <2>2 DEF TypeOK, Receive
  <2>4. \A d \in Calls : CallOK(d)'
    BY <2>1 DEF TypeOK, Receive, CallOK
  <2> QED BY <2>1, <2>3, <2>4, RowsUntouched DEF Receive
<1>2. CASE LoadActor(c)
  <2>1. call[c] \in Call
    BY <1>2 DEF TypeOK, LoadActor, At
  <2>2. [call[c] EXCEPT !.pc = "guard"] \in Call
    BY <2>1 DEF Call
  <2>3. TypeOK'
    BY <1>2, <2>2 DEF TypeOK, LoadActor, Continue
  <2>4. \A d \in Calls : CallOK(d)'
    BY <1>2, <2>1 DEF TypeOK, LoadActor, Continue, CallOK, Administrator, Exists, Call
  <2> QED BY <1>2, <2>3, <2>4, RowsUntouched DEF LoadActor
<1>3. CASE EndCall(c)
  <2>1. TypeOK'
    BY <1>3 DEF TypeOK, EndCall, Leave
  <2>2. \A d \in Calls : CallOK(d)'
    BY <1>3 DEF TypeOK, EndCall, Leave, CallOK
  <2> QED BY <1>3, <2>1, <2>2, RowsUntouched DEF EndCall
<1> QED BY <1>1, <1>2, <1>3 DEF Protected

\* Steps that leave the calls alone and insert rows at most.
LEMMA CallsUntouched ==
    ASSUME Inv, UNCHANGED call, \A u \in Users : user[u] # None => user'[u] # None
    PROVE  \A c \in Calls : CallOK(c)'
BY DEF Inv, TypeOK, CallOK, Call

LEMMA UpdateUserStep ==
    ASSUME Inv, NEW c \in Calls, UpdateUser(c)
    PROVE  Inv'
<1> DEFINE t == call[c].target
           q == call[c].request
<1>1. call[c] \in Call /\ t \in Users /\ q \in Request /\ call[c].actor \in Users
  BY DEF Inv, TypeOK, UpdateUser, At, Call
<1>2. user[t] \in Row /\ Exists(t)
  BY <1>1 DEF Inv, TypeOK, UpdateUser, Exists
<1>3. Edited(user[t], q) \in Row /\ Storable(q)
  BY <1>1, <1>2, EditedIsARow DEF UpdateUser
<1>4. user' = [user EXCEPT ![t] = Edited(user[t], q)]
  BY DEF UpdateUser
<1>5. call' \in [Calls -> Call \cup {None}]
  <2>1. [call[c] EXCEPT !.pc = "revoke"] \in Call
    BY <1>1 DEF Call
  <2> QED BY <2>1 DEF Inv, TypeOK, UpdateUser, Continue, Leave
<1>6. TypeOK'
  BY <1>1, <1>3, <1>4, <1>5 DEF Inv, TypeOK, UpdateUser, ByCaller
<1>7. \A u \in Users : user[u] # None => user'[u] # None
  BY <1>1, <1>3, <1>4, NoneIsNothing DEF Inv, TypeOK
<1>8. \A d \in Calls : CallOK(d)'
  <2> SUFFICES ASSUME NEW d \in Calls, call'[d] # None PROVE CallOK(d)'
    BY DEF CallOK
  <2>1. CASE d # c
    <3>1. call'[d] = call[d]
      BY <2>1 DEF Inv, TypeOK, UpdateUser, Continue, Leave
    <3> QED BY <1>7, <3>1 DEF Inv, TypeOK, CallOK, Call
  <2>2. CASE d = c
    <3>1. call'[c] = [call[c] EXCEPT !.pc = "revoke"]
      BY <2>2 DEF Inv, TypeOK, UpdateUser, Continue, Leave
    <3>2. user[call[c].actor] # None
      BY <1>1 DEF Inv, CallOK, UpdateUser, At
    <3> QED BY <1>1, <1>7, <2>2, <3>1, <3>2 DEF CallOK, Call
  <2> QED BY <2>1, <2>2
<1>9. PICK a \in Users : a = call[c].actor
  BY <1>1
<1>10. ASSUME Administrator(a) PROVE Administrator(a)'
  <2>1. CASE a # t
    BY <1>1, <1>4, <1>10, <2>1 DEF Inv, TypeOK, Administrator, Exists
  <2>2. CASE a = t
    <3>1. q.status # "disabled" /\ q.rights # "remove"
      BY <1>9, <2>2 DEF UpdateUser, HurtsItself
    <3>2. /\ Edited(user[t], q).deleted = user[t].deleted
          /\ Edited(user[t], q).status = "active"
          /\ Edited(user[t], q).admin
      BY <1>1, <1>2, <1>3, <1>10, <2>2, <3>1, EditedIsARow DEF Administrator
    <3>3. user'[t] = Edited(user[t], q)
      BY <1>1, <1>4 DEF Inv, TypeOK
    <3> QED BY <1>3, <1>10, <2>2, <3>2, <3>3, NoneIsNothing DEF Administrator, Exists
  <2> QED BY <2>1, <2>2
<1>11. AdministratorsRemain'
  BY <1>9, <1>10, StatementByCaller DEF Inv, UpdateUser
<1> QED BY <1>6, <1>8, <1>11 DEF Inv

LEMMA DeleteUserStep ==
    ASSUME Inv, NEW c \in Calls, DeleteUser(c)
    PROVE  Inv'
<1> DEFINE t == call[c].target
<1>1. call[c] \in Call /\ t \in Users /\ call[c].actor \in Users
  BY DEF Inv, TypeOK, DeleteUser, At, Call
<1>2. user[t] \in Row
  BY <1>1 DEF Inv, TypeOK, DeleteUser, Exists
<1>3. SoftDeleted(user[t]) \in Row
  BY <1>2 DEF SoftDeleted, Row
<1>4. user' = [user EXCEPT ![t] = SoftDeleted(user[t])]
  BY DEF DeleteUser
<1>5. [call[c] EXCEPT !.pc = "revoke"] \in Call
  BY <1>1 DEF Call
<1>6. TypeOK'
  BY <1>1, <1>3, <1>4, <1>5 DEF Inv, TypeOK, DeleteUser, Continue, ByCaller
<1>7. \A u \in Users : user[u] # None => user'[u] # None
  BY <1>1, <1>3, <1>4, NoneIsNothing DEF Inv, TypeOK
<1>8. \A d \in Calls : CallOK(d)'
  <2> SUFFICES ASSUME NEW d \in Calls PROVE CallOK(d)'
    OBVIOUS
  <2>1. CASE d # c
    <3>1. call'[d] = call[d]
      BY <2>1 DEF Inv, TypeOK, DeleteUser, Continue
    <3> QED BY <1>7, <3>1 DEF Inv, TypeOK, CallOK, Call
  <2>2. CASE d = c
    <3>1. call'[c] = [call[c] EXCEPT !.pc = "revoke"]
      BY <2>2 DEF Inv, TypeOK, DeleteUser, Continue
    <3>2. user[call[c].actor] # None
      BY <1>1 DEF Inv, CallOK, DeleteUser, At
    <3> QED BY <1>1, <1>7, <2>2, <3>1, <3>2 DEF CallOK, Call
  <2> QED BY <2>1, <2>2
<1>9. call[c].actor # t
  <2>1. call[c].request.kind = "delete"
    BY DEF DeleteUser, Kind
  <2>2. call[c].request.status = "disabled"
    BY <1>1, <2>1 DEF Call, Request
  <2> QED BY <2>2 DEF DeleteUser, HurtsItself
<1>10. ASSUME NEW a \in Users, a = call[c].actor
       PROVE  Administrator(a) => Administrator(a)'
  BY <1>1, <1>4, <1>9, <1>10 DEF Inv, TypeOK, Administrator, Exists
<1>11. AdministratorsRemain'
  BY <1>1, <1>10, StatementByCaller DEF Inv, DeleteUser
<1> QED BY <1>6, <1>8, <1>11 DEF Inv

LEMMA InsertUserStep ==
    ASSUME Inv, NEW c \in Calls, InsertUser(c)
    PROVE  Inv'
<1> DEFINE t == call[c].target
           new == [status |-> "active", admin |-> FALSE, deleted |-> FALSE]
<1>1. call[c] \in Call /\ t \in Users /\ call[c].actor \in Users
  BY DEF Inv, TypeOK, InsertUser, At, Call
<1>2. new \in Row
  BY DEF Row
<1>3. user' = [user EXCEPT ![t] = new] /\ user[t] = None
  BY DEF InsertUser
<1>4. PICK pc \in {"flags", "undo"} : Continue(c, pc)
  BY DEF InsertUser
<1>5. [call[c] EXCEPT !.pc = pc] \in Call
  BY <1>1 DEF Call
<1>6. TypeOK'
  BY <1>1, <1>2, <1>3, <1>4, <1>5 DEF Inv, TypeOK, InsertUser, Continue
<1>7. \A u \in Users : user[u] # None => user'[u] # None
  BY <1>1, <1>2, <1>3, NoneIsNothing DEF Inv, TypeOK
<1>8. \A d \in Calls : CallOK(d)'
  <2> SUFFICES ASSUME NEW d \in Calls PROVE CallOK(d)'
    OBVIOUS
  <2>1. CASE d # c
    <3>1. call'[d] = call[d]
      BY <1>4, <2>1 DEF Inv, TypeOK, Continue
    <3> QED BY <1>7, <3>1 DEF Inv, TypeOK, CallOK, Call
  <2>2. CASE d = c
    <3>1. call'[c] = [call[c] EXCEPT !.pc = pc]
      BY <1>4 DEF Inv, TypeOK, Continue
    <3>2. user[call[c].actor] # None
      BY <1>1 DEF Inv, CallOK, InsertUser, At
    <3>3. user'[t] # None
      BY <1>1, <1>2, <1>3, NoneIsNothing DEF Inv, TypeOK
    <3>4. call[c].request.kind = "create"
      BY DEF InsertUser, Kind
    <3> QED BY <1>1, <1>3, <1>7, <2>2, <3>1, <3>2, <3>3, <3>4 DEF CallOK, Call
  <2> QED BY <2>1, <2>2
<1>9. \A u \in Users : Administrator(u) => Administrator(u)'
  BY <1>1, <1>3 DEF Inv, TypeOK, Administrator, Exists
<1>10. AdministratorsRemain'
  BY <1>9 DEF Inv, InsertUser, AdministratorsRemain
<1> QED BY <1>6, <1>8, <1>10 DEF Inv

\* The last statements of a handler: the call ends and no row goes.
LEMMA CallEnds ==
    ASSUME Inv, NEW c \in Calls, Leave(c), \A u \in Users : user[u] # None => user'[u] # None
    PROVE  \A d \in Calls : CallOK(d)'
<1> SUFFICES ASSUME NEW d \in Calls, call'[d] # None PROVE CallOK(d)'
  BY DEF CallOK
<1>1. call'[d] = call[d]
  BY DEF Inv, TypeOK, Leave
<1> QED BY <1>1 DEF Inv, TypeOK, CallOK, Call

LEMMA UndoInsertStep ==
    ASSUME Inv, NEW c \in Calls, UndoInsert(c)
    PROVE  Inv'
<1> DEFINE t == call[c].target
           gone == IF Exists(t) THEN SoftDeleted(user[t]) ELSE user[t]
<1>1. call[c] \in Call /\ t \in Users /\ call[c].actor \in Users
  BY DEF Inv, TypeOK, UndoInsert, At, Call
<1>2. call[c].actor # t /\ user[t] \in Row
  BY <1>1 DEF Inv, TypeOK, UndoInsert, At, CallOK
<1>3. gone \in Row
  BY <1>2 DEF SoftDeleted, Row
<1>4. user' = [user EXCEPT ![t] = gone]
  BY DEF UndoInsert
<1>5. TypeOK'
  BY <1>1, <1>3, <1>4 DEF Inv, TypeOK, UndoInsert, Leave, ByCaller
<1>6. \A u \in Users : user[u] # None => user'[u] # None
  BY <1>1, <1>3, <1>4, NoneIsNothing DEF Inv, TypeOK
<1>7. \A d \in Calls : CallOK(d)'
  BY <1>6, CallEnds DEF UndoInsert
<1>8. ASSUME NEW a \in Users, a = call[c].actor
       PROVE  Administrator(a) => Administrator(a)'
  BY <1>1, <1>2, <1>4, <1>8 DEF Inv, TypeOK, Administrator, Exists
<1>9. AdministratorsRemain'
  BY <1>1, <1>8, StatementByCaller DEF Inv, UndoInsert
<1> QED BY <1>5, <1>7, <1>9 DEF Inv

LEMMA SetFlagsStep ==
    ASSUME Inv, NEW c \in Calls, SetFlags(c)
    PROVE  Inv'
<1> DEFINE t == call[c].target
           q == call[c].request
           flags == Edited(user[t], [q EXCEPT !.status = "same"])
           set == IF Exists(t) THEN flags ELSE user[t]
<1>1. call[c] \in Call /\ t \in Users /\ q \in Request /\ call[c].actor \in Users
  BY DEF Inv, TypeOK, SetFlags, At, Call
<1>2. call[c].actor # t /\ user[t] \in Row
  BY <1>1 DEF Inv, TypeOK, SetFlags, At, CallOK
<1>3. set \in Row
  BY <1>1, <1>2, FlagsAreARow
<1>4. user' = [user EXCEPT ![t] = set]
  BY DEF SetFlags
<1>5. TypeOK'
  BY <1>1, <1>3, <1>4 DEF Inv, TypeOK, SetFlags, Leave, ByCaller
<1>6. \A u \in Users : user[u] # None => user'[u] # None
  BY <1>1, <1>3, <1>4, NoneIsNothing DEF Inv, TypeOK
<1>7. \A d \in Calls : CallOK(d)'
  BY <1>6, CallEnds DEF SetFlags
<1>8. ASSUME NEW a \in Users, a = call[c].actor
       PROVE  Administrator(a) => Administrator(a)'
  BY <1>1, <1>2, <1>4, <1>8 DEF Inv, TypeOK, Administrator, Exists
<1>9. AdministratorsRemain'
  BY <1>1, <1>8, StatementByCaller DEF Inv, SetFlags
<1> QED BY <1>5, <1>7, <1>9 DEF Inv

LEMMA RevokeSessionsStep ==
    ASSUME Inv, NEW c \in Calls, RevokeSessions(c)
    PROVE  Inv'
<1>1. TypeOK'
  BY DEF Inv, TypeOK, RevokeSessions, Leave
<1>2. \A d \in Calls : CallOK(d)'
  BY CallEnds DEF RevokeSessions
<1> QED BY <1>1, <1>2, RowsUntouched DEF Inv, RevokeSessions

\* Sessions and seed-user: nobody loses any rights.
LEMMA OtherStep ==
    ASSUME Inv, NEW u \in Users,
           OpenSession(u) \/ EndSession(u) \/ SeedUser(u) \/ Promote(u)
    PROVE  Inv'
<1>1. CASE OpenSession(u) \/ EndSession(u)
  <2>1. TypeOK'
    BY <1>1 DEF Inv, TypeOK, OpenSession, EndSession
  <2>2. \A c \in Calls : CallOK(c)'
    BY <1>1, CallsUntouched DEF OpenSession, EndSession
  <2> QED BY <1>1, <2>1, <2>2, RowsUntouched DEF Inv, OpenSession, EndSession
<1>2. CASE SeedUser(u) \/ Promote(u)
  <2>1. PICK row \in Row : /\ user' = [user EXCEPT ![u] = row]
                           /\ Administrator(u) =>
                                  row.status = "active" /\ row.admin /\ ~row.deleted
    <3>1. CASE SeedUser(u)
      <4>1. [status |-> "active", admin |-> FALSE, deleted |-> FALSE] \in Row
        BY DEF Row
      <4> QED BY <3>1, <4>1 DEF SeedUser, Administrator, Exists
    <3>2. CASE Promote(u)
      <4>1. user[u] \in Row
        BY <3>2 DEF Inv, TypeOK, Promote, Exists
      <4>2. [user[u] EXCEPT !.admin = TRUE] \in Row
        BY <4>1 DEF Row
      <4> QED BY <3>2, <4>1, <4>2 DEF Promote, Administrator, Exists, Row
    <3> QED BY <1>2, <3>1, <3>2
  <2>2. UNCHANGED <<signedIn, call, overtaken>>
    BY <1>2 DEF SeedUser, Promote
  <2>3. TypeOK'
    BY <2>1, <2>2 DEF Inv, TypeOK
  <2>4. \A w \in Users : user[w] # None => user'[w] # None
    BY <2>1, NoneIsNothing DEF Inv, TypeOK
  <2>5. \A w \in Users : Administrator(w) => Administrator(w)'
    BY <2>1, NoneIsNothing DEF Inv, TypeOK, Administrator, Exists
  <2>6. AdministratorsRemain'
    BY <2>2, <2>5 DEF Inv, AdministratorsRemain
  <2> QED BY <2>2, <2>3, <2>4, <2>6, CallsUntouched DEF Inv
<1> QED BY <1>1, <1>2

LEMMA NextInv == Inv /\ [Next]_vars => Inv'
<1> SUFFICES ASSUME Inv, [Next]_vars PROVE Inv'
  OBVIOUS
<1>1. CASE \E c \in Calls : Protected(c) \/ Handler(c)
  BY <1>1, ProtectedStep, UpdateUserStep, DeleteUserStep, RevokeSessionsStep,
     InsertUserStep, UndoInsertStep, SetFlagsStep DEF Handler
<1>2. CASE \E u \in Users : OpenSession(u) \/ EndSession(u) \/ SeedUser(u) \/ Promote(u)
  BY <1>2, OtherStep
<1>3. CASE UNCHANGED vars
  BY <1>3 DEF vars, Inv, TypeOK, CallOK, AdministratorsRemain, Administrator, Exists
<1> QED BY <1>1, <1>2, <1>3 DEF Next

LEMMA Invariance == Spec => []Inv
BY InitInv, NextInv, PTL DEF Spec

-----------------------------------------------------------------------------
(* The theorems.                                                           *)

\* Rows and calls are well typed for any number of users and calls: no handler
\* writes a status the table would refuse.
THEOREM TypeCorrect == Spec => []TypeOK
<1>1. Inv => TypeOK
  BY DEF Inv
<1> QED BY <1>1, Invariance, PTL

\* As long as nobody takes the rights of a caller between the check and the
\* statement and loses its own that way, an administrator remains.
THEOREM SomebodyAdministers == Spec => []AdministratorsRemain
<1>1. Inv => AdministratorsRemain
  BY DEF Inv
<1> QED BY <1>1, Invariance, PTL

-----------------------------------------------------------------------------
(* Calls that do not overlap.                                              *)

\* A caller that has passed the check is an administrator until its call ends, and
\* no caller was ever overtaken.
CallersAreCurrent ==
    /\ ~overtaken
    /\ \A c \in Calls : call[c] # None /\ call[c].pc \in {"guard", "flags", "undo"} =>
          Administrator(call[c].actor)

\* One statement of the only call there is: the caller keeps its rights, and what
\* is taken is taken by an administrator.
LEMMA OnlyCallersStatement ==
    ASSUME \A b, c \in Calls : b = c, CallersAreCurrent,
           NEW c \in Calls, call[c] # None, call[c].pc \in {"guard", "flags", "undo"},
           NEW a \in Users, a = call[c].actor,
           ByCaller(c), Administrator(a) => Administrator(a)',
           call'[c] = None \/ call'[c].actor = a
    PROVE  CallersAreCurrent'
<1>1. Administrator(a) /\ ~overtaken
  BY DEF CallersAreCurrent
<1>2. ~overtaken'
  BY <1>1 DEF ByCaller
<1>3. ASSUME NEW b \in Calls, call'[b] # None PROVE call'[b].actor = a
  BY <1>3
<1> QED BY <1>1, <1>2, <1>3 DEF CallersAreCurrent, Administrator, Exists

\* What updateUser, lockUser, unlockUser, deleteUser and createUser do to others,
\* or what the guards leave of it when the target is the caller.
LEMMA CallersKeepTheirRights ==
    ASSUME Inv, NEW c \in Calls,
           UpdateUser(c) \/ DeleteUser(c) \/ UndoInsert(c) \/ SetFlags(c),
           NEW a \in Users, a = call[c].actor, Administrator(a)
    PROVE  Administrator(a)'
<1> DEFINE t == call[c].target
<1>1. call[c] \in Call /\ t \in Users /\ call[c].request \in Request
  BY DEF Inv, TypeOK, UpdateUser, DeleteUser, UndoInsert, SetFlags, At, Call
<1>2. \A u \in Users : u # t => user'[u] = user[u]
  BY <1>1 DEF Inv, TypeOK, UpdateUser, DeleteUser, UndoInsert, SetFlags
<1>3. CASE a # t
  BY <1>1, <1>2, <1>3 DEF Administrator, Exists
<1>4. CASE a = t
  <2>1. ~UndoInsert(c) /\ ~SetFlags(c)
    BY <1>4 DEF Inv, CallOK, UndoInsert, SetFlags, At
  <2>2. ~DeleteUser(c)
    BY <1>1, <1>4 DEF DeleteUser, HurtsItself, Kind, Request
  <2>3. UpdateUser(c)
    BY <2>1, <2>2
  <2>4. /\ user'[t] = Edited(user[t], call[c].request) /\ Storable(call[c].request)
        /\ user[t] \in Row
        /\ call[c].request.status # "disabled" /\ call[c].request.rights # "remove"
    BY <1>1, <1>4, <2>3 DEF Inv, TypeOK, UpdateUser, Exists, HurtsItself
  <2>5. PICK q \in Request : q = call[c].request
    BY <1>1
  <2> HIDE DEF t
  <2>6. /\ user'[a] \in Row /\ user'[a].deleted = user[a].deleted
        /\ user'[a].status = "active" /\ user'[a].admin
    BY <1>4, <2>4, <2>5, EditedIsARow DEF Administrator
  <2> QED BY <2>6, NoneIsNothing DEF Administrator, Exists
<1> QED BY <1>3, <1>4

\* As long as calls of the admin API do not overlap, somebody administers the
\* installation, whatever they ask for and whatever fails half way: only two
\* callers who remove each other can end that (protected, updateUser, lockUser,
\* deleteUser, createUser).
THEOREM CallsOneByOneKeepAnAdministrator ==
    ASSUME \A c, d \in Calls : c = d
    PROVE  Spec => [](\E u \in Users : Administrator(u))
<1>1. Init => CallersAreCurrent
  BY DEF Init, CallersAreCurrent
<1>2. Inv /\ CallersAreCurrent /\ [Next]_vars => CallersAreCurrent'
  <2> SUFFICES ASSUME Inv, CallersAreCurrent, [Next]_vars PROVE CallersAreCurrent'
    OBVIOUS
  <2> USE DEF Inv
  <2>1. ASSUME NEW c \in Calls, UpdateUser(c) \/ DeleteUser(c) \/ UndoInsert(c) \/ SetFlags(c)
        PROVE  CallersAreCurrent'
    <3>1. /\ call[c] # None /\ call[c].pc \in {"guard", "flags", "undo"} /\ ByCaller(c)
          /\ call'[c] = None \/ call'[c] = [call[c] EXCEPT !.pc = "revoke"]
      BY <2>1 DEF TypeOK, UpdateUser, DeleteUser, UndoInsert, SetFlags, At, Continue, Leave
    <3>2. call[c] \in Call
      BY <3>1 DEF TypeOK
    <3>3. PICK a \in Users : a = call[c].actor
      BY <3>2 DEF Call
    <3>4. call'[c] = None \/ call'[c].actor = a
      BY <3>1, <3>2, <3>3 DEF Call
    <3>5. Administrator(a) => Administrator(a)'
      BY <2>1, <3>3, CallersKeepTheirRights
    <3> QED BY <3>1, <3>3, <3>4, <3>5, OnlyCallersStatement
  <2>2. ASSUME NEW c \in Calls, Protected(c) \/ RevokeSessions(c) PROVE CallersAreCurrent'
    <3>1. UNCHANGED <<user, overtaken>>
      BY <2>2 DEF Protected, Receive, LoadActor, EndCall, RevokeSessions
    <3>2. CASE LoadActor(c)
      <4>1. call[c] \in Call /\ Administrator(call[c].actor)
        BY <3>2 DEF TypeOK, LoadActor, At
      <4>2. call'[c].actor = call[c].actor
        BY <3>2, <4>1 DEF TypeOK, LoadActor, Continue, Call
      <4> QED BY <3>1, <4>1, <4>2 DEF CallersAreCurrent, Administrator, Exists
    <3>3. CASE \E u, t \in Users, q \in Asked : Receive(c, u, q, t)
      <4>1. call'[c].pc = "actor"
        BY <3>3 DEF TypeOK, Receive
      <4> QED BY <3>1, <4>1 DEF CallersAreCurrent
    <3>4. CASE EndCall(c) \/ RevokeSessions(c)
      <4>1. call'[c] = None
        BY <3>4 DEF TypeOK, EndCall, RevokeSessions, At, Leave
      <4> QED BY <3>1, <4>1 DEF CallersAreCurrent
    <3> QED BY <2>2, <3>2, <3>3, <3>4 DEF Protected
  <2>3. ASSUME NEW c \in Calls, InsertUser(c) PROVE CallersAreCurrent'
    <3>1. /\ call[c] \in Call /\ Administrator(call[c].actor)
          /\ \E pc \in {"flags", "undo"} : call'[c] = [call[c] EXCEPT !.pc = pc]
      BY <2>3 DEF TypeOK, InsertUser, At, Continue, CallersAreCurrent
    <3>2. PICK a \in Users : a = call[c].actor /\ a = call'[c].actor
      BY <3>1 DEF Call
    <3>3. user'[a] = user[a]
      BY <2>3, <3>1, <3>2 DEF TypeOK, InsertUser, Administrator, Exists
    <3>4. Administrator(a)'
      BY <3>1, <3>2, <3>3 DEF Administrator, Exists
    <3>5. ASSUME NEW b \in Calls PROVE call'[b].actor = a
      BY <3>2
    <3> QED BY <2>3, <3>4, <3>5 DEF CallersAreCurrent, InsertUser, Administrator, Exists
  <2>4. ASSUME NEW u \in Users, OpenSession(u) \/ EndSession(u) \/ SeedUser(u) \/ Promote(u)
        PROVE  CallersAreCurrent'
    <3>1. UNCHANGED <<call, overtaken>>
      BY <2>4 DEF OpenSession, EndSession, SeedUser, Promote
    <3>2. \A w \in Users : Administrator(w) => Administrator(w)'
      <4>1. CASE OpenSession(u) \/ EndSession(u)
        BY <4>1 DEF OpenSession, EndSession, Administrator, Exists
      <4>2. CASE SeedUser(u)
        BY <4>2 DEF TypeOK, SeedUser, Administrator, Exists
      <4>3. CASE Promote(u)
        <5>1. user[u] \in Row
          BY <4>3 DEF TypeOK, Promote, Exists
        <5>2. [user[u] EXCEPT !.admin = TRUE] \in Row
          BY <5>1 DEF Row
        <5>3. \A w \in Users : user'[w] = IF w = u THEN [user[u] EXCEPT !.admin = TRUE]
                                         ELSE user[w]
          BY <4>3 DEF TypeOK, Promote
        <5> QED BY <5>1, <5>2, <5>3, NoneIsNothing DEF Administrator, Exists, Row
      <4> QED BY <2>4, <4>1, <4>2, <4>3
    <3>3. \A c \in Calls : call[c] # None => call[c].actor \in Users
      BY DEF TypeOK, Call
    <3> QED BY <3>1, <3>2, <3>3 DEF CallersAreCurrent, Administrator, Exists
  <2>5. CASE UNCHANGED vars
    BY <2>5 DEF vars, CallersAreCurrent, Administrator, Exists
  <2> QED BY <2>1, <2>2, <2>3, <2>4, <2>5 DEF Next, Handler
<1>3. Inv /\ CallersAreCurrent => \E u \in Users : Administrator(u)
  BY DEF Inv, AdministratorsRemain, CallersAreCurrent
<1> QED BY <1>1, <1>2, <1>3, Invariance, PTL DEF Spec

(***************************************************************************)
(* Part II: Housekeeping.                                                  *)
(***************************************************************************)

-----------------------------------------------------------------------------
(* Least and greatest.                                                     *)

LEMMA MaxOfTwo ==
    ASSUME NEW a \in Int, NEW b \in Int
    PROVE  /\ Max({a, b}) \in {a, b}
           /\ Max({a, b}) >= a /\ Max({a, b}) >= b
<1>1. \E x \in {a, b} : \A y \in {a, b} : x >= y
  OBVIOUS
<1> QED BY <1>1 DEF Max

\* Some month of a set of months is the first: the smallest of its subsets
\* without one would lose it by losing an element.
LEMMA MinIsMember ==
    ASSUME NEW S \in SUBSET Nat, IsFiniteSet(S), S # {}
    PROVE  Min(S) \in S
<1> DEFINE HasMin(U) == \E x \in U : \A y \in U : x <= y
           Bad == {U \in FiniteSubsetsOf(S) : U # {} /\ ~HasMin(U)}
<1>1. ASSUME Bad # {} PROVE FALSE
  <2>1. PICK U \in Bad : \A V \in Bad : ~(<<V, U>> \in StrictSubsetOrdering(S))
    <3> HIDE DEF Bad
    <3>1. Bad \subseteq FiniteSubsetsOf(S)
      BY DEF Bad
    <3> QED BY <1>1, <3>1, FS_StrictSubsetOrderingWellFounded, WFMin
  <2>2. PICK x \in U : TRUE
    OBVIOUS
  <2> DEFINE V == U \ {x}
  <2>3. V \in FiniteSubsetsOf(S) /\ <<V, U>> \in StrictSubsetOrdering(S)
    BY <2>2, FS_Subset DEF FiniteSubsetsOf, StrictSubsetOrdering
  <2>4. V = {} \/ HasMin(V)
    BY <2>1, <2>3
  <2>5. U \subseteq Nat
    BY DEF FiniteSubsetsOf
  <2> QED BY <2>2, <2>4, <2>5
<1>2. S \in FiniteSubsetsOf(S)
  BY DEF FiniteSubsetsOf
<1>3. HasMin(S)
  BY <1>1, <1>2
<1> QED BY <1>3 DEF Min

-----------------------------------------------------------------------------
(* Types.                                                                  *)

HouseInv == HousekeepingTypeOK /\ HousekeepingInv

LEMMA FirstDropIsDropped ==
    ASSUME HousekeepingTypeOK, prune # Idle, prune.drop # {}
    PROVE  Min(prune.drop) \in prune.drop
<1>1. prune.drop \subseteq Months
  BY DEF HousekeepingTypeOK, Prune
<1>2. Months \subseteq Nat /\ IsFiniteSet(Months)
  BY SizesAreNaturals, FS_Interval DEF Months
<1>3. IsFiniteSet(prune.drop)
  BY <1>1, <1>2, FS_Subset
<1> QED BY <1>1, <1>2, <1>3, MinIsMember

\* The first statement, and the end.
LEMMA SweepsAreFinite ==
    Len(SweepOrder) \in Nat /\ 0 \in 0 .. Len(SweepOrder) + 1 /\ 1 \in 0 .. Len(SweepOrder) + 1
<1>1. Len(SweepOrder) \in Nat
  BY TablesComeFirst
<1> QED BY <1>1

\* An error leads to a later statement of the sweep, or to its partitions.
LEMMA AfterErrorInSweep ==
    ASSUME sweep \in DOMAIN SweepOrder
    PROVE  AfterError \in 0 .. Len(SweepOrder) + 1 /\ sweep + 1 \in 0 .. Len(SweepOrder) + 1
BY TablesComeFirst DEF AfterError

LEMMA SweepTypes ==
    ASSUME HousekeepingTypeOK,
           \/ StartSweep \/ DeleteExpired \/ DeleteFails \/ TimeOut
           \/ \E t \in Tables : RowsExpire(t)
    PROVE  HousekeepingTypeOK' /\ UNCHANGED <<month, ensure, audit, pruning>>
<1> USE DEF HousekeepingTypeOK, audit, pruning, Fault
<1>1. CASE StartSweep
  BY <1>1, SweepsAreFinite DEF StartSweep
<1>2. CASE DeleteExpired
  BY <1>2, AfterErrorInSweep DEF DeleteExpired, Deleting
<1>3. CASE DeleteFails
  BY <1>3, AfterErrorInSweep, SizesAreNaturals DEF DeleteFails, Deleting
<1>4. CASE TimeOut
  BY <1>4, SizesAreNaturals DEF TimeOut
<1>5. CASE \E t \in Tables : RowsExpire(t)
  BY <1>5 DEF RowsExpire
<1> QED BY <1>1, <1>2, <1>3, <1>4, <1>5

LEMMA PartitionTypes ==
    ASSUME HouseInv, Start \/ SweepPartitions \/ CreatePartition \/ EnsureFails
    PROVE  HousekeepingTypeOK'
<1> USE SizesAreNaturals DEF HouseInv, HousekeepingTypeOK, audit, pruning
<1>1. CASE Start \/ SweepPartitions
  <2>1. [from |-> month, next |-> month] \in Ensure
    BY DEF Ensure, Months
  <2> QED BY <1>1, <2>1 DEF Start, SweepPartitions
<1>2. CASE CreatePartition
  <2>1. ensure \in Ensure /\ ensure.next \in Months /\ ensure.from \in 0 .. MaxMonth
    BY <1>2 DEF CreatePartition, Ensure
  <2>2. Max({ensured, ensure.from}) \in -Ahead .. MaxMonth
    <3>1. ensured \in Int /\ ensure.from \in Int
      BY <2>1
    <3>2. Max({ensured, ensure.from}) \in {ensured, ensure.from}
      BY <3>1, MaxOfTwo
    <3> QED BY <2>1, <3>2
  <2>3. ensure.next + 1 < ensure.from + Ahead => ensure.next + 1 \in Months
    BY <2>1 DEF Months
  <2>4. ensure.next + 1 < ensure.from + Ahead => [ensure EXCEPT !.next = @ + 1] \in Ensure
    BY <2>1, <2>3 DEF Ensure
  <2>5. ensure' \in Ensure \cup {Idle} /\ ensured' \in -Ahead .. MaxMonth
    BY <1>2, <2>2, <2>4 DEF CreatePartition, Finish
  <2> QED BY <1>2, <2>1, <2>5, SweepsAreFinite DEF CreatePartition, Finish
<1>3. CASE EnsureFails
  BY <1>3, SweepsAreFinite DEF EnsureFails, Finish, Fault
<1> QED BY <1>1, <1>2, <1>3

LEMMA AroundTypes ==
    ASSUME HousekeepingTypeOK,
           \/ LogEvent \/ DropPartition \/ EndPrune \/ NextMonth \/ Crash
           \/ \E m \in 0 .. MaxMonth : ListPartitions(m)
    PROVE  HousekeepingTypeOK'
<1> USE SizesAreNaturals DEF HousekeepingTypeOK, audit, pruning
<1>1. CASE LogEvent
  <2>1. month \in Months
    BY DEF Months
  <2>2. stored' \subseteq Months /\ overflow' \subseteq Months /\ logged' \subseteq Months
    BY <1>1, <2>1 DEF LogEvent
  <2> QED BY <1>1, <2>2 DEF LogEvent
<1>2. CASE DropPartition
  <2>1. prune \in Prune /\ [prune EXCEPT !.drop = @ \ {Min(prune.drop)}] \in Prune
    BY <1>2 DEF DropPartition, Prune
  <2> QED BY <1>2, <2>1 DEF DropPartition
<1>3. CASE EndPrune \/ NextMonth
  BY <1>3 DEF EndPrune, NextMonth
<1>4. CASE Crash
  BY <1>4, SweepsAreFinite DEF Crash, Fault
<1>5. ASSUME NEW b \in 0 .. MaxMonth, ListPartitions(b) PROVE HousekeepingTypeOK'
  <2>1. [before |-> b, drop |-> {m \in partition : m < b}] \in Prune
    BY DEF Prune
  <2>2. Max({cutoff, b}) \in 0 .. MaxMonth
    <3>1. cutoff \in Int /\ b \in Int
      OBVIOUS
    <3>2. Max({cutoff, b}) \in {cutoff, b}
      BY <3>1, MaxOfTwo
    <3> QED BY <3>2
  <2> QED BY <1>5, <2>1, <2>2 DEF ListPartitions
<1> QED BY <1>1, <1>2, <1>3, <1>4, <1>5

-----------------------------------------------------------------------------
(* The invariant.                                                          *)

\* A step that keeps partitions and events, cut-off and month, and at most
\* ends the calls under way.
LEMMA CallsEndAtMost ==
    ASSUME HousekeepingInv, UNCHANGED <<month, audit, cutoff>>,
           ensure' \in {ensure, Idle}, prune' \in {prune, Idle}
    PROVE  HousekeepingInv'
<1> USE DEF HousekeepingInv, audit
<1>1. RecentEventsStay' /\ MonthsCovered'
  BY DEF RecentEventsStay, MonthsCovered
<1>2. PrunesBelowCutoff'
  BY DEF PrunesBelowCutoff
<1>3. CreatedSoFar'
  BY DEF CreatedSoFar
<1> QED BY <1>1, <1>2, <1>3

LEMMA BeginEnsureKeeps ==
    ASSUME HouseInv, Start \/ SweepPartitions PROVE HousekeepingInv'
<1> USE SizesAreNaturals DEF HouseInv, HousekeepingInv, audit, pruning
<1>1. ensure' = [from |-> month, next |-> month] /\ UNCHANGED <<month, audit, pruning>>
  BY DEF Start, SweepPartitions
<1>2. CreatedSoFar'
  BY <1>1 DEF CreatedSoFar, HousekeepingTypeOK, Months
<1> QED BY <1>1, <1>2 DEF RecentEventsStay, MonthsCovered, PrunesBelowCutoff

LEMMA CreatePartitionKeeps ==
    ASSUME HouseInv, CreatePartition PROVE HousekeepingInv'
<1> USE SizesAreNaturals DEF HouseInv, HousekeepingInv
<1>1. /\ ensure # Idle /\ ensure \in Ensure
      /\ partition' = partition \cup {ensure.next}
      /\ UNCHANGED <<month, stored, overflow, logged, pruning>>
  BY DEF CreatePartition, HousekeepingTypeOK
<1>2. /\ ensure.from <= month /\ ensure.from \in 0 .. MaxMonth /\ ensure.next \in Months
      /\ ensure.from <= ensure.next /\ ensure.next < ensure.from + Ahead
      /\ \A m \in Months :
            month <= m /\ cutoff <= m /\ ensure.from <= m /\ m <= ensure.next
               => m \in partition'
  BY <1>1 DEF CreatedSoFar, Ensure, Months, HousekeepingTypeOK
<1>3. RecentEventsStay' /\ PrunesBelowCutoff'
  BY <1>1 DEF RecentEventsStay, PrunesBelowCutoff, pruning
<1>4. CASE ensure.next + 1 < ensure.from + Ahead
  <2>1. ensure' = [ensure EXCEPT !.next = @ + 1] /\ ensured' = ensured
    BY <1>4 DEF CreatePartition
  <2>2. ensure'.from = ensure.from /\ ensure'.next = ensure.next + 1
    BY <1>1, <2>1 DEF Ensure
  <2>3. CreatedSoFar'
    BY <1>1, <1>2, <1>4, <2>2 DEF CreatedSoFar, Months, pruning
  <2> QED BY <1>1, <1>3, <2>1, <2>3 DEF MonthsCovered, pruning
<1>5. CASE ~(ensure.next + 1 < ensure.from + Ahead)
  <2>1. ensure' = Idle /\ ensured' = Max({ensured, ensure.from})
    BY <1>5 DEF CreatePartition, Finish
  <2>2. ensured' \in {ensured, ensure.from}
    <3>1. ensured \in Int /\ ensure.from \in Int
      BY <1>2 DEF HousekeepingTypeOK
    <3> QED BY <2>1, <3>1, MaxOfTwo
  <2>3. MonthsCovered'
    <3>1. CASE ensured' = ensured
      BY <1>1, <3>1 DEF MonthsCovered, pruning
    <3>2. CASE ensured' = ensure.from
      <4> SUFFICES ASSUME NEW m \in Months, month <= m, cutoff <= m, m < ensure.from + Ahead
                   PROVE  m \in partition'
        BY <1>1, <3>2 DEF MonthsCovered, pruning
      <4>1. ensure.from <= m /\ m <= ensure.next
        BY <1>2, <1>5 DEF Months, HousekeepingTypeOK
      <4> QED BY <1>2, <4>1
    <3> QED BY <2>2, <3>1, <3>2
  <2> QED BY <1>3, <2>1, <2>3 DEF CreatedSoFar
<1> QED BY <1>4, <1>5

LEMMA LogEventKeeps ==
    ASSUME HouseInv, LogEvent PROVE HousekeepingInv'
<1> USE DEF HouseInv, HousekeepingInv, pruning
<1>1. RecentEventsStay'
  BY DEF LogEvent, RecentEventsStay
<1> QED BY <1>1 DEF LogEvent, CreatedSoFar, MonthsCovered, PrunesBelowCutoff

LEMMA ListPartitionsKeeps ==
    ASSUME HouseInv, NEW b \in 0 .. MaxMonth, ListPartitions(b) PROVE HousekeepingInv'
<1> USE SizesAreNaturals DEF HouseInv, HousekeepingInv
<1>1. /\ prune' = [before |-> b, drop |-> {m \in partition : m < b}]
      /\ cutoff' = Max({cutoff, b})
      /\ UNCHANGED <<month, partition, stored, overflow, logged, ensured, ensure>>
  BY DEF ListPartitions, audit
<1>2. cutoff' >= cutoff /\ cutoff' >= b /\ cutoff' \in Int /\ cutoff \in Int /\ b \in Int
  <2>1. cutoff \in Int /\ b \in Int
    BY DEF HousekeepingTypeOK
  <2>2. Max({cutoff, b}) \in {cutoff, b} /\ Max({cutoff, b}) >= cutoff /\ Max({cutoff, b}) >= b
    BY <2>1, MaxOfTwo
  <2> QED BY <1>1, <2>1, <2>2
<1>3. PrunesBelowCutoff'
  BY <1>1, <1>2 DEF PrunesBelowCutoff
<1>4. RecentEventsStay'
  BY <1>1, <1>2 DEF RecentEventsStay, HousekeepingTypeOK, Months
<1>5. CreatedSoFar'
  BY <1>1, <1>2 DEF CreatedSoFar, Months
<1>6. MonthsCovered'
  BY <1>1, <1>2 DEF MonthsCovered, Months
<1> QED BY <1>3, <1>4, <1>5, <1>6

\* The month of the partition is before some cut-off.
LEMMA DropPartitionKeeps ==
    ASSUME HouseInv, DropPartition PROVE HousekeepingInv'
<1> USE SizesAreNaturals DEF HouseInv, HousekeepingInv
<1> DEFINE d == Min(prune.drop)
<1>1. prune \in Prune /\ prune # Idle /\ d \in prune.drop /\ d \in Months
  BY FirstDropIsDropped DEF DropPartition, HousekeepingTypeOK, Prune
<1>2. d < cutoff
  BY <1>1 DEF PrunesBelowCutoff, HousekeepingTypeOK, Prune, Months
<1>3. /\ partition' = partition \ {d} /\ stored' = stored \ {d}
      /\ prune' = [prune EXCEPT !.drop = @ \ {d}]
      /\ UNCHANGED <<month, overflow, logged, ensured, ensure, cutoff>>
  BY DEF DropPartition
<1> HIDE DEF d
<1>4. prune'.before = prune.before /\ prune'.drop = prune.drop \ {d}
  BY <1>1, <1>3 DEF Prune
<1>5. RecentEventsStay'
  BY <1>1, <1>2, <1>3 DEF RecentEventsStay, HousekeepingTypeOK, Months
<1>6. PrunesBelowCutoff'
  BY <1>1, <1>3, <1>4 DEF PrunesBelowCutoff
<1>7. CreatedSoFar'
  BY <1>1, <1>2, <1>3 DEF CreatedSoFar, HousekeepingTypeOK, Months
<1>8. MonthsCovered'
  BY <1>1, <1>2, <1>3 DEF MonthsCovered, HousekeepingTypeOK, Months
<1> QED BY <1>5, <1>6, <1>7, <1>8

LEMMA NextMonthKeeps ==
    ASSUME HouseInv, NextMonth PROVE HousekeepingInv'
<1> USE SizesAreNaturals DEF HouseInv, HousekeepingInv, audit, pruning
<1>1. month' = month + 1 /\ month \in Nat /\ UNCHANGED <<ensure, audit, pruning>>
  BY DEF NextMonth, HousekeepingTypeOK
<1>2. RecentEventsStay'
  BY <1>1 DEF RecentEventsStay
<1>3. PrunesBelowCutoff'
  BY <1>1 DEF PrunesBelowCutoff, HousekeepingTypeOK, Prune
<1>4. CreatedSoFar'
  BY <1>1 DEF CreatedSoFar, HousekeepingTypeOK, Ensure, Months
<1>5. MonthsCovered'
  BY <1>1 DEF MonthsCovered, Months
<1> QED BY <1>2, <1>3, <1>4, <1>5

LEMMA HouseInvariance == HousekeepingSpec => []HouseInv
<1>1. HousekeepingInit => HouseInv
  <2> SUFFICES ASSUME HousekeepingInit PROVE HouseInv
    OBVIOUS
  <2>1. HousekeepingTypeOK
    <3>1. -Ahead \in -Ahead .. MaxMonth /\ 0 \in 0 .. MaxMonth /\ 0 \in 0 .. MaxFaults
      BY SizesAreNaturals
    <3> QED BY <3>1, SweepsAreFinite DEF HousekeepingInit, HousekeepingTypeOK
  <2>2. HousekeepingInv
    BY SizesAreNaturals DEF HousekeepingInit, HousekeepingInv, RecentEventsStay, PrunesBelowCutoff,
       CreatedSoFar, MonthsCovered, Months
  <2> QED BY <2>1, <2>2 DEF HouseInv
<1>2. HouseInv /\ [HousekeepingNext]_housekeepingVars => HouseInv'
  <2> SUFFICES ASSUME HouseInv, [HousekeepingNext]_housekeepingVars PROVE HouseInv'
    OBVIOUS
  <2> USE DEF HouseInv
  <2>1. CASE \/ StartSweep \/ DeleteExpired \/ DeleteFails \/ TimeOut
             \/ \E t \in Tables : RowsExpire(t)
    BY <2>1, SweepTypes, CallsEndAtMost DEF pruning
  <2>2. CASE Start \/ SweepPartitions
    BY <2>2, PartitionTypes, BeginEnsureKeeps
  <2>3. CASE CreatePartition
    BY <2>3, PartitionTypes, CreatePartitionKeeps
  <2>4. CASE EnsureFails
    <3>1. HousekeepingTypeOK'
      BY <2>4, PartitionTypes
    <3> QED BY <2>4, <3>1, CallsEndAtMost DEF EnsureFails, Finish, pruning
  <2>5. CASE Crash \/ EndPrune
    <3>1. HousekeepingTypeOK'
      BY <2>5, AroundTypes
    <3> QED BY <2>5, <3>1, CallsEndAtMost DEF Crash, EndPrune, pruning
  <2>6. CASE LogEvent
    BY <2>6, AroundTypes, LogEventKeeps
  <2>7. ASSUME NEW b \in 0 .. MaxMonth, ListPartitions(b) PROVE HouseInv'
    BY <2>7, AroundTypes, ListPartitionsKeeps
  <2>8. CASE DropPartition
    BY <2>8, AroundTypes, DropPartitionKeeps
  <2>9. CASE NextMonth
    BY <2>9, AroundTypes, NextMonthKeeps
  <2>10. CASE UNCHANGED housekeepingVars
    <3>1. HousekeepingTypeOK'
      BY <2>10 DEF housekeepingVars, HousekeepingTypeOK
    <3> QED BY <2>10, <3>1, CallsEndAtMost DEF housekeepingVars, audit
  <2> QED BY <2>1, <2>2, <2>3, <2>4, <2>5, <2>6, <2>7, <2>8, <2>9, <2>10
    DEF HousekeepingNext, SweepStep, PartitionStep
<1> QED BY <1>1, <1>2, PTL DEF HousekeepingSpec

-----------------------------------------------------------------------------
(* The theorems.                                                           *)

\* The sweep never leaves its list of statements, whichever of them fails, and
\* months and calls stay in their ranges.
THEOREM HousekeepingTypeCorrect == HousekeepingSpec => []HousekeepingTypeOK
<1>1. HouseInv => HousekeepingTypeOK
  BY DEF HouseInv
<1> QED BY <1>1, HouseInvariance, PTL

\* Whatever audit-prune, the sweeps and the handlers do to each other, an event
\* of the month of the latest cut-off or of a later one is still there.
THEOREM RecentEventsAreKept == HousekeepingSpec => []RecentEventsStay
<1>1. HouseInv => RecentEventsStay
  BY DEF HouseInv, HousekeepingInv
<1> QED BY <1>1, HouseInvariance, PTL

\* One call that goes through covers the running month for Ahead months, for
\* any number of failed calls after it and of prunes whose cut-off had come.
THEOREM PartitionsAreAhead == HousekeepingSpec => []PartitionsStayAhead
<1>1. HouseInv => PartitionsStayAhead
  BY SizesAreNaturals
  DEF HouseInv, HousekeepingInv, HousekeepingTypeOK, MonthsCovered, PartitionsStayAhead, Months
<1> QED BY <1>1, HouseInvariance, PTL

\* Whenever a server serves, some call that went through covers this month, and
\* nobody has pruned it.
RunsKeepUp == server = "up" => month < ensured + Ahead /\ cutoff <= month

NothingSlipped == overflow = {}

\* What the comments of EnsureAuditLogPartitions say of a missed run, that the
\* next one catches it, holds as long as one in Ahead months goes through and no
\* operator prunes months that are not over: then no event slips into the default partition, and no call is refused the
\* partition it is at.  HousekeepingClaims shows that it does not hold beyond.
THEOREM MissedRunsAreCaughtInTime ==
    HousekeepingSpec /\ []RunsKeepUp => [](NothingSlipped /\ ~Refused(ensure.next))
<1>1. HousekeepingInit => NothingSlipped
  BY DEF HousekeepingInit, NothingSlipped
<1>2. HouseInv /\ RunsKeepUp /\ NothingSlipped /\ [HousekeepingNext]_housekeepingVars
         => NothingSlipped'
  <2> SUFFICES ASSUME HouseInv, RunsKeepUp, overflow = {}, [HousekeepingNext]_housekeepingVars
               PROVE  overflow' = {}
    BY DEF NothingSlipped
  <2>1. CASE LogEvent
    <3>1. month \in Months /\ ensured \in Int /\ Ahead \in Nat
      BY SizesAreNaturals DEF HouseInv, HousekeepingTypeOK, Months
    <3>2. month < ensured + Ahead /\ cutoff <= month
      BY <2>1 DEF LogEvent, RunsKeepUp
    <3>3. month <= month
      BY <3>1 DEF Months
    <3>4. month \in partition
      BY <3>1, <3>2, <3>3 DEF HouseInv, HousekeepingInv, MonthsCovered
    <3> QED BY <2>1, <3>4 DEF LogEvent
  <2>2. CASE UNCHANGED housekeepingVars
    BY <2>2 DEF housekeepingVars, audit
  <2> QED
    BY <2>1, <2>2
    DEF HousekeepingNext, SweepStep, PartitionStep, Start, StartSweep, DeleteExpired, DeleteFails,
        SweepPartitions, TimeOut, CreatePartition, EnsureFails, RowsExpire, ListPartitions,
        DropPartition, EndPrune, NextMonth, Crash, audit
<1>3. NothingSlipped => ~Refused(ensure.next)
  BY DEF NothingSlipped, Refused
<1> QED BY <1>1, <1>2, <1>3, HouseInvariance, PTL DEF HousekeepingSpec
=============================================================================

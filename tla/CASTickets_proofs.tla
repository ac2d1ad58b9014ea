--------------------------- MODULE CASTickets_proofs ---------------------------
(***************************************************************************)
(* Proofs about CAS service tickets, for any number of sessions, tickets,  *)
(* services, URLs and concurrent validations.                              *)
(***************************************************************************)
EXTENDS CASTickets, TLAPS

Inv == TypeOK /\ TicketInv

\* What a service is told is a set of attributes.
LEMMA ReleasesPolicies ==
    ASSUME TypeOK, NEW c \in Services \cup {None}, c # None => service[c] # None
    PROVE  Releases(c) \in Policies
BY DEF Releases, Policies, TypeOK, ServiceRow

\* The steps of the login handlers keep the types.
LEMMA LoginTypes ==
    ASSUME TypeOK, NEW i \in Issuers, LoginStep(i) PROVE TypeOK'
<1>1. ASSUME NEW s \in Sessions, NEW u \in Urls, ResolveService(i, s, u) PROVE TypeOK'
  BY <1>1 DEF ResolveService, TypeOK, IssueReq
<1>2. ASSUME NEW t \in Tickets, IssueServiceTicket(i, t) PROVE TypeOK'
  <2>1. [status |-> "issued", session |-> issue[i].session, url |-> issue[i].url] \in TicketRow
    BY <1>2 DEF IssueServiceTicket, TypeOK, IssueReq, TicketRow
  <2> QED
    BY <1>2, <2>1 DEF IssueServiceTicket, TypeOK
<1>3. CASE LeaveLogin(i)
  BY <1>3 DEF LeaveLogin, TypeOK
<1> QED
  BY <1>1, <1>2, <1>3 DEF LoginStep

\* The steps of a validation keep the types.
LEMMA ValidationTypes ==
    ASSUME TypeOK, NEW v \in Validations, ValidationStep(v) PROVE TypeOK'
<1>1. ASSUME NEW t \in Tickets, NEW u \in Urls, ConsumeTicket(v, t, u) PROVE TypeOK'
  <2>1. ticket' \in [Tickets -> TicketRow \cup {None}]
    BY <1>1 DEF ConsumeTicket, TypeOK, TicketRow
  <2>2. [pc |-> IF Consumable(t) /\ ticket[t].url = Normalize[u] THEN "session" ELSE "refused",
         ticket |-> t, url |-> u, live |-> session[ticket[t].session] = "live",
         found |-> None, released |-> {}] \in Validation
    BY DEF Validation, Policies
  <2> QED
    BY <1>1, <2>1, <2>2 DEF ConsumeTicket, TypeOK
<1>2. CASE CheckSession(v) \/ CheckUser(v) \/ FailValidation(v)
  <2>1. validation[v] \in Validation
    BY <1>2 DEF CheckSession, CheckUser, FailValidation, At, TypeOK
  <2>2. /\ \E pc \in {"user", "refused", "policy"} :
              validation' = [validation EXCEPT ![v].pc = pc]
        /\ UNCHANGED <<session, userDeleted, service, ticket, issue>>
    BY <1>2 DEF CheckSession, CheckUser, FailValidation
  <2> QED
    BY <2>1, <2>2 DEF TypeOK, Validation
<1>3. CASE Answer(v)
  <2>1. validation[v] \in Validation
    BY <1>3 DEF Answer, At, TypeOK
  <2>2. PICK c \in Services \cup {None} :
            /\ c # None => service[c] # None
            /\ validation' = [validation EXCEPT ![v].pc = "accepted",
                                 ![v].found = c, ![v].released = Releases(c)]
    BY <1>3, NoneIsNoRow DEF Answer, Found, Matching
  <2>3. Releases(c) \in Policies
    BY <2>2, ReleasesPolicies
  <2>4. validation' \in [Validations -> Validation \cup {None}]
    BY <2>1, <2>2, <2>3 DEF TypeOK, Validation
  <2> QED
    BY <1>3, <2>4 DEF Answer, TypeOK
<1> QED
  BY <1>1, <1>2, <1>3 DEF ValidationStep

\* Everything around the handlers keeps the types.
LEMMA OtherTypes == ASSUME TypeOK, OtherStep PROVE TypeOK'
<1>1. ASSUME NEW s \in Sessions,
             OpenSession(s) \/ EndSession(s, "revoked") \/ EndSession(s, "expired")
      PROVE  TypeOK'
  BY <1>1 DEF OpenSession, EndSession, TypeOK
<1>2. ASSUME NEW s \in Sessions, SweepSession(s) PROVE TypeOK'
  <2>1. ticket' \in [Tickets -> TicketRow \cup {None}]
    BY <1>2 DEF SweepSession, TypeOK, TicketRow
  <2> QED
    BY <1>2, <2>1 DEF SweepSession, TypeOK
<1>3. ASSUME NEW c \in Services,
             SoftDeleteService(c) \/ \E row \in ServiceRow : EditService(c, row)
      PROVE  TypeOK'
  BY <1>3 DEF SoftDeleteService, EditService, TypeOK
<1>4. ASSUME NEW t \in Tickets, ExpireTicket(t) \/ SweepTicket(t) PROVE TypeOK'
  <2>1. ticket' \in [Tickets -> TicketRow \cup {None}]
    BY <1>4 DEF ExpireTicket, SweepTicket, Consumable, TypeOK, TicketRow
  <2> QED
    BY <1>4, <2>1 DEF ExpireTicket, SweepTicket, TypeOK
<1>5. CASE SoftDeleteUser
  BY <1>5 DEF SoftDeleteUser, TypeOK
<1> QED
  BY <1>1, <1>2, <1>3, <1>4, <1>5 DEF OtherStep

LEMMA NextTypes == ASSUME TypeOK, [Next]_vars PROVE TypeOK'
<1>1. CASE UNCHANGED vars
  BY <1>1 DEF vars, TypeOK
<1> QED
  BY <1>1, LoginTypes, ValidationTypes, OtherTypes DEF Next

-----------------------------------------------------------------------------
(* The invariant.  Three kinds of steps disturb it: a ticket is stored, a  *)
(* ticket is taken, and everything else, which only moves rows and         *)
(* validations further along.                                              *)

\* Rows and validations only move along: a ticket keeps its session, nothing
\* becomes consumable, no session appears from nowhere or revives, and a
\* validation that still holds its ticket is the one that took it.
Onward ==
    /\ \A s \in Sessions :
          /\ session[s] # "none" => session'[s] # "none"
          /\ session'[s] = "live" => session[s] \in {"live", "none"}
    /\ \A i \in Issuers : issue'[i] # None =>
          \/ issue[i] # None /\ issue'[i].session = issue[i].session
          \/ session'[issue'[i].session] # "none"
    /\ \A t \in Tickets :
          /\ ticket'[t] # None <=> ticket[t] # None
          /\ ticket[t] # None => ticket'[t].session = ticket[t].session
          /\ Consumable(t)' => Consumable(t)
    /\ \A v \in Validations : validation'[v] # None =>
          /\ validation[v] # None
          /\ validation'[v].ticket = validation[v].ticket
          /\ validation'[v].live = validation[v].live
          /\ validation'[v].pc # "refused" =>
                /\ validation[v].pc # "refused"
                /\ \/ validation'[v].pc = validation[v].pc
                   \/ validation[v].pc # "session"
                   \/ session[ticket[validation[v].ticket].session] = "live"

LEMMA OnwardKeeps == ASSUME Inv, TypeOK', Onward PROVE TicketInv'
<1> USE DEF Inv, TicketInv
<1>1. SessionsExist'
  BY DEF SessionsExist, Onward, TypeOK, IssueReq, TicketRow
<1>2. \A v \in Validations : Took(v)' => Took(v) /\ validation'[v].ticket = validation[v].ticket
  BY DEF Took, Onward
<1>3. \A v \in Validations : validation[v] # None => validation[v].ticket \in Tickets
  BY DEF TypeOK, Validation
<1>4. TakenOnce'
  <2>1. \A v \in Validations : validation'[v] # None => ticket'[validation'[v].ticket] # None
    BY <1>3 DEF TakenOnce, Onward
  <2>2. \A v \in Validations : Took(v)' => ~Consumable(validation[v].ticket)
    BY <1>2 DEF TakenOnce
  <2>3. \A v \in Validations : Took(v)' => ~Consumable(validation[v].ticket)'
    BY <1>2, <1>3, <2>2 DEF Onward, Took, Consumable
  <2>5. \A v1, v2 \in Validations :
           Took(v1)' /\ Took(v2)' /\ validation'[v1].ticket = validation'[v2].ticket => v1 = v2
    BY <1>2 DEF TakenOnce
  <2> QED
    BY <2>1, <2>3, <2>5 DEF TakenOnce
<1>5. ASSUME NEW v \in Validations, Took(v)', ~validation'[v].live
      PROVE  /\ validation'[v].pc = "session"
             /\ session'[ticket'[validation'[v].ticket].session] # "live"
  <2> DEFINE t == validation[v].ticket
             s == ticket[t].session
  <2>1. /\ Took(v) /\ ~validation[v].live
        /\ t \in Tickets /\ ticket[t] # None /\ s \in Sessions
        /\ ticket'[validation'[v].ticket].session = s
    BY <1>2, <1>3, <1>5 DEF Onward, Took, TakenOnce, TypeOK, TicketRow
  <2>2. validation[v].pc = "session" /\ session[s] # "live"
    BY <2>1 DEF LiveWhenTaken
  <2>3. validation'[v].pc = "session"
    BY <1>5, <2>1, <2>2 DEF Onward, Took
  <2>4. session[s] # "none"
    BY <2>1 DEF SessionsExist
  <2>5. session'[s] # "live"
    BY <2>1, <2>2, <2>4 DEF Onward
  <2> QED
    BY <2>1, <2>3, <2>5
<1>6. LiveWhenTaken'
  BY <1>5 DEF LiveWhenTaken
<1> QED
  BY <1>1, <1>4, <1>6

\* Storing a ticket: a new row, for a session that exists, that none has taken.
LEMMA IssueKeeps ==
    ASSUME Inv, TypeOK', NEW i \in Issuers, NEW t \in Tickets, IssueServiceTicket(i, t)
    PROVE  TicketInv'
<1> USE DEF Inv, TicketInv
<1>1. /\ issue[i] \in IssueReq /\ session[issue[i].session] # "none"
      /\ ticket[t] = None /\ ticket'[t].session = issue[i].session
      /\ \A u \in Tickets : u # t => ticket'[u] = ticket[u]
    BY DEF IssueServiceTicket, TypeOK, SessionsExist
<1>2. \A v \in Validations : validation[v] # None =>
         validation[v].ticket \in Tickets /\ validation[v].ticket # t
  BY <1>1 DEF TakenOnce, TypeOK, Validation
<1>3. SessionsExist'
  BY <1>1 DEF SessionsExist, IssueServiceTicket, TypeOK
<1>4. TakenOnce'
  BY <1>1, <1>2 DEF TakenOnce, Took, Consumable, IssueServiceTicket
<1>5. LiveWhenTaken'
  BY <1>1, <1>2 DEF LiveWhenTaken, Took, IssueServiceTicket
<1> QED
  BY <1>3, <1>4, <1>5

\* Taking a ticket: it was consumable, so no other validation holds it.
LEMMA ConsumeKeeps ==
    ASSUME Inv, TypeOK', NEW v \in Validations, NEW t \in Tickets, NEW u \in Urls,
           ConsumeTicket(v, t, u)
    PROVE  TicketInv'
<1> USE DEF Inv, TicketInv
<1>1. /\ ticket[t] \in TicketRow
      /\ validation[v] = None
      /\ \A w \in Tickets : w # t => ticket'[w] = ticket[w]
      /\ ticket'[t] # None /\ ticket'[t].session = ticket[t].session
      /\ ~Consumable(t)'
  BY NoneIsNoRow DEF ConsumeTicket, Consumable, TypeOK, TicketRow
<1>2. /\ validation'[v] # None /\ validation'[v].ticket = t
      /\ Took(v)' => Consumable(t)
      /\ session[ticket[t].session] = "live" => validation'[v].live
      /\ Took(v)' => validation'[v].pc = "session"
      /\ \A w \in Validations : w # v => validation'[w] = validation[w]
  <2> DEFINE new == [pc |-> IF Consumable(t) /\ ticket[t].url = Normalize[u]
                             THEN "session" ELSE "refused",
                     ticket |-> t, url |-> u, live |-> session[ticket[t].session] = "live",
                     found |-> None, released |-> {}]
  <2>1. validation' = [validation EXCEPT ![v] = new] /\ validation'[v] = new
    BY DEF ConsumeTicket, TypeOK
  <2>2. validation'[v].pc # "refused" => Consumable(t) /\ validation'[v].pc = "session"
    BY <2>1
  <2>3. session[ticket[t].session] = "live" => validation'[v].live
    <3>1. validation'[v].live = (session[ticket[t].session] = "live")
      BY <2>1
    <3> QED
      BY <3>1
  <2>4. new \in Validation
    BY DEF Validation, Policies
  <2>5. validation'[v] # None /\ validation'[v].ticket = t
    BY <2>1, <2>4, NoneIsNoRow
  <2>6. \A w \in Validations : w # v => validation'[w] = validation[w]
    BY <2>1 DEF TypeOK
  <2> QED
    BY <2>2, <2>3, <2>5, <2>6 DEF Took
<1>3. \A w \in Validations : validation[w] # None => validation[w].ticket \in Tickets
  BY DEF TypeOK, Validation
<1>4. SessionsExist'
  BY <1>1 DEF SessionsExist, ConsumeTicket
<1>5. TakenOnce'
  <2>1. \A w \in Validations : validation'[w] # None => ticket'[validation'[w].ticket] # None
    BY <1>1, <1>2, <1>3 DEF TakenOnce
  <2>2. \A w \in Validations : w # v /\ Took(w)' =>
           /\ Took(w) /\ validation'[w].ticket = validation[w].ticket
           /\ ~Consumable(validation[w].ticket) /\ validation[w].ticket \in Tickets
    BY <1>2, <1>3 DEF TakenOnce, Took
  <2>3. \A w \in Tickets : ~Consumable(w) => ~Consumable(w)'
    BY <1>1 DEF Consumable
  <2>4. \A w \in Validations : w # v /\ Took(w)' /\ Took(v)' => validation'[w].ticket # t
    BY <1>2, <2>2
  <2>6. \A w \in Validations : Took(w)' => ~Consumable(validation[w].ticket)'
    BY <1>1, <1>2, <2>2, <2>3 DEF Consumable
  <2>5. \A v1, v2 \in Validations :
           Took(v1)' /\ Took(v2)' /\ validation'[v1].ticket = validation'[v2].ticket => v1 = v2
    BY <1>2, <2>2, <2>4 DEF TakenOnce
  <2> QED
    BY <2>1, <2>6, <2>5 DEF TakenOnce
<1>6. LiveWhenTaken'
  <2>1. session' = session
    BY DEF ConsumeTicket
  <2>2. \A w \in Validations : validation[w] # None => ticket[validation[w].ticket] # None
    BY DEF TakenOnce
  <2>3. \A w \in Tickets : ticket[w] # None => ticket'[w].session = ticket[w].session
    BY <1>1
  <2> QED
    BY <1>1, <1>2, <1>3, <2>1, <2>2, <2>3 DEF LiveWhenTaken, Took
<1> QED
  BY <1>4, <1>5, <1>6

\* Every other step of the system moves onward.
LEMMA OthersMoveOnward ==
    ASSUME Inv, [Next]_vars
    PROVE  \/ Onward
           \/ \E i \in Issuers, t \in Tickets : IssueServiceTicket(i, t)
           \/ \E v \in Validations, t \in Tickets, u \in Urls : ConsumeTicket(v, t, u)
<1> USE DEF Inv
<1>1. CASE UNCHANGED vars
  BY <1>1 DEF vars, Onward, Consumable
<1>2. ASSUME NEW i \in Issuers, NEW s \in Sessions, NEW u \in Urls, ResolveService(i, s, u)
      PROVE  Onward
  BY <1>2 DEF ResolveService, Onward, Consumable, TypeOK
<1>3. ASSUME NEW i \in Issuers, LeaveLogin(i) PROVE Onward
  BY <1>3 DEF LeaveLogin, Onward, Consumable, TypeOK
<1>4. ASSUME NEW v \in Validations,
             CheckSession(v) \/ CheckUser(v) \/ Answer(v) \/ FailValidation(v)
      PROVE  Onward
  <2>1. validation[v] \in Validation
    BY <1>4 DEF CheckSession, CheckUser, Answer, FailValidation, At, TypeOK
  <2>2. UNCHANGED <<session, ticket, issue>>
    BY <1>4 DEF CheckSession, CheckUser, Answer, FailValidation
  <2>3. \A w \in Validations : w # v => validation'[w] = validation[w]
    BY <1>4 DEF CheckSession, CheckUser, Answer, FailValidation, TypeOK
  <2>4. /\ validation'[v].ticket = validation[v].ticket
        /\ validation'[v].live = validation[v].live
        /\ validation[v].pc # "refused" /\ validation[v] # None
    <3>1. validation[v].pc # "refused" /\ validation[v] # None
      BY <1>4 DEF CheckSession, CheckUser, Answer, FailValidation, At
    <3>2. CASE ~Answer(v)
      <4>1. PICK pc \in {"user", "refused", "policy"} :
               validation' = [validation EXCEPT ![v].pc = pc]
        BY <1>4, <3>2 DEF CheckSession, CheckUser, FailValidation
      <4> QED
        BY <2>1, <3>1, <4>1 DEF TypeOK, Validation
    <3>3. CASE Answer(v)
      BY <2>1, <3>1, <3>3 DEF Answer, TypeOK, Validation
    <3> QED
      BY <3>2, <3>3
  <2>5. validation'[v].pc # "refused" =>
           \/ validation[v].pc # "session"
           \/ session[ticket[validation[v].ticket].session] = "live"
    BY <1>4, <2>1 DEF CheckSession, CheckUser, Answer, FailValidation, At, TypeOK, Validation
  <2> QED
    BY <2>2, <2>3, <2>4, <2>5 DEF Onward, Consumable
<1>5. ASSUME NEW s \in Sessions,
             OpenSession(s) \/ EndSession(s, "revoked") \/ EndSession(s, "expired")
      PROVE  Onward
  BY <1>5 DEF OpenSession, EndSession, Onward, Consumable, TypeOK
<1>6. ASSUME NEW s \in Sessions, SweepSession(s) PROVE Onward
  <2>1. \A t \in Tickets : ticket[t] # None =>
           ticket'[t] \in TicketRow /\ ticket'[t].session = ticket[t].session
    BY <1>6 DEF SweepSession, TypeOK, TicketRow
  <2>2. \A t \in Tickets : Consumable(t)' => Consumable(t)
    BY <1>6 DEF SweepSession, Consumable, TypeOK, TicketRow
  <2>3. \A t \in Tickets : ticket[t] = None => ticket'[t] = None
    BY <1>6 DEF SweepSession
  <2>4. UNCHANGED <<issue, validation>> /\ \A w \in Sessions : session'[w] \in {session[w], "deleted"}
    BY <1>6 DEF SweepSession, TypeOK
  <2> QED
    BY <2>1, <2>2, <2>3, <2>4, NoneIsNoRow DEF Onward
<1>7. ASSUME NEW t \in Tickets, ExpireTicket(t) \/ SweepTicket(t) PROVE Onward
  <2>1. \A w \in Tickets : ticket[w] # None =>
           ticket'[w] \in TicketRow /\ ticket'[w].session = ticket[w].session
    BY <1>7 DEF ExpireTicket, SweepTicket, Consumable, TypeOK, TicketRow
  <2>2. \A w \in Tickets : Consumable(w)' => Consumable(w)
    BY <1>7 DEF ExpireTicket, SweepTicket, Consumable, TypeOK, TicketRow
  <2>3. \A w \in Tickets : ticket[w] = None => ticket'[w] = None
    BY <1>7 DEF ExpireTicket, SweepTicket, Consumable, TypeOK
  <2>4. UNCHANGED <<session, issue, validation>>
    BY <1>7 DEF ExpireTicket, SweepTicket
  <2> QED
    BY <2>1, <2>2, <2>3, <2>4, NoneIsNoRow DEF Onward
<1>8. CASE \/ SoftDeleteUser
           \/ \E c \in Services :
                 SoftDeleteService(c) \/ \E row \in ServiceRow : EditService(c, row)
  BY <1>8 DEF SoftDeleteUser, SoftDeleteService, EditService, Onward, Consumable
<1> QED
  BY <1>1, <1>2, <1>3, <1>4, <1>5, <1>6, <1>7, <1>8
  DEF Next, LoginStep, ValidationStep, OtherStep

LEMMA InvariantHolds == Spec => []Inv
<1>1. Init => Inv
  BY NoneIsNoRow DEF Init, Inv, TypeOK, TicketInv, SessionsExist, TakenOnce, LiveWhenTaken, Took, Consumable
<1>2. Inv /\ [Next]_vars => Inv'
  BY NextTypes, OthersMoveOnward, OnwardKeeps, IssueKeeps, ConsumeKeeps DEF Inv
<1> QED
  BY <1>1, <1>2, PTL DEF Spec

-----------------------------------------------------------------------------
\* Every reachable ticket, request and validation is well typed.
THEOREM TypeCorrect == Spec => []TypeOK
<1>1. Inv => TypeOK
  BY DEF Inv
<1> QED
  BY <1>1, InvariantHolds, PTL

\* However many validations race for a ticket, one is accepted at most.
THEOREM TicketsAreAcceptedOnce == Spec => []TicketAcceptedOnce
<1>1. Inv => TicketAcceptedOnce
  BY DEF Inv, TicketInv, TakenOnce, Took, TicketAcceptedOnce, At
<1> QED
  BY <1>1, InvariantHolds, PTL

\* A validation that took its ticket after the logout is never accepted.
THEOREM LoggedOutTicketsFail == Spec => []NoLoginAfterLogout
<1>1. Inv => NoLoginAfterLogout
  BY DEF Inv, TicketInv, LiveWhenTaken, Took, NoLoginAfterLogout, At
<1> QED
  BY <1>1, InvariantHolds, PTL

-----------------------------------------------------------------------------
(* The refinement of OneTimeCredential.  Under the invariant the cases of  *)
(* Holder exclude each other, so that a step can be followed ticket by     *)
(* ticket.                                                                 *)

HolderSays ==
    \A t \in Tickets :
        /\ Holder(t) \in {"none", "valid", "spent"} \cup Validations
        /\ Holder(t) = "none" <=> ticket[t] = None
        /\ Holder(t) = "valid" <=> Consumable(t)
        /\ \A v \in Validations : Holder(t) = v <=> Pending(v, t)
        /\ OpenedBy(t) \in Validations \cup {None}
        /\ \A v \in Validations : OpenedBy(t) = v <=> AcceptedFor(v, t)

\* A ticket that a validation has got is there, is not consumable, and no other
\* validation has got it.
LEMMA OneHolder ==
    ASSUME Inv, NEW t \in Tickets, NEW v \in Validations, Pending(v, t) \/ AcceptedFor(v, t)
    PROVE  /\ Took(v) /\ ticket[t] # None /\ ~Consumable(t)
           /\ \A w \in Validations : Pending(w, t) \/ AcceptedFor(w, t) => w = v
<1>1. \A w \in Validations :
         Pending(w, t) \/ AcceptedFor(w, t) => Took(w) /\ validation[w].ticket = t
  BY DEF Pending, AcceptedFor, Took, At
<1> QED BY <1>1 DEF Inv, TicketInv, TakenOnce, Took

LEMMA HolderIsSound == Inv => HolderSays
<1> SUFFICES ASSUME Inv, NEW t \in Tickets
             PROVE  /\ Holder(t) \in {"none", "valid", "spent"} \cup Validations
                    /\ Holder(t) = "none" <=> ticket[t] = None
                    /\ Holder(t) = "valid" <=> Consumable(t)
                    /\ \A v \in Validations : Holder(t) = v <=> Pending(v, t)
                    /\ OpenedBy(t) \in Validations \cup {None}
                    /\ \A v \in Validations : OpenedBy(t) = v <=> AcceptedFor(v, t)
  BY DEF HolderSays
<1>1. /\ OpenedBy(t) \in Validations \cup {None}
      /\ \A v \in Validations : OpenedBy(t) = v <=> AcceptedFor(v, t)
  <2>1. ASSUME NEW v \in Validations, AcceptedFor(v, t)
        PROVE  OpenedBy(t) = v /\ \A w \in Validations : AcceptedFor(w, t) => w = v
    <3>1. \A w \in Validations : AcceptedFor(w, t) => w = v
      BY <2>1, OneHolder
    <3>2. OpenedBy(t) = CHOOSE w \in Validations : AcceptedFor(w, t)
      BY <2>1 DEF OpenedBy
    <3> QED BY <2>1, <3>1, <3>2
  <2>2. CASE \A v \in Validations : ~AcceptedFor(v, t)
    <3>1. OpenedBy(t) = None
      BY <2>2 DEF OpenedBy
    <3> QED BY <2>2, <3>1, ValidationsDiffer
  <2> QED BY <2>1, <2>2
<1>2. CASE ticket[t] = None
  <2>1. Holder(t) = "none"
    BY <1>2, OneHolder DEF Holder, Consumable
  <2> QED BY <1>1, <1>2, <2>1, OneHolder, ValidationsDiffer DEF Consumable
<1>3. CASE Consumable(t)
  <2>1. Holder(t) = "valid"
    BY <1>3, OneHolder DEF Holder, Consumable
  <2> QED BY <1>1, <1>3, <2>1, OneHolder, ValidationsDiffer DEF Consumable
<1>4. ASSUME NEW v \in Validations, Pending(v, t)
      PROVE  Holder(t) = v /\ \A w \in Validations : Pending(w, t) => w = v
  <2>1. ticket[t] # None /\ ~Consumable(t) /\ \A w \in Validations : Pending(w, t) => w = v
    BY <1>4, OneHolder
  <2>2. Holder(t) = CHOOSE w \in Validations : Pending(w, t)
    BY <1>4, <2>1 DEF Holder
  <2>3. v = CHOOSE w \in Validations : Pending(w, t)
    BY <1>4, <2>1
  <2> QED BY <2>1, <2>2, <2>3
<1>5. CASE ticket[t] # None /\ ~Consumable(t) /\ \A v \in Validations : ~Pending(v, t)
  <2>1. Holder(t) = "spent"
    BY <1>5 DEF Holder
  <2> QED BY <1>1, <1>5, <2>1, ValidationsDiffer
<1>6. CASE ticket[t] # None /\ ~Consumable(t) /\ \E v \in Validations : Pending(v, t)
  BY <1>1, <1>4, <1>6, ValidationsDiffer
<1> QED BY <1>2, <1>3, <1>5, <1>6

\* A ticket a step does not concern keeps its holder.
LEMMA HolderStays ==
    ASSUME HolderSays, HolderSays', NEW t \in Tickets,
           ticket'[t] = None <=> ticket[t] = None, Consumable(t)' <=> Consumable(t),
           \A v \in Validations : Pending(v, t)' <=> Pending(v, t)
    PROVE  Holder(t)' = Holder(t)
<1>1. CASE \E v \in Validations : Pending(v, t)
  BY <1>1 DEF HolderSays
<1>2. CASE \A v \in Validations : ~Pending(v, t)
  <2>1. Holder(t) \in {"none", "valid", "spent"} /\ Holder(t)' \in {"none", "valid", "spent"}
    BY <1>2 DEF HolderSays
  <2>2. /\ Holder(t) = "none" <=> Holder(t)' = "none"
        /\ Holder(t) = "valid" <=> Holder(t)' = "valid"
    BY DEF HolderSays
  <2> QED BY <2>1, <2>2
<1> QED BY <1>1, <1>2

LEMMA OpenedStays ==
    ASSUME HolderSays, HolderSays', NEW t \in Tickets,
           \A v \in Validations : AcceptedFor(v, t)' <=> AcceptedFor(v, t)
    PROVE  OpenedBy(t)' = OpenedBy(t)
BY DEF HolderSays

\* Statements around the validations: tickets that nobody has taken may go.
LEMMA LapseMaps ==
    ASSUME HolderSays, HolderSays', UNCHANGED validation,
           \A t \in Tickets : /\ ticket'[t] = None <=> ticket[t] = None
                              /\ Consumable(t)' => Consumable(t)
    PROVE  Credential!CredentialNext
<1> DEFINE gone == {t \in Tickets : Consumable(t) /\ ~Consumable(t)'}
<1>1. \A v \in Validations, t \in Tickets :
         (Pending(v, t)' <=> Pending(v, t)) /\ (AcceptedFor(v, t)' <=> AcceptedFor(v, t))
  BY DEF Pending, Took, AcceptedFor, At
<1>2. \A t \in Tickets : OpenedBy(t)' = OpenedBy(t)
  BY <1>1, OpenedStays
<1>3. \A t \in Tickets \ gone : Holder(t)' = Holder(t)
  BY <1>1, HolderStays
<1>4. ASSUME NEW t \in gone PROVE Holder(t) = "valid" /\ Holder(t)' = "spent"
  <2>1. Holder(t) = "valid" /\ Holder(t)' \notin {"valid", "none"}
    BY DEF HolderSays, Consumable
  <2>2. \A v \in Validations : ~Pending(v, t)'
    BY <1>1, <2>1, ValidationsDiffer DEF HolderSays
  <2> QED BY <2>1, <2>2 DEF HolderSays
<1> HIDE DEF gone
<1>5. gone \in SUBSET Tickets
  BY DEF gone
<1>6. Credential!Issue({}, gone)
  BY <1>2, <1>3, <1>4, <1>5 DEF Credential!Issue
<1> QED BY <1>5, <1>6 DEF Credential!CredentialNext

LEMMA IssueMaps ==
    ASSUME Inv, HolderSays, HolderSays', NEW i \in Issuers, NEW t \in Tickets,
           IssueServiceTicket(i, t), TypeOK'
    PROVE  Credential!CredentialNext
<1>1. /\ ticket[t] = None /\ UNCHANGED validation
      /\ \A u \in Tickets : u # t => ticket'[u] = ticket[u]
      /\ ticket'[t].status = "issued"
  BY DEF IssueServiceTicket, Inv, TypeOK
<1>2. Consumable(t)'
  <2>1. ticket'[t] \in TicketRow
    <3>1. issue[i] \in IssueReq
      BY DEF IssueServiceTicket, Inv, TypeOK
    <3> QED BY <3>1 DEF IssueServiceTicket, Inv, TypeOK, IssueReq, TicketRow
  <2> QED BY <1>1, <2>1, NoneIsNoRow DEF Consumable
<1>3. \A v \in Validations, u \in Tickets :
         (Pending(v, u)' <=> Pending(v, u)) /\ (AcceptedFor(v, u)' <=> AcceptedFor(v, u))
  BY <1>1 DEF Pending, Took, AcceptedFor, At
<1>4. \A u \in Tickets : OpenedBy(u)' = OpenedBy(u)
  BY <1>3, OpenedStays
<1>5. \A u \in Tickets \ {t} : Holder(u)' = Holder(u)
  BY <1>1, <1>3, HolderStays DEF Consumable
<1>6. Holder(t) = "none" /\ Holder(t)' = "valid"
  BY <1>1, <1>2 DEF HolderSays
<1>7. Credential!Issue({t}, {})
  BY <1>4, <1>5, <1>6 DEF Credential!Issue
<1>8. {t} \in SUBSET Tickets /\ {} \in SUBSET Tickets
  OBVIOUS
<1> QED BY <1>7, <1>8 DEF Credential!CredentialNext

\* Only the tickets change hands that the validation concerns.
OnlyConcerns(v, t) ==
    /\ \A u \in Tickets \ {t} :
          (ticket'[u] = None <=> ticket[u] = None) /\ (Consumable(u)' <=> Consumable(u))
    /\ \A w \in Validations \ {v} : validation'[w] = validation[w]
    /\ \A u \in Tickets \ {t} : /\ ~Pending(v, u) /\ ~Pending(v, u)'
                                /\ ~AcceptedFor(v, u) /\ ~AcceptedFor(v, u)'

LEMMA OthersStay ==
    ASSUME HolderSays, HolderSays', NEW v \in Validations, NEW t \in Tickets,
           OnlyConcerns(v, t)
    PROVE  \A u \in Tickets \ {t} : Holder(u)' = Holder(u) /\ OpenedBy(u)' = OpenedBy(u)
<1> TAKE u \in Tickets \ {t}
<1>1. \A w \in Validations :
         (Pending(w, u)' <=> Pending(w, u)) /\ (AcceptedFor(w, u)' <=> AcceptedFor(w, u))
  BY DEF OnlyConcerns, Pending, Took, AcceptedFor, At
<1> QED BY <1>1, HolderStays, OpenedStays DEF OnlyConcerns

\* Presenting a ticket: one that is consumable goes to the validation, or is
\* spent at once because it was presented for another URL.
LEMMA ConsumeMaps ==
    ASSUME Inv, HolderSays, HolderSays', NEW v \in Validations, NEW t \in Tickets,
           NEW u \in Urls, ConsumeTicket(v, t, u)
    PROVE  Credential!CredentialNext
<1>1. /\ validation[v] = None /\ ticket[t] \in TicketRow
      /\ \A w \in Validations \ {v} : validation'[w] = validation[w]
      /\ validation'[v].ticket = t
      /\ validation'[v].pc =
            IF Consumable(t) /\ ticket[t].url = Normalize[u] THEN "session" ELSE "refused"
      /\ \A x \in Tickets \ {t} : ticket'[x] = ticket[x]
      /\ ticket'[t] # None /\ ~Consumable(t)'
  BY NoneIsNoRow DEF ConsumeTicket, Consumable, Inv, TypeOK, TicketRow
<1>2. validation'[v] # None
  <2> DEFINE new == [pc |-> IF Consumable(t) /\ ticket[t].url = Normalize[u]
                             THEN "session" ELSE "refused",
                     ticket |-> t, url |-> u, live |-> session[ticket[t].session] = "live",
                     found |-> None, released |-> {}]
  <2>1. new \in Validation
    BY DEF Validation, Policies
  <2>2. validation'[v] = new
    BY DEF ConsumeTicket, Inv, TypeOK
  <2> QED BY <2>1, <2>2, NoneIsNoRow
<1>3. OnlyConcerns(v, t)
  BY <1>1 DEF OnlyConcerns, Pending, Took, AcceptedFor, At, Consumable
<1>4. \A x \in Tickets \ {t} : Holder(x)' = Holder(x) /\ OpenedBy(x)' = OpenedBy(x)
  BY <1>3, OthersStay
<1>5. \A w \in Validations : AcceptedFor(w, t)' <=> AcceptedFor(w, t)
  BY <1>1 DEF AcceptedFor, At
<1>6. OpenedBy(t)' = OpenedBy(t)
  BY <1>5, OpenedStays
<1>7. CASE Consumable(t) /\ validation'[v].pc = "session"
  <2>1. Pending(v, t)'
    BY <1>1, <1>2, <1>7 DEF Pending, Took
  <2>2. Holder(t) = "valid" /\ Holder(t)' = v
    BY <1>7, <2>1 DEF HolderSays
  <2>3. \A x \in Tickets : Holder(x) # v
    BY <1>1 DEF HolderSays, Pending, Took
  <2>4. Credential!Take(t, v)
    BY <1>4, <1>6, <2>2, <2>3 DEF Credential!Take
  <2> QED BY <2>4 DEF Credential!CredentialNext
<1>8. CASE Consumable(t) /\ validation'[v].pc = "refused"
  <2>1. \A w \in Validations : ~Pending(w, t)
    BY <1>8, ValidationsDiffer DEF HolderSays
  <2>2. \A w \in Validations : ~Pending(w, t)'
    BY <1>1, <1>8, <2>1 DEF Pending, Took
  <2>3. Holder(t) = "valid" /\ Holder(t)' = "spent"
    BY <1>1, <1>8, <2>2 DEF HolderSays
  <2>4. Credential!Issue({}, {t})
    BY <1>4, <1>6, <2>3 DEF Credential!Issue
  <2>5. {t} \in SUBSET Tickets /\ {} \in SUBSET Tickets
    OBVIOUS
  <2> QED BY <2>4, <2>5 DEF Credential!CredentialNext
<1>9. CASE ~Consumable(t)
  <2>1. \A w \in Validations : Pending(w, t)' <=> Pending(w, t)
    BY <1>1, <1>9 DEF Pending, Took
  <2>2. Holder(t)' = Holder(t)
    BY <1>1, <1>9, <2>1, HolderStays DEF Inv, TypeOK, TicketRow, ConsumeTicket
  <2>3. Credential!Issue({}, {})
    BY <1>4, <1>6, <2>2 DEF Credential!Issue
  <2>4. {} \in SUBSET Tickets
    OBVIOUS
  <2> QED BY <2>3, <2>4 DEF Credential!CredentialNext
<1> QED BY <1>1, <1>7, <1>8, <1>9

\* The reads of a validation: it goes on with its ticket, is refused and loses
\* it, or is accepted.
LEMMA ReadMaps ==
    ASSUME Inv, HolderSays, HolderSays', NEW v \in Validations,
           CheckSession(v) \/ CheckUser(v) \/ Answer(v) \/ FailValidation(v)
    PROVE  Credential!CredentialNext
<1>1. /\ validation[v] # None /\ validation[v] \in Validation
      /\ validation[v].pc \in {"session", "user", "policy"}
      /\ UNCHANGED ticket
  BY DEF CheckSession, CheckUser, Answer, FailValidation, At, Inv, TypeOK
<1>2. PICK t \in Tickets : validation[v].ticket = t
  BY <1>1 DEF Validation
<1>3. /\ \A w \in Validations \ {v} : validation'[w] = validation[w]
      /\ validation'[v] \in Validation /\ validation'[v].ticket = t
      /\ validation'[v].pc = "accepted" <=> Answer(v)
  <2>1. CASE Answer(v)
    <3>1. PICK c \in Services \cup {None} :
             /\ c # None => service[c] # None
             /\ validation' = [validation EXCEPT ![v].pc = "accepted",
                                  ![v].found = c, ![v].released = Releases(c)]
      BY <2>1, NoneIsNoRow DEF Answer, Found, Matching
    <3>2. Releases(c) \in Policies
      BY <3>1, ReleasesPolicies DEF Inv
    <3> QED BY <1>1, <1>2, <2>1, <3>1, <3>2 DEF Inv, TypeOK, Validation
  <2>2. CASE ~Answer(v)
    <3>1. PICK pc \in {"user", "policy", "refused"} :
             validation' = [validation EXCEPT ![v].pc = pc]
      BY <2>2 DEF CheckSession, CheckUser, FailValidation
    <3> QED BY <1>1, <1>2, <2>2, <3>1 DEF Inv, TypeOK, Validation
  <2> QED BY <2>1, <2>2
<1>4. validation'[v] # None /\ validation[v].ticket = t
  BY <1>2, <1>3, NoneIsNoRow
<1>5. Pending(v, t) /\ Holder(t) = v
  BY <1>1, <1>2, <1>4 DEF Pending, Took, HolderSays
<1>6. OnlyConcerns(v, t)
  BY <1>1, <1>3, <1>4 DEF OnlyConcerns, Pending, Took, AcceptedFor, At, Consumable
<1>7. \A x \in Tickets \ {t} : Holder(x)' = Holder(x) /\ OpenedBy(x)' = OpenedBy(x)
  BY <1>2, <1>6, OthersStay
<1>8. \A w \in Validations \ {v} : ~Pending(w, t) /\ ~AcceptedFor(w, t)
  BY <1>2, <1>5, OneHolder
<1>9. \A w \in Validations \ {v} : ~Pending(w, t)' /\ ~AcceptedFor(w, t)'
  BY <1>3, <1>8 DEF Pending, Took, AcceptedFor, At
<1>10. ticket[t] # None /\ ~Consumable(t) /\ ~Consumable(t)'
  BY <1>1, <1>2, <1>5, OneHolder DEF Consumable
<1>11. CASE validation'[v].pc = "accepted"
  <2>1. OpenedBy(t)' = v
    BY <1>2, <1>3, <1>4, <1>11 DEF HolderSays, AcceptedFor, At
  <2>2. Holder(t)' = "spent"
    <3>1. ~Pending(v, t)'
      BY <1>11 DEF Pending
    <3> QED BY <1>1, <1>2, <1>9, <1>10, <3>1 DEF HolderSays
  <2>3. \A x \in Tickets : OpenedBy(x) # v
    BY <1>1 DEF HolderSays, AcceptedFor, At
  <2>4. Credential!Succeed(t, v)
    BY <1>2, <1>5, <1>7, <2>1, <2>2, <2>3 DEF Credential!Succeed
  <2> QED BY <1>2, <2>4 DEF Credential!CredentialNext
<1>12. CASE validation'[v].pc # "accepted"
  <2>1. OpenedBy(t)' = OpenedBy(t)
    <3>1. \A w \in Validations : ~AcceptedFor(w, t)
      BY <1>1, <1>8 DEF AcceptedFor, At
    <3>2. \A w \in Validations : ~AcceptedFor(w, t)'
      BY <1>9, <1>12 DEF AcceptedFor, At
    <3> QED BY <1>2, <3>1, <3>2, OpenedStays
  <2>2. CASE validation'[v].pc = "refused"
    <3>1. ~Pending(v, t)'
      BY <2>2 DEF Pending, Took
    <3>2. Holder(t)' = "spent"
      BY <1>1, <1>2, <1>9, <1>10, <3>1 DEF HolderSays
    <3>3. Credential!Fail(t)
      BY <1>2, <1>5, <1>7, <2>1, <3>2 DEF Credential!Fail
    <3> QED BY <1>2, <3>3 DEF Credential!CredentialNext
  <2>3. CASE validation'[v].pc # "refused"
    <3>1. Pending(v, t)'
      BY <1>3, <1>4, <1>12, <2>3 DEF Pending, Took
    <3>2. Holder(t)' = v
      BY <1>2, <3>1 DEF HolderSays
    <3>3. Credential!Issue({}, {})
      BY <1>2, <1>5, <1>7, <2>1, <3>2 DEF Credential!Issue
    <3>4. {} \in SUBSET Tickets
      OBVIOUS
    <3> QED BY <3>3, <3>4 DEF Credential!CredentialNext
  <2> QED BY <2>2, <2>3
<1> QED BY <1>11, <1>12

\* Service tickets implement OneTimeCredential: a ticket goes to one validation,
\* logs one user in at most, and is not given back by a validation that fails.
THEOREM TicketsAreOneTimeCredentials == Spec => TicketsAreOneTime
<1>1. Init => Credential!CredentialInit
  BY DEF Init, Credential!CredentialInit, Holder, Consumable, Pending, Took, OpenedBy,
         AcceptedFor, At
<1>2. Inv /\ Inv' /\ HolderSays /\ HolderSays' /\ [Next]_vars => Credential!CredentialNext
  <2> SUFFICES ASSUME Inv, Inv', HolderSays, HolderSays', [Next]_vars
               PROVE  Credential!CredentialNext
    OBVIOUS
  <2>1. CASE \E i \in Issuers, t \in Tickets : IssueServiceTicket(i, t)
    BY <2>1, IssueMaps DEF Inv
  <2>2. CASE \E v \in Validations, t \in Tickets, u \in Urls : ConsumeTicket(v, t, u)
    BY <2>2, ConsumeMaps
  <2>3. CASE \E v \in Validations :
                CheckSession(v) \/ CheckUser(v) \/ Answer(v) \/ FailValidation(v)
    BY <2>3, ReadMaps
  <2>4. CASE \/ \E i \in Issuers : \/ LeaveLogin(i)
                                   \/ \E s \in Sessions, u \in Urls : ResolveService(i, s, u)
             \/ \E s \in Sessions : OpenSession(s) \/ EndSession(s, "revoked")
                                        \/ EndSession(s, "expired")
             \/ \E c \in Services :
                   SoftDeleteService(c) \/ \E row \in ServiceRow : EditService(c, row)
             \/ SoftDeleteUser \/ UNCHANGED vars
    <3>1. UNCHANGED <<ticket, validation>>
      BY <2>4 DEF LeaveLogin, ResolveService, OpenSession, EndSession, SoftDeleteService,
                  EditService, SoftDeleteUser, vars
    <3> QED BY <3>1, LapseMaps DEF Consumable
  <2>5. CASE \E s \in Sessions : SweepSession(s)
    <3>1. \A t \in Tickets : /\ ticket'[t] = None <=> ticket[t] = None
                             /\ Consumable(t)' => Consumable(t)
      BY <2>5, NoneIsNoRow DEF SweepSession, Consumable, Inv, TypeOK, TicketRow
    <3> QED BY <2>5, <3>1, LapseMaps DEF SweepSession
  <2>6. CASE \E t \in Tickets : ExpireTicket(t) \/ SweepTicket(t)
    <3>1. \A t \in Tickets : /\ ticket'[t] = None <=> ticket[t] = None
                             /\ Consumable(t)' => Consumable(t)
      BY <2>6, NoneIsNoRow DEF ExpireTicket, SweepTicket, Consumable, Inv, TypeOK, TicketRow
    <3> QED BY <2>6, <3>1, LapseMaps DEF ExpireTicket, SweepTicket
  <2> QED BY <2>1, <2>2, <2>3, <2>4, <2>5, <2>6
    DEF Next, LoginStep, ValidationStep, OtherStep
<1> QED
  BY <1>1, <1>2, InvariantHolds, HolderIsSound, PTL
  DEF Spec, TicketsAreOneTime, Credential!CredentialSpec
=============================================================================

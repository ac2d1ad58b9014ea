------------------------------ MODULE CASTickets ------------------------------
(***************************************************************************)
(* Service tickets of the CAS protocol: /cas/login issues them             *)
(* (internal/api/cas/login.go), the validation endpoints consume them      *)
(* (internal/auth/cas/service.go, internal/api/cas/validate.go), and the   *)
(* administrator edits the service registry meanwhile.                     *)
(*                                                                         *)
(* Each SQL statement is a step.  A validation is one HTTP request: it     *)
(* keeps its outcome, and the properties compare outcomes.                 *)
(***************************************************************************)
EXTENDS Integers

CONSTANTS
    Sessions,       \* ids of sessions
    Tickets,        \* ids of cas_tickets
    Issuers,        \* logins about to store a ticket
    Validations,    \* validation requests
    Services,       \* rows of cas_services
    Urls,           \* service URLs as applications spell them
    Normalize,      \* normalizeServiceURL
    Patterns,       \* LIKE patterns
    Covers,         \* the URLs each pattern matches
    PatternLength,  \* length(match_pattern)
    Attributes,     \* what releaseAttributes can release
    None            \* no such row, no request

Policies == SUBSET Attributes

ServiceRow == [enabled : BOOLEAN, pattern : Patterns, policy : Policies]

TicketRow ==
    [status  : {"issued", "consumed", "expired", "deleted"},
     session : Sessions,
     url     : Urls]

IssueReq == [session : Sessions, url : Urls]

\* found: the service resolved at the end; live: the session was live when the
\* ticket was consumed (history); released: the attributes of the answer.
Validation ==
    [pc       : {"session", "user", "policy", "accepted", "refused"},
     ticket   : Tickets,
     url      : Urls,
     live     : BOOLEAN,
     found    : Services \cup {None},
     released : Policies]

ASSUME NormalizeIsIdempotent ==
    /\ Normalize \in [Urls -> Urls]
    /\ \A u \in Urls : Normalize[Normalize[u]] = Normalize[u]
ASSUME PatternsCover == Covers \in [Patterns -> SUBSET Urls]
ASSUME LengthsAreNaturals == PatternLength \in [Patterns -> Nat]
ASSUME NoneIsNoRow ==
    /\ None \notin Services \cup ServiceRow \cup TicketRow \cup IssueReq \cup Validation
ASSUME ValidationsDiffer == {"none", "valid", "spent", None} \cap Validations = {}

VARIABLES
    session,      \* status of each session
    userDeleted,  \* the user of the sessions is soft-deleted
    service,      \* cas_services; None: not registered, or soft-deleted
    ticket,       \* cas_tickets
    issue,        \* requests between ResolveService and CreateCASTicket
    validation

vars == <<session, userDeleted, service, ticket, issue, validation>>

TypeOK ==
    /\ session \in [Sessions -> {"none", "live", "revoked", "expired", "deleted"}]
    /\ userDeleted \in BOOLEAN
    /\ service \in [Services -> ServiceRow \cup {None}]
    /\ ticket \in [Tickets -> TicketRow \cup {None}]
    /\ issue \in [Issuers -> IssueReq \cup {None}]
    /\ validation \in [Validations -> Validation \cup {None}]

Init ==
    /\ session = [s \in Sessions |-> "none"]
    /\ userDeleted = FALSE
    /\ service \in [Services -> ServiceRow \cup {None}]
    /\ ticket = [t \in Tickets |-> None]
    /\ issue = [i \in Issuers |-> None]
    /\ validation = [v \in Validations |-> None]

-----------------------------------------------------------------------------
(* GET and POST /cas/login                                                 *)

Matching(u) ==
    {c \in Services : service[c] # None /\ service[c].enabled /\ u \in Covers[service[c].pattern]}

\* FindCASServiceForURL: the longest pattern; the table does not break ties.
Found(u) ==
    {c \in Matching(u) : \A d \in Matching(u) :
        PatternLength[service[d].pattern] <= PatternLength[service[c].pattern]}

\* ResolveService on a session just read or just created.
ResolveService(i, s, u) ==
    /\ issue[i] = None
    /\ session[s] = "live"
    /\ Found(Normalize[u]) # {}
    /\ issue' = [issue EXCEPT ![i] = [session |-> s, url |-> u]]
    /\ UNCHANGED <<session, userDeleted, service, ticket, validation>>

\* IssueServiceTicket stores the URL as it came in the request.
IssueServiceTicket(i, t) ==
    /\ issue[i] # None
    /\ ticket[t] = None
    /\ session[issue[i].session] # "deleted"
    /\ ticket' = [ticket EXCEPT ![t] =
           [status |-> "issued", session |-> issue[i].session, url |-> issue[i].url]]
    /\ issue' = [issue EXCEPT ![i] = None]
    /\ UNCHANGED <<session, userDeleted, service, validation>>

\* A crash, an error, or the session row has been swept.
LeaveLogin(i) ==
    /\ issue[i] # None
    /\ issue' = [issue EXCEPT ![i] = None]
    /\ UNCHANGED <<session, userDeleted, service, ticket, validation>>

-----------------------------------------------------------------------------
(* GET /cas/validate, /cas/serviceValidate, /cas/p3/serviceValidate        *)

\* Mutation: the UPDATE forgets "consumed_at IS NULL".
ConsumableTwice(t) == ticket[t] # None /\ ticket[t].status \in {"issued", "consumed"}

Consumable(t) == ticket[t] # None /\ ticket[t].status = "issued"

\* ConsumeCASTicket and the comparison of the URLs.  A mismatch has used the
\* ticket up; a ticket that is not consumable is refused untouched.
ConsumeTicket(v, t, u) ==
    /\ validation[v] = None
    /\ ticket[t] # None
    /\ ticket' = IF Consumable(t) THEN [ticket EXCEPT ![t].status = "consumed"] ELSE ticket
    /\ validation' = [validation EXCEPT ![v] =
           [pc |-> IF Consumable(t) /\ ticket[t].url = Normalize[u] THEN "session" ELSE "refused",
            ticket |-> t, url |-> u, live |-> session[ticket[t].session] = "live",
            found |-> None, released |-> {}]]
    /\ UNCHANGED <<session, userDeleted, service, issue>>

At(v, pc) == validation[v] # None /\ validation[v].pc = pc

\* Mutation: the session is loaded whether or not it was revoked.
CheckAnySession(v) ==
    /\ At(v, "session")
    /\ validation' = [validation EXCEPT ![v].pc =
           IF session[ticket[validation[v].ticket].session] \in {"live", "revoked"}
           THEN "user" ELSE "refused"]
    /\ UNCHANGED <<session, userDeleted, service, ticket, issue>>

\* GetActiveSession.
CheckSession(v) ==
    /\ At(v, "session")
    /\ validation' = [validation EXCEPT ![v].pc =
           IF session[ticket[validation[v].ticket].session] = "live" THEN "user" ELSE "refused"]
    /\ UNCHANGED <<session, userDeleted, service, ticket, issue>>

\* GetUserByID.
CheckUser(v) ==
    /\ At(v, "user")
    /\ validation' = [validation EXCEPT ![v].pc = IF userDeleted THEN "refused" ELSE "policy"]
    /\ UNCHANGED <<session, userDeleted, service, ticket, issue>>

\* releaseAttributes: everything when no service is found any more, or when
\* the service lists nothing.
Releases(c) ==
    IF c = None \/ service[c].policy = {} THEN Attributes ELSE service[c].policy

\* FindCASServiceForURL once more, and any error of it counts as no service.
\* This is the /p3 answer; the other endpoints name the principal and no more.
Answer(v) ==
    /\ At(v, "policy")
    /\ \E c \in Found(ticket[validation[v].ticket].url) \cup {None} :
          validation' = [validation EXCEPT ![v].pc = "accepted",
                            ![v].found = c, ![v].released = Releases(c)]
    /\ UNCHANGED <<session, userDeleted, service, ticket, issue>>

\* A crash or a statement that fails: the ticket stays consumed.
FailValidation(v) ==
    /\ At(v, "session") \/ At(v, "user")
    /\ validation' = [validation EXCEPT ![v].pc = "refused"]
    /\ UNCHANGED <<session, userDeleted, service, ticket, issue>>

-----------------------------------------------------------------------------
(* What happens around them: logins, logouts, deletions, edits of the      *)
(* registry, the clock and the clean-up goroutine.                         *)

OpenSession(s) ==
    /\ session[s] = "none"
    /\ session' = [session EXCEPT ![s] = "live"]
    /\ UNCHANGED <<userDeleted, service, ticket, issue, validation>>

\* RevokeSession touches no ticket.
EndSession(s, status) ==
    /\ session[s] = "live"
    /\ session' = [session EXCEPT ![s] = status]
    /\ UNCHANGED <<userDeleted, service, ticket, issue, validation>>

\* The session goes more than an hour past its expiry, and its tickets with it
\* (ON DELETE CASCADE).
SweepSession(s) ==
    /\ session[s] \in {"revoked", "expired"}
    /\ session' = [session EXCEPT ![s] = "deleted"]
    /\ ticket' = [t \in Tickets |->
           IF ticket[t] # None /\ ticket[t].session = s
           THEN [ticket[t] EXCEPT !.status = "deleted"] ELSE ticket[t]]
    /\ UNCHANGED <<userDeleted, service, issue, validation>>

SoftDeleteUser ==
    /\ ~userDeleted
    /\ userDeleted' = TRUE
    /\ UNCHANGED <<session, service, ticket, issue, validation>>

\* CreateCASService and UpdateCASService, of the pattern too; the tickets keep
\* their URLs.
EditService(c, row) ==
    /\ service' = [service EXCEPT ![c] = row]
    /\ UNCHANGED <<session, userDeleted, ticket, issue, validation>>

SoftDeleteService(c) ==
    /\ service[c] # None
    /\ service' = [service EXCEPT ![c] = None]
    /\ UNCHANGED <<session, userDeleted, ticket, issue, validation>>

ExpireTicket(t) ==
    /\ Consumable(t)
    /\ ticket' = [ticket EXCEPT ![t].status = "expired"]
    /\ UNCHANGED <<session, userDeleted, service, issue, validation>>

\* DeleteExpiredCASTickets, an hour past the expiry.
SweepTicket(t) ==
    /\ ticket[t] # None
    /\ ticket[t].status \in {"consumed", "expired"}
    /\ ticket' = [ticket EXCEPT ![t].status = "deleted"]
    /\ UNCHANGED <<session, userDeleted, service, issue, validation>>

-----------------------------------------------------------------------------
LoginStep(i) ==
    \/ \E s \in Sessions, u \in Urls : ResolveService(i, s, u)
    \/ \E t \in Tickets : IssueServiceTicket(i, t)
    \/ LeaveLogin(i)

ValidationStep(v) ==
    \/ \E t \in Tickets, u \in Urls : ConsumeTicket(v, t, u)
    \/ CheckSession(v) \/ CheckUser(v) \/ Answer(v) \/ FailValidation(v)

OtherStep ==
    \/ \E s \in Sessions :
          OpenSession(s) \/ EndSession(s, "revoked") \/ EndSession(s, "expired") \/ SweepSession(s)
    \/ \E c \in Services : SoftDeleteService(c) \/ \E row \in ServiceRow : EditService(c, row)
    \/ \E t \in Tickets : ExpireTicket(t) \/ SweepTicket(t)
    \/ SoftDeleteUser

Next ==
    \/ \E i \in Issuers : LoginStep(i)
    \/ \E v \in Validations : ValidationStep(v)
    \/ OtherStep

Spec == Init /\ [][Next]_vars

-----------------------------------------------------------------------------
(* Properties                                                              *)

\* However many validations present the same ticket at the same time, one is
\* accepted at most (ConsumeCASTicket).
TicketAcceptedOnce ==
    \A v1, v2 \in Validations :
        At(v1, "accepted") /\ At(v2, "accepted")
            /\ validation[v1].ticket = validation[v2].ticket => v1 = v2

\* A ticket outlives the logout of its session in the table, and does not
\* work: a validation is accepted only if the session was still live after the
\* validation took the ticket (Validate's GetActiveSession).
NoLoginAfterLogout ==
    \A v \in Validations : At(v, "accepted") => validation[v].live

-----------------------------------------------------------------------------
(* The inductive invariant behind them.                                    *)

\* Validations that took a ticket and were not refused since.
Took(v) == validation[v] # None /\ validation[v].pc # "refused"

SessionsExist ==
    /\ \A i \in Issuers : issue[i] # None => session[issue[i].session] # "none"
    /\ \A t \in Tickets : ticket[t] # None => session[ticket[t].session] # "none"

\* What was taken cannot be taken again, and had one taker.
TakenOnce ==
    /\ \A v \in Validations : validation[v] # None => ticket[validation[v].ticket] # None
    /\ \A v \in Validations : Took(v) => ~Consumable(validation[v].ticket)
    /\ \A v1, v2 \in Validations :
          Took(v1) /\ Took(v2) /\ validation[v1].ticket = validation[v2].ticket => v1 = v2

\* A session found live was live when the ticket was taken: none revives.
LiveWhenTaken ==
    \A v \in Validations : Took(v) =>
        \/ validation[v].live
        \/ /\ validation[v].pc = "session"
           /\ session[ticket[validation[v].ticket].session] # "live"

TicketInv == SessionsExist /\ TakenOnce /\ LiveWhenTaken

-----------------------------------------------------------------------------
(* The refinement: who has each ticket, and what it has opened.            *)

Pending(v, t) == Took(v) /\ validation[v].ticket = t /\ validation[v].pc # "accepted"
AcceptedFor(v, t) == At(v, "accepted") /\ validation[v].ticket = t

Holder(t) ==
    CASE ticket[t] = None -> "none"
      [] Consumable(t) -> "valid"
      [] \E v \in Validations : Pending(v, t) -> CHOOSE v \in Validations : Pending(v, t)
      [] OTHER -> "spent"

OpenedBy(t) ==
    IF \E v \in Validations : AcceptedFor(v, t)
    THEN CHOOSE v \in Validations : AcceptedFor(v, t) ELSE None

Credential == INSTANCE OneTimeCredential WITH
    Credentials <- Tickets, Takers <- Validations, Results <- Validations, Nothing <- None,
    holder <- [t \in Tickets |-> Holder(t)],
    opened <- [t \in Tickets |-> OpenedBy(t)]

\* A service ticket is a one-time credential: whatever validates, expires,
\* sweeps or logs out, one validation gets it, and a validation that is then
\* refused does not give it back (ConsumeCASTicket).
TicketsAreOneTime == Credential!CredentialSpec
=============================================================================

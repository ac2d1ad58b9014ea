------------------------------ MODULE OIDCTokens ------------------------------
(***************************************************************************)
(* The OAuth2 / OIDC token service of the server: authorization requests   *)
(* and consent (internal/api/oidc/authorize.go), the token endpoint's      *)
(* three grants and the revocation endpoint (internal/oidc/service.go),    *)
(* the rows they share (internal/store/postgres/oidc.go) and the clean-up  *)
(* goroutine that deletes them (cmd/server/main.go).                       *)
(*                                                                         *)
(* Handlers run concurrently and no handler opens a transaction, so each   *)
(* SQL statement is a step of its own; what a handler read stays in its    *)
(* local record (req, authz) while other handlers change the rows.         *)
(*                                                                         *)
(* A row that was inserted is never forgotten: deletion is a status, so    *)
(* that a property can speak of a token whose predecessor has been swept.  *)
(* Identifiers are random 256 bit strings in the code, hence fresh here.   *)
(***************************************************************************)
EXTENDS FiniteSets

CONSTANTS
    Clients,        \* ids of oidc_clients
    Users,          \* ids of users
    Sessions,       \* ids of sessions
    Codes,          \* ids of oidc_auth_codes
    AccessTokens,   \* ids of oidc_access_tokens
    RefreshTokens,  \* ids of oidc_refresh_tokens
    TokenReqs,      \* concurrent requests at POST /oauth2/token
    AuthReqs,       \* browsers going through /oauth2/authorize
    Scopes,
    OfflineAccess,  \* the scope "offline_access"
    Redirects,      \* redirect URIs
    Verifiers,      \* PKCE verifiers; S256 maps distinct ones to distinct challenges
    ClientConfigs,  \* the client settings an administrator may choose from
    SessionUser,    \* the user a session id belongs to
    None            \* SQL NULL, and "no such row"

GrantTypes == {"authorization_code", "refresh_token", "client_credentials"}

ClientConfig ==
    [enabled        : BOOLEAN,
     public         : BOOLEAN,
     requirePKCE    : BOOLEAN,
     requireConsent : BOOLEAN,
     scopes         : SUBSET Scopes,
     redirects      : SUBSET Redirects,
     grants         : SUBSET GrantTypes]

\* What a refresh or access token was minted from.
Origins == Codes \cup RefreshTokens

CodeRow ==
    [status   : {"issued", "consumed", "expired", "deleted"},
     client   : Clients,
     user     : Users,
     session  : Sessions,
     scopes   : SUBSET Scopes,
     redirect : Redirects,
     pkce     : Verifiers \cup {None}]

\* origin is not a column of access tokens; it records which code or refresh
\* token the request spent (None for client_credentials).
AccessTokenRow ==
    [status  : {"active", "revoked", "expired", "deleted"},
     client  : Clients,
     user    : Users \cup {None},
     session : Sessions \cup {None},
     scopes  : SUBSET Scopes,
     origin  : Origins \cup {None}]

\* origin is previous_id when it is a refresh token; grant is the code the
\* whole chain began with.  A row that was rotated stays "rotated" when it is
\* revoked later: it is unusable either way.
RefreshTokenRow ==
    [status  : {"active", "expired", "rotated", "revoked", "deleted"},
     client  : Clients,
     user    : Users,
     session : Sessions \cup {None},
     scopes  : SUBSET Scopes,
     origin  : Origins,
     grant   : Codes]

\* A token request between two SQL statements: the statement it runs next, the
\* client settings read when it began, and what it has read since.
TokenReq ==
    [pc      : {"consume", "get", "loadUser", "rotate", "insertAT", "insertRT"},
     client  : Clients,
     cfg     : ClientConfigs,
     origin  : Origins \cup {None},
     user    : Users \cup {None},
     session : Sessions \cup {None},
     scopes  : SUBSET Scopes]

AuthReq ==
    [pc       : {"redirectURI", "session", "insertCode"},
     client   : Clients,
     redirect : Redirects,
     scopes   : SUBSET Scopes,
     pkce     : Verifiers \cup {None},
     consent  : BOOLEAN,
     session  : Sessions \cup {None}]

ASSUME OfflineIsScope == OfflineAccess \in Scopes
ASSUME ConfigsAreConfigs == ClientConfigs \subseteq ClientConfig
ASSUME SessionsHaveUsers == SessionUser \in [Sessions -> Users]
ASSUME CodesAreNotTokens == Codes \cap RefreshTokens = {}
ASSUME HoldersDiffer == RefreshTokens \cap {"none", "code", "request", "spent"} = {}
ASSUME NoneIsNoValue ==
    /\ None \notin Origins \cup Users \cup Sessions \cup Verifiers
    /\ None \notin ClientConfigs
    /\ None \notin CodeRow \cup AccessTokenRow \cup RefreshTokenRow
    /\ None \notin TokenReq \cup AuthReq

VARIABLES
    client,        \* settings of each client; None once it is soft-deleted
    deletedUsers,  \* users whose deleted_at is set
    session,       \* status of each session id
    code, at, rt,  \* the three token tables
    req,           \* token requests in flight; None: no request
    authz          \* authorization requests in flight; None: no request

tables == <<code, at, rt>>
vars == <<client, deletedUsers, session, code, at, rt, req, authz>>

SessionStatus == {"none", "live", "revoked", "expired", "deleted"}

TypeOK ==
    /\ client \in [Clients -> ClientConfigs \cup {None}]
    /\ deletedUsers \subseteq Users
    /\ session \in [Sessions -> SessionStatus]
    /\ code \in [Codes -> CodeRow \cup {None}]
    /\ at \in [AccessTokens -> AccessTokenRow \cup {None}]
    /\ rt \in [RefreshTokens -> RefreshTokenRow \cup {None}]
    /\ req \in [TokenReqs -> TokenReq \cup {None}]
    /\ authz \in [AuthReqs -> AuthReq \cup {None}]

Init ==
    /\ client \in [Clients -> ClientConfigs]
    /\ deletedUsers = {}
    /\ session = [s \in Sessions |-> "none"]
    /\ code = [k \in Codes |-> None]
    /\ at = [a \in AccessTokens |-> None]
    /\ rt = [t \in RefreshTokens |-> None]
    /\ req = [r \in TokenReqs |-> None]
    /\ authz = [z \in AuthReqs |-> None]

-----------------------------------------------------------------------------
(* Row predicates: the WHERE clauses of the queries.                       *)

\* GetOIDCClient: not deleted and enabled.
ClientUsable(c) == client[c] # None /\ client[c].enabled

\* The foreign key session_id: NULL, or a row that still exists.
SessionRowExists(s) == s \in Sessions => session[s] \notin {"none", "deleted"}

\* Mutation: the UPDATE that consumes a code forgets "consumed_at IS NULL".
CodeConsumableTwice(k) == code[k] # None /\ code[k].status \in {"issued", "consumed"}

CodeConsumable(k) == code[k] # None /\ code[k].status = "issued"

RefreshUsable(t) == rt[t] # None /\ rt[t].status = "active"

\* RotateOIDCRefreshToken tests rotated_at and revoked_at, not expires_at.
RefreshRotatable(t) == rt[t] # None /\ rt[t].status \in {"active", "expired"}

ReqAt(r, pc) == req[r] # None /\ req[r].pc = pc

GrantOf(o) == IF o \in Codes THEN o ELSE rt[o].grant

-----------------------------------------------------------------------------
(* GET and POST /oauth2/authorize                                          *)

\* ValidateAuthRequest: the row of the client, and what it says of the request; the
\* checked parameters travel in the handler.
ValidateAuthRequest(z, c, redirect, scopes, pkce) ==
    /\ authz[z] = None
    /\ ClientUsable(c)
    /\ "authorization_code" \in client[c].grants
    /\ (client[c].public \/ client[c].requirePKCE) => pkce # None
    /\ scopes \subseteq client[c].scopes
    /\ authz' = [authz EXCEPT ![z] =
           [pc |-> "redirectURI", client |-> c, redirect |-> redirect,
            scopes |-> scopes, pkce |-> pkce,
            consent |-> client[c].requireConsent, session |-> None]]
    /\ UNCHANGED <<client, deletedUsers, session, tables, req>>

\* ValidateRedirectURI, the second query: a client disabled meanwhile passes.
ValidateRedirectURI(z) ==
    /\ authz[z] # None
    /\ authz[z].pc = "redirectURI"
    /\ client[authz[z].client] # None
    /\ authz[z].redirect \in client[authz[z].client].redirects
    /\ authz' = [authz EXCEPT ![z].pc = "session"]
    /\ UNCHANGED <<client, deletedUsers, session, tables, req>>

\* authorize: with a live session it goes on to the code, unless it shows the
\* consent page.
LoadSession(z, s) ==
    /\ authz[z] # None
    /\ authz[z].pc = "session" /\ ~authz[z].consent
    /\ session[s] = "live"
    /\ authz' = [authz EXCEPT ![z].pc = "insertCode", ![z].session = s]
    /\ UNCHANGED <<client, deletedUsers, session, tables, req>>

\* authorizeConsent, decision "allow": a request of its own.  Its parameters are
\* whatever the form says; neither the client nor what it allows is looked at again.
AllowConsent(z, s, c, redirect, scopes, pkce) ==
    /\ authz[z] = None
    /\ session[s] = "live"
    /\ authz' = [authz EXCEPT ![z] =
           [pc |-> "insertCode", client |-> c, redirect |-> redirect,
            scopes |-> scopes, pkce |-> pkce, consent |-> FALSE, session |-> s]]
    /\ UNCHANGED <<client, deletedUsers, session, tables, req>>

\* issueCodeAndRedirect, Authorize, CreateOIDCAuthCode.
InsertCode(z, k) ==
    /\ authz[z] # None
    /\ authz[z].pc = "insertCode"
    /\ code[k] = None
    /\ SessionRowExists(authz[z].session)
    /\ code' = [code EXCEPT ![k] =
           [status |-> "issued", client |-> authz[z].client,
            user |-> SessionUser[authz[z].session],
            session |-> authz[z].session, scopes |-> authz[z].scopes,
            redirect |-> authz[z].redirect, pkce |-> authz[z].pkce]]
    /\ authz' = [authz EXCEPT ![z] = None]
    /\ UNCHANGED <<client, deletedUsers, session, at, rt, req>>

\* Every other way out of the handler: an error redirect, "deny", the consent page
\* (which keeps nothing here), a detour to the login page, a foreign key violation, a browser that does not come back.
LeaveAuthorize(z) ==
    /\ authz[z] # None
    /\ authz' = [authz EXCEPT ![z] = None]
    /\ UNCHANGED <<client, deletedUsers, session, tables, req>>

-----------------------------------------------------------------------------
(* POST /oauth2/token: authenticateClient starts every grant.              *)

Start(r, c, pc, origin, scopes) ==
    /\ req[r] = None
    /\ ClientUsable(c)
    /\ req' = [req EXCEPT ![r] =
           [pc |-> pc, client |-> c, cfg |-> client[c], origin |-> origin,
            user |-> None, session |-> None, scopes |-> scopes]]
    /\ UNCHANGED <<client, deletedUsers, session, tables, authz>>

ExchangeCode(r, c, k) ==
    /\ code[k] # None
    /\ Start(r, c, "consume", k, {})

RefreshGrant(r, c, t) ==
    /\ rt[t] # None
    /\ client[c] # None
    /\ "refresh_token" \in client[c].grants
    /\ Start(r, c, "get", t, {})

\* ClientCredentials has no code and no user: it goes straight to the insert.
ClientCredentials(r, c, scopes) ==
    /\ client[c] # None
    /\ ~client[c].public
    /\ "client_credentials" \in client[c].grants
    /\ scopes \subseteq client[c].scopes
    /\ Start(r, c, "insertAT", None, scopes)

\* Mutation: the code is not checked to belong to the client.
CodeMatchesAnyClient(r, row, redirect, verifier) ==
    /\ row.redirect = redirect
    /\ IF row.pkce # None
       THEN verifier = row.pkce
       ELSE ~req[r].cfg.requirePKCE /\ ~req[r].cfg.public

\* Mutation: a verifier is looked at only when the code has a challenge.
CodeMatchesWithoutPKCE(r, row, redirect, verifier) ==
    /\ row.client = req[r].client
    /\ row.redirect = redirect
    /\ row.pkce # None => verifier = row.pkce

\* The checks of ExchangeCode on the row it has already marked consumed.
CodeMatches(r, row, redirect, verifier) ==
    /\ row.client = req[r].client
    /\ row.redirect = redirect
    /\ IF row.pkce # None
       THEN verifier = row.pkce
       ELSE ~req[r].cfg.requirePKCE /\ ~req[r].cfg.public

\* ConsumeOIDCAuthCode: one UPDATE ... RETURNING, then the checks.  A request
\* that fails them has burnt the code.
ConsumeCode(r, redirect, verifier) ==
    /\ ReqAt(r, "consume")
    /\ CodeConsumable(req[r].origin)
    /\ LET k   == req[r].origin
           row == code[k]
       IN  /\ code' = [code EXCEPT ![k].status = "consumed"]
           /\ req' = [req EXCEPT ![r] =
                  IF CodeMatches(r, row, redirect, verifier)
                  THEN [@ EXCEPT !.pc = "loadUser", !.user = row.user,
                                 !.session = row.session, !.scopes = row.scopes]
                  ELSE None]
    /\ UNCHANGED <<client, deletedUsers, session, at, rt, authz>>

\* GetOIDCRefreshToken and the scope downgrade: the row is only read.
GetRefreshToken(r, scopes) ==
    /\ ReqAt(r, "get")
    /\ RefreshUsable(req[r].origin)
    /\ LET row == rt[req[r].origin]
       IN  /\ row.client = req[r].client
           /\ scopes \subseteq row.scopes
           /\ scopes = {} => row.scopes = {}  \* no scope parameter keeps them all
           /\ req' = [req EXCEPT ![r] =
                  [@ EXCEPT !.pc = "loadUser", !.user = row.user,
                            !.session = row.session, !.scopes = scopes]]
    /\ UNCHANGED <<client, deletedUsers, session, tables, authz>>

\* GetUserByID filters soft-deleted users; the status is not looked at.
LoadUser(r) ==
    /\ ReqAt(r, "loadUser")
    /\ req[r].user \notin deletedUsers
    /\ req' = [req EXCEPT ![r].pc =
                  IF req[r].origin \in Codes THEN "insertAT" ELSE "rotate"]
    /\ UNCHANGED <<client, deletedUsers, session, tables, authz>>

\* Mutations: the UPDATE that rotates forgets "rotated_at IS NULL", or
\* "revoked_at IS NULL".
RotateStatusIn(r, statuses) ==
    /\ ReqAt(r, "rotate")
    /\ rt[req[r].origin].status \in statuses
    /\ rt' = [rt EXCEPT ![req[r].origin].status = "rotated"]
    /\ req' = [req EXCEPT ![r].pc = "insertAT"]
    /\ UNCHANGED <<client, deletedUsers, session, code, at, authz>>

RotateAgain(r) == RotateStatusIn(r, {"active", "expired", "rotated"})
RotateRevoked(r) == RotateStatusIn(r, {"active", "expired", "revoked"})

RotateRefreshToken(r) ==
    /\ ReqAt(r, "rotate")
    /\ RefreshRotatable(req[r].origin)
    /\ rt' = [rt EXCEPT ![req[r].origin].status = "rotated"]
    /\ req' = [req EXCEPT ![r].pc = "insertAT"]
    /\ UNCHANGED <<client, deletedUsers, session, code, at, authz>>

\* issueTokensWithRotation adds a refresh token under these conditions; the
\* grant list is the one read when the request began.
WantsRefreshToken(r) ==
    /\ req[r].origin # None
    /\ OfflineAccess \in req[r].scopes
    /\ "refresh_token" \in req[r].cfg.grants

InsertAccessToken(r, a) ==
    /\ ReqAt(r, "insertAT")
    /\ at[a] = None
    /\ SessionRowExists(req[r].session)
    /\ at' = [at EXCEPT ![a] =
           [status |-> "active", client |-> req[r].client, user |-> req[r].user,
            session |-> req[r].session, scopes |-> req[r].scopes,
            origin |-> req[r].origin]]
    /\ req' = [req EXCEPT ![r] =
                  IF WantsRefreshToken(r) THEN [@ EXCEPT !.pc = "insertRT"] ELSE None]
    /\ UNCHANGED <<client, deletedUsers, session, code, rt, authz>>

InsertRefreshToken(r, t) ==
    /\ ReqAt(r, "insertRT")
    /\ rt[t] = None
    /\ SessionRowExists(req[r].session)
    /\ rt' = [rt EXCEPT ![t] =
           [status |-> "active", client |-> req[r].client, user |-> req[r].user,
            session |-> req[r].session, scopes |-> req[r].scopes,
            origin |-> req[r].origin, grant |-> GrantOf(req[r].origin)]]
    /\ req' = [req EXCEPT ![r] = None]
    /\ UNCHANGED <<client, deletedUsers, session, code, at, authz>>

\* A request ends early: an error answer (a WHERE clause that selects nothing,
\* a foreign key violation), a client that disconnects, a crash of the server.
\* Nothing that was committed is undone.
AbandonUnrotates(r) ==  \* Mutation: a failed refresh gives the token back.
    /\ req[r] # None
    /\ req' = [req EXCEPT ![r] = None]
    /\ rt' = [t \in RefreshTokens |->
           IF t = req[r].origin /\ rt[t].status = "rotated"
           THEN [rt[t] EXCEPT !.status = "active"] ELSE rt[t]]
    /\ UNCHANGED <<client, deletedUsers, session, code, at, authz>>

Abandon(r) ==
    /\ req[r] # None
    /\ req' = [req EXCEPT ![r] = None]
    /\ UNCHANGED <<client, deletedUsers, session, tables, authz>>

-----------------------------------------------------------------------------
(* POST /oauth2/revoke                                                     *)

Hints == {"", "access_token", "refresh_token"}

\* Revoke: without a hint, or with "access_token", the UPDATE of the access
\* token table reports no error whether or not it found a row, and the
\* handler stops there; any other hint goes to the refresh tokens.
Revoke(x, hint) ==
    /\ \E c \in Clients : ClientUsable(c)
    /\ \/ /\ hint \in {"", "access_token"}
          /\ at' = [a \in AccessTokens |->
                 IF a = x /\ at[a] # None /\ at[a].status = "active"
                 THEN [at[a] EXCEPT !.status = "revoked"] ELSE at[a]]
          /\ UNCHANGED rt
       \/ /\ hint \notin {"", "access_token"}
          /\ rt' = [t \in RefreshTokens |->
                 IF t = x /\ rt[t] # None /\ rt[t].status \in {"active", "expired"}
                 THEN [rt[t] EXCEPT !.status = "revoked"] ELSE rt[t]]
          /\ UNCHANGED at
    /\ UNCHANGED <<client, deletedUsers, session, code, req, authz>>

-----------------------------------------------------------------------------
(* Sessions, users and clients change under the handlers' feet.            *)

\* session.Create at the end of a login; a fresh id.
Login(s) ==
    /\ session[s] = "none"
    /\ session' = [session EXCEPT ![s] = "live"]
    /\ UNCHANGED <<client, deletedUsers, tables, req, authz>>

\* Logout, or an administrator: only the session row is touched.
RevokeSession(s) ==
    /\ session[s] = "live"
    /\ session' = [session EXCEPT ![s] = "revoked"]
    /\ UNCHANGED <<client, deletedUsers, tables, req, authz>>

\* SoftDeleteUser; revoking the sessions is a second statement.
DeleteUser(u) ==
    /\ u \notin deletedUsers
    /\ deletedUsers' = deletedUsers \cup {u}
    /\ UNCHANGED <<client, session, tables, req, authz>>

\* UpdateOIDCClient; is_public is not among the editable fields.
UpdateClient(c, cfg) ==
    /\ client[c] # None
    /\ cfg # client[c]
    /\ cfg.public = client[c].public
    /\ client' = [client EXCEPT ![c] = cfg]
    /\ UNCHANGED <<deletedUsers, session, tables, req, authz>>

\* SoftDeleteOIDCClient: the tokens stay.
DeleteClient(c) ==
    /\ client[c] # None
    /\ client' = [client EXCEPT ![c] = None]
    /\ UNCHANGED <<deletedUsers, session, tables, req, authz>>

-----------------------------------------------------------------------------
(* The clock, and the clean-up goroutine.  Rows pass their expires_at one  *)
(* at a time in any order, which covers every choice of lifetimes.         *)

ExpireSession(s) ==
    /\ session[s] = "live"
    /\ session' = [session EXCEPT ![s] = "expired"]
    /\ UNCHANGED <<client, deletedUsers, tables, req, authz>>

ExpireCode(k) ==
    /\ CodeConsumable(k)
    /\ code' = [code EXCEPT ![k].status = "expired"]
    /\ UNCHANGED <<client, deletedUsers, session, at, rt, req, authz>>

ExpireAccessToken(a) ==
    /\ at[a] # None
    /\ at[a].status = "active"
    /\ at' = [at EXCEPT ![a].status = "expired"]
    /\ UNCHANGED <<client, deletedUsers, session, code, rt, req, authz>>

ExpireRefreshToken(t) ==
    /\ RefreshUsable(t)
    /\ rt' = [rt EXCEPT ![t].status = "expired"]
    /\ UNCHANGED <<client, deletedUsers, session, code, at, req, authz>>

\* Rows a sweep may find more than an hour past their expires_at: consumed,
\* revoked and rotated rows expire too.
Sweepable(table) ==
    {x \in DOMAIN table : table[x] # None /\ table[x].status \notin {"issued", "active", "deleted"}}

\* Mutation: the foreign key of a code is ON DELETE SET NULL.
SweptToNull(table, gone) ==
    [x \in DOMAIN table |->
        IF x \in gone THEN [table[x] EXCEPT !.session = None] ELSE table[x]]

Swept(table, gone) ==
    [x \in DOMAIN table |->
        IF x \in gone THEN [table[x] EXCEPT !.status = "deleted"] ELSE table[x]]

\* DeleteExpiredOIDCTokens: three statements, each a step.
SweepCodes(gone) ==
    /\ gone # {} /\ gone \subseteq Sweepable(code)
    /\ code' = Swept(code, gone)
    /\ UNCHANGED <<client, deletedUsers, session, at, rt, req, authz>>

SweepAccessTokens(gone) ==
    /\ gone # {} /\ gone \subseteq Sweepable(at)
    /\ at' = Swept(at, gone)
    /\ UNCHANGED <<client, deletedUsers, session, code, rt, req, authz>>

SweepRefreshTokens(gone) ==
    /\ gone # {} /\ gone \subseteq Sweepable(rt)
    /\ rt' = Swept(rt, gone)
    /\ UNCHANGED <<client, deletedUsers, session, code, at, req, authz>>

Detached(table, gone) ==
    [x \in DOMAIN table |->
        IF table[x] # None /\ table[x].session \in gone
        THEN [table[x] EXCEPT !.session = None] ELSE table[x]]

\* DeleteExpiredSessions: authorization codes go with their session, tokens
\* lose their session_id.
SweepSessions(gone) ==
    /\ gone # {} /\ gone \subseteq {s \in Sessions : session[s] \in {"revoked", "expired"}}
    /\ session' = [s \in Sessions |-> IF s \in gone THEN "deleted" ELSE session[s]]
    /\ code' = Swept(code, {k \in Codes : code[k] # None /\ code[k].session \in gone})
    /\ at' = Detached(at, gone)
    /\ rt' = Detached(rt, gone)
    /\ UNCHANGED <<client, deletedUsers, req, authz>>

-----------------------------------------------------------------------------
Authorize ==
    \E z \in AuthReqs :
        \/ \E c \in Clients, redirect \in Redirects, scopes \in SUBSET Scopes,
              pkce \in Verifiers \cup {None} :
              \/ ValidateAuthRequest(z, c, redirect, scopes, pkce)
              \/ \E s \in Sessions : AllowConsent(z, s, c, redirect, scopes, pkce)
        \/ ValidateRedirectURI(z)
        \/ \E s \in Sessions : LoadSession(z, s)
        \/ \E k \in Codes : InsertCode(z, k)
        \/ LeaveAuthorize(z)

TokenStep(r) ==
    \/ \E c \in Clients :
          \/ \E k \in Codes : ExchangeCode(r, c, k)
          \/ \E t \in RefreshTokens : RefreshGrant(r, c, t)
          \/ \E scopes \in SUBSET Scopes : ClientCredentials(r, c, scopes)
    \/ \E redirect \in Redirects, verifier \in Verifiers \cup {None} :
          ConsumeCode(r, redirect, verifier)
    \/ \E scopes \in SUBSET Scopes : GetRefreshToken(r, scopes)
    \/ LoadUser(r)
    \/ RotateRefreshToken(r)
    \/ \E a \in AccessTokens : InsertAccessToken(r, a)
    \/ \E t \in RefreshTokens : InsertRefreshToken(r, t)
    \/ Abandon(r)

Token == \E r \in TokenReqs : TokenStep(r)

Revocation ==
    \E x \in AccessTokens \cup RefreshTokens, hint \in Hints : Revoke(x, hint)

Administration ==
    \/ \E s \in Sessions : Login(s) \/ RevokeSession(s)
    \/ \E u \in Users : DeleteUser(u)
    \/ \E c \in Clients : DeleteClient(c) \/ \E cfg \in ClientConfigs : UpdateClient(c, cfg)

Expiry ==
    \/ \E s \in Sessions : ExpireSession(s)
    \/ \E k \in Codes : ExpireCode(k)
    \/ \E a \in AccessTokens : ExpireAccessToken(a)
    \/ \E t \in RefreshTokens : ExpireRefreshToken(t)

Cleanup ==
    \/ \E gone \in SUBSET Codes : SweepCodes(gone)
    \/ \E gone \in SUBSET AccessTokens : SweepAccessTokens(gone)
    \/ \E gone \in SUBSET RefreshTokens : SweepRefreshTokens(gone)
    \/ \E gone \in SUBSET Sessions : SweepSessions(gone)

Next == Authorize \/ Token \/ Revocation \/ Administration \/ Expiry \/ Cleanup

Spec == Init /\ [][Next]_vars

-----------------------------------------------------------------------------
(* Properties                                                              *)

\* A request that has spent its code, or rotated its refresh token, and has
\* not answered yet: for the moment the grant is in its hands.
Carrying(r) ==
    /\ req[r] # None
    /\ req[r].origin # None
    /\ \/ req[r].origin \in Codes /\ req[r].pc # "consume"
       \/ req[r].origin \in RefreshTokens /\ req[r].pc \in {"insertAT", "insertRT"}

\* However the token requests interleave, a grant can be continued from one
\* place only: the unspent code, or one request in flight, or one refresh
\* token that can still be rotated.  A second place would let two parties
\* extend the same authorization (ExchangeCode, RefreshTokens).
OneHolderPerGrant ==
    /\ \A r1, r2 \in TokenReqs :
          Carrying(r1) /\ Carrying(r2) /\ GrantOf(req[r1].origin) = GrantOf(req[r2].origin)
            => r1 = r2
    /\ \A r \in TokenReqs, t \in RefreshTokens :
          Carrying(r) /\ RefreshRotatable(t) => GrantOf(req[r].origin) # rt[t].grant
    /\ \A t1, t2 \in RefreshTokens :
          RefreshRotatable(t1) /\ RefreshRotatable(t2) /\ rt[t1].grant = rt[t2].grant
            => t1 = t2
    /\ \A k \in Codes : CodeConsumable(k) =>
          /\ \A r \in TokenReqs : Carrying(r) => GrantOf(req[r].origin) # k
          /\ \A t \in RefreshTokens : rt[t] # None => rt[t].grant # k

\* An authorization code, or a refresh token, is redeemed at most once: no two
\* access tokens and no two refresh tokens were minted from the same one, so
\* the previous_id links of the rotation chain never fork.
RedeemedOnce ==
    /\ \A a1, a2 \in AccessTokens :
          /\ at[a1] # None /\ at[a2] # None
          /\ at[a1].origin # None /\ at[a1].origin = at[a2].origin
          => a1 = a2
    /\ \A t1, t2 \in RefreshTokens :
          rt[t1] # None /\ rt[t2] # None /\ rt[t1].origin = rt[t2].origin => t1 = t2

\* What a token conveys never exceeds what its predecessor conveyed: the same
\* client and user, no further scope, and the predecessor's session or none.
Narrows(token, from) ==
    /\ token.client = from.client
    /\ token.user = from.user
    /\ token.scopes \subseteq from.scopes

\* Every user token, however many refreshes away, is for the client and user
\* the code was issued to and within the scopes the user granted; its session,
\* if it still names one, is the one the user authorized from.
BoundToGrant ==
    /\ \A t \in RefreshTokens : rt[t] # None =>
          /\ Narrows(rt[t], code[rt[t].grant])
          /\ rt[t].session \in {None, code[rt[t].grant].session}
          /\ rt[t].origin \in RefreshTokens => Narrows(rt[t], rt[rt[t].origin])
    /\ \A a \in AccessTokens : at[a] # None /\ at[a].origin # None =>
          /\ Narrows(at[a], code[GrantOf(at[a].origin)])
          /\ at[a].session \in {None, code[GrantOf(at[a].origin)].session}
          /\ at[a].origin \in RefreshTokens => Narrows(at[a], rt[at[a].origin])

\* A refresh token that was revoked before it was rotated stays revoked until
\* it is swept, and never is the origin of another token, even if a request
\* had read it as valid when the revocation committed
\* (RotateOIDCRefreshToken's WHERE clause).
Revoked(t) == rt[t] # None /\ rt[t].status = "revoked"

RevokedIsFinal ==
    [][\A t \in RefreshTokens : Revoked(t) =>
        /\ rt'[t].status \in {"revoked", "deleted"}
        /\ \A u \in RefreshTokens : rt'[u] # None => rt'[u].origin # t
        /\ \A a \in AccessTokens : at'[a] # None => at'[a].origin # t]_vars

\* PKCE cannot be evaded by getting a code before the requirement was turned
\* on: a request that read a client requiring PKCE mints nothing from a code
\* without a challenge (ExchangeCode).
PKCEEnforced ==
    \A r \in TokenReqs :
        Carrying(r) /\ req[r].origin \in Codes /\ (req[r].cfg.requirePKCE \/ req[r].cfg.public)
          => code[req[r].origin].pkce # None

-----------------------------------------------------------------------------
(* The inductive invariant behind OneHolderPerGrant and RedeemedOnce.      *)

\* A row that was inserted at some time.
Issued(o) == IF o \in Codes THEN code[o] # None ELSE rt[o] # None

\* What a handler's locals hold at each statement.
Stages ==
    /\ \A z \in AuthReqs : authz[z] # None /\ authz[z].pc = "insertCode" =>
          authz[z].session # None
    /\ \A r \in TokenReqs : req[r] # None =>
          /\ req[r].origin # None => Issued(req[r].origin)
          /\ req[r].pc = "consume" => req[r].origin \in Codes
          /\ req[r].pc \in {"get", "rotate"} => req[r].origin \in RefreshTokens
          /\ req[r].pc \in {"loadUser", "insertRT"} => req[r].origin # None
          /\ req[r].origin # None /\ req[r].pc \notin {"consume", "get"} =>
                req[r].user # None

\* A code that was consumed, a refresh token that was rotated; both may have
\* been swept since.
Spent(o) ==
    IF o \in Codes THEN code[o] # None /\ code[o].status \in {"consumed", "deleted"}
                   ELSE rt[o] # None /\ rt[o].status \in {"rotated", "deleted"}

\* Whatever was minted, or is about to be, comes from something spent, and a
\* chain of refresh tokens stays within one grant.
Lineage ==
    /\ \A t \in RefreshTokens : rt[t] # None =>
          /\ Spent(rt[t].origin)
          /\ Spent(rt[t].grant)
          /\ GrantOf(rt[t].origin) = rt[t].grant
    /\ \A a \in AccessTokens : at[a] # None /\ at[a].origin # None => Spent(at[a].origin)
    /\ \A r \in TokenReqs : Carrying(r) => Spent(req[r].origin)

\* A request that is about to insert a token is the first to do so.
NotYetMinted ==
    \A r \in TokenReqs : Carrying(r) =>
        /\ \A t \in RefreshTokens : rt[t] # None => rt[t].origin # req[r].origin
        /\ req[r].pc # "insertRT" =>
              \A a \in AccessTokens : at[a] # None => at[a].origin # req[r].origin

GrantInv == OneHolderPerGrant /\ RedeemedOnce /\ Stages /\ Lineage /\ NotYetMinted

-----------------------------------------------------------------------------
(* The refinement: who holds each grant, read off the tables.              *)

Holder(k) ==
    CASE code[k] = None -> "none"
      [] CodeConsumable(k) -> "code"
      [] \E r \in TokenReqs : Carrying(r) /\ GrantOf(req[r].origin) = k -> "request"
      [] \E t \in RefreshTokens : RefreshRotatable(t) /\ rt[t].grant = k ->
            CHOOSE t \in RefreshTokens : RefreshRotatable(t) /\ rt[t].grant = k
      [] OTHER -> "spent"

Custody == INSTANCE GrantCustody WITH
    Grants <- Codes, Tokens <- RefreshTokens,
    holder <- [k \in Codes |-> Holder(k)],
    seen <- {t \in RefreshTokens : rt[t] # None}

\* The token service implements the abstract promise of GrantCustody: every
\* statement of every handler moves a grant from its one holder to the next,
\* loses it, or leaves it where it is.
GrantIsHandedOver == Custody!CustodySpec
=============================================================================

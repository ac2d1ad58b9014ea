--------------------------- MODULE OIDCTokens_proofs ---------------------------
(***************************************************************************)
(* Proofs about the token service, for any number of clients, users,       *)
(* sessions, codes, tokens and concurrent requests.                        *)
(***************************************************************************)
EXTENDS OIDCTokens, TLAPS

Typed == TypeOK /\ Stages

-----------------------------------------------------------------------------
(* Typing.  TypeOK alone is not inductive: the row a handler inserts is    *)
(* well typed only if its locals were filled in (Stages).                  *)

\* The steps of /oauth2/authorize keep every variable in its type.
LEMMA AuthorizeTypes == ASSUME Typed, Authorize PROVE TypeOK'
<1> USE DEF Typed
<1>1. ASSUME NEW z \in AuthReqs, NEW c \in Clients, NEW redirect \in Redirects,
             NEW scopes \in SUBSET Scopes, NEW pkce \in Verifiers \cup {None},
             ValidateAuthRequest(z, c, redirect, scopes, pkce)
      PROVE  TypeOK'
  <2>1. client[c] \in ClientConfig
    BY <1>1, ConfigsAreConfigs DEF ValidateAuthRequest, ClientUsable, TypeOK
  <2>2. [pc |-> "redirectURI", client |-> c, redirect |-> redirect,
         scopes |-> scopes, pkce |-> pkce,
         consent |-> client[c].requireConsent, session |-> None] \in AuthReq
    BY <2>1 DEF AuthReq, ClientConfig
  <2>3. authz' \in [AuthReqs -> AuthReq \cup {None}]
    BY <1>1, <2>2 DEF ValidateAuthRequest, TypeOK
  <2> QED
    BY <1>1, <2>3 DEF ValidateAuthRequest, TypeOK, tables
<1>2. ASSUME NEW z \in AuthReqs, NEW s \in Sessions, LoadSession(z, s)
      PROVE  TypeOK'
  <2>1. authz[z] \in AuthReq
    BY <1>2 DEF LoadSession, TypeOK
  <2>2. authz' \in [AuthReqs -> AuthReq \cup {None}]
    BY <1>2, <2>1 DEF LoadSession, TypeOK, AuthReq
  <2> QED
    BY <1>2, <2>2 DEF LoadSession, TypeOK, tables
<1>3. ASSUME NEW z \in AuthReqs, NEW s \in Sessions, NEW c \in Clients,
             NEW redirect \in Redirects, NEW scopes \in SUBSET Scopes,
             NEW pkce \in Verifiers \cup {None},
             AllowConsent(z, s, c, redirect, scopes, pkce)
      PROVE  TypeOK'
  <2>1. [pc |-> "insertCode", client |-> c, redirect |-> redirect, scopes |-> scopes,
         pkce |-> pkce, consent |-> FALSE, session |-> s] \in AuthReq
    BY DEF AuthReq
  <2>2. authz' \in [AuthReqs -> AuthReq \cup {None}]
    BY <1>3, <2>1 DEF AllowConsent, TypeOK
  <2> QED
    BY <1>3, <2>2 DEF AllowConsent, TypeOK, tables
<1>4. ASSUME NEW z \in AuthReqs, NEW k \in Codes, InsertCode(z, k)
      PROVE  TypeOK'
  <2>1. authz[z] \in AuthReq /\ authz[z].session \in Sessions
    BY <1>4 DEF InsertCode, TypeOK, Stages, AuthReq
  <2>2. [status |-> "issued", client |-> authz[z].client,
         user |-> SessionUser[authz[z].session],
         session |-> authz[z].session, scopes |-> authz[z].scopes,
         redirect |-> authz[z].redirect, pkce |-> authz[z].pkce] \in CodeRow
    BY <2>1, SessionsHaveUsers DEF CodeRow, AuthReq
  <2>3. code' \in [Codes -> CodeRow \cup {None}]
    BY <1>4, <2>2 DEF InsertCode, TypeOK
  <2> QED
    BY <1>4, <2>3 DEF InsertCode, TypeOK
<1>5. ASSUME NEW z \in AuthReqs, LeaveAuthorize(z) PROVE TypeOK'
  BY <1>5 DEF LeaveAuthorize, TypeOK, tables
<1>6. ASSUME NEW z \in AuthReqs, ValidateRedirectURI(z) PROVE TypeOK'
  <2>1. authz[z] \in AuthReq
    BY <1>6 DEF ValidateRedirectURI, TypeOK
  <2>2. authz' \in [AuthReqs -> AuthReq \cup {None}]
    BY <1>6, <2>1 DEF ValidateRedirectURI, TypeOK, AuthReq
  <2> QED
    BY <1>6, <2>2 DEF ValidateRedirectURI, TypeOK, tables
<1> QED
  BY <1>1, <1>2, <1>3, <1>4, <1>5, <1>6 DEF Authorize

\* Starting a request leaves the tables alone and files a well-typed record.
LEMMA StartTypes ==
    ASSUME TypeOK, NEW r \in TokenReqs, NEW c \in Clients,
           NEW pc \in {"consume", "get", "insertAT"},
           NEW o \in Origins \cup {None}, NEW scopes \in SUBSET Scopes,
           Start(r, c, pc, o, scopes)
    PROVE  TypeOK'
<1>1. client[c] \in ClientConfigs
  BY DEF Start, ClientUsable, TypeOK
<1>2. [pc |-> pc, client |-> c, cfg |-> client[c], origin |-> o,
       user |-> None, session |-> None, scopes |-> scopes] \in TokenReq
  BY <1>1 DEF TokenReq
<1>3. req' \in [TokenReqs -> TokenReq \cup {None}]
  BY <1>2 DEF Start, TypeOK
<1> QED
  BY <1>3 DEF Start, TypeOK, tables

\* The steps of /oauth2/token keep every variable in its type.
LEMMA TokenTypes == ASSUME Typed, Token PROVE TypeOK'
<1> USE DEF Typed
<1>1. PICK r \in TokenReqs : TokenStep(r)
  BY DEF Token
<1>2. req[r] # None => req[r] \in TokenReq
  BY DEF TypeOK
<1>3. ASSUME NEW c \in Clients,
             \/ \E k \in Codes : ExchangeCode(r, c, k)
             \/ \E t \in RefreshTokens : RefreshGrant(r, c, t)
             \/ \E scopes \in SUBSET Scopes : ClientCredentials(r, c, scopes)
      PROVE  TypeOK'
  BY <1>3, StartTypes DEF ExchangeCode, RefreshGrant, ClientCredentials, Origins
<1>4. ASSUME NEW redirect \in Redirects, NEW verifier \in Verifiers \cup {None},
             ConsumeCode(r, redirect, verifier)
      PROVE  TypeOK'
  <2>1. req[r].origin \in Codes /\ code[req[r].origin] \in CodeRow
    BY <1>4 DEF ConsumeCode, ReqAt, Stages, TypeOK, CodeConsumable
  <2>2. code' \in [Codes -> CodeRow \cup {None}]
    BY <1>4, <2>1 DEF ConsumeCode, TypeOK, CodeRow
  <2>3. req' \in [TokenReqs -> TokenReq \cup {None}]
    BY <1>2, <1>4, <2>1 DEF ConsumeCode, ReqAt, TypeOK, CodeRow, TokenReq
  <2> QED
    BY <1>4, <2>2, <2>3 DEF ConsumeCode, TypeOK
<1>5. ASSUME NEW scopes \in SUBSET Scopes, GetRefreshToken(r, scopes)
      PROVE  TypeOK'
  <2>1. req[r].origin \in RefreshTokens /\ rt[req[r].origin] \in RefreshTokenRow
    BY <1>5 DEF GetRefreshToken, ReqAt, Stages, TypeOK, RefreshUsable
  <2>2. req' \in [TokenReqs -> TokenReq \cup {None}]
    BY <1>2, <1>5, <2>1 DEF GetRefreshToken, ReqAt, TypeOK, RefreshTokenRow, TokenReq
  <2> QED
    BY <1>5, <2>2 DEF GetRefreshToken, TypeOK, tables
<1>6. ASSUME LoadUser(r) PROVE TypeOK'
  <2>1. req' \in [TokenReqs -> TokenReq \cup {None}]
    BY <1>2, <1>6 DEF LoadUser, ReqAt, TypeOK, TokenReq
  <2> QED
    BY <1>6, <2>1 DEF LoadUser, TypeOK, tables
<1>7. ASSUME RotateRefreshToken(r) PROVE TypeOK'
  <2>1. req[r].origin \in RefreshTokens /\ rt[req[r].origin] \in RefreshTokenRow
    BY <1>7 DEF RotateRefreshToken, RefreshRotatable, ReqAt, Stages, TypeOK
  <2>2. rt' \in [RefreshTokens -> RefreshTokenRow \cup {None}]
    BY <1>7, <2>1 DEF RotateRefreshToken, TypeOK, RefreshTokenRow
  <2>3. req' \in [TokenReqs -> TokenReq \cup {None}]
    BY <1>2, <1>7 DEF RotateRefreshToken, ReqAt, TypeOK, TokenReq
  <2> QED
    BY <1>7, <2>2, <2>3 DEF RotateRefreshToken, TypeOK
<1>8. ASSUME NEW a \in AccessTokens, InsertAccessToken(r, a) PROVE TypeOK'
  <2>1. req[r] \in TokenReq
    BY <1>2, <1>8 DEF InsertAccessToken, ReqAt
  <2>2. [status |-> "active", client |-> req[r].client, user |-> req[r].user,
         session |-> req[r].session, scopes |-> req[r].scopes,
         origin |-> req[r].origin] \in AccessTokenRow
    BY <2>1 DEF AccessTokenRow, TokenReq
  <2>3. at' \in [AccessTokens -> AccessTokenRow \cup {None}]
    BY <1>8, <2>2 DEF InsertAccessToken, TypeOK
  <2>4. req' \in [TokenReqs -> TokenReq \cup {None}]
    BY <1>8, <2>1 DEF InsertAccessToken, TypeOK, TokenReq
  <2> QED
    BY <1>8, <2>3, <2>4 DEF InsertAccessToken, TypeOK
<1>9. ASSUME NEW t \in RefreshTokens, InsertRefreshToken(r, t) PROVE TypeOK'
  <2>1. req[r] \in TokenReq /\ req[r].user \in Users /\ req[r].origin \in Origins
    BY <1>2, <1>9 DEF InsertRefreshToken, ReqAt, Stages, TokenReq
  <2>2. GrantOf(req[r].origin) \in Codes
    BY <1>9, <2>1, NoneIsNoValue
    DEF InsertRefreshToken, ReqAt, Stages, Issued, GrantOf, Origins, TypeOK, RefreshTokenRow
  <2>3. [status |-> "active", client |-> req[r].client, user |-> req[r].user,
         session |-> req[r].session, scopes |-> req[r].scopes,
         origin |-> req[r].origin, grant |-> GrantOf(req[r].origin)] \in RefreshTokenRow
    BY <2>1, <2>2 DEF RefreshTokenRow, TokenReq
  <2>4. rt' \in [RefreshTokens -> RefreshTokenRow \cup {None}]
    BY <1>9, <2>3 DEF InsertRefreshToken, TypeOK
  <2> QED
    BY <1>9, <2>4 DEF InsertRefreshToken, TypeOK
<1>10. ASSUME Abandon(r) PROVE TypeOK'
  BY <1>10 DEF Abandon, TypeOK, tables
<1> QED
  BY <1>1, <1>3, <1>4, <1>5, <1>6, <1>7, <1>8, <1>9, <1>10 DEF TokenStep

-----------------------------------------------------------------------------
(* The steps that mint nothing.  Everything except the token endpoint and  *)
(* the insertion of a code can only make rows less usable.                 *)

CodeDecays(k) ==
    /\ code[k] = None <=> code'[k] = None
    /\ code[k] # None =>
          /\ code'[k] \in CodeRow
          /\ code'[k].client = code[k].client
          /\ code'[k].user = code[k].user
          /\ code'[k].session = code[k].session
          /\ code'[k].scopes = code[k].scopes
          /\ code'[k].pkce = code[k].pkce
          /\ code'[k].status = "issued" => code[k].status = "issued"
          /\ code[k].status \in {"consumed", "deleted"} =>
                code'[k].status \in {"consumed", "deleted"}

AccessTokenDecays(a) ==
    /\ at[a] = None <=> at'[a] = None
    /\ at[a] # None =>
          /\ at'[a] \in AccessTokenRow
          /\ at'[a].client = at[a].client
          /\ at'[a].user = at[a].user
          /\ at'[a].session \in {at[a].session, None}
          /\ at'[a].scopes = at[a].scopes
          /\ at'[a].origin = at[a].origin

RefreshTokenDecays(t) ==
    /\ rt[t] = None <=> rt'[t] = None
    /\ rt[t] # None =>
          /\ rt'[t] \in RefreshTokenRow
          /\ rt'[t].client = rt[t].client
          /\ rt'[t].user = rt[t].user
          /\ rt'[t].session \in {rt[t].session, None}
          /\ rt'[t].scopes = rt[t].scopes
          /\ rt'[t].origin = rt[t].origin
          /\ rt'[t].grant = rt[t].grant
          /\ rt'[t].status \in {"active", "expired"} => rt[t].status \in {"active", "expired"}
          /\ rt[t].status \in {"rotated", "deleted"} =>
                rt'[t].status \in {"rotated", "deleted"}
          /\ rt[t].status = "revoked" => rt'[t].status \in {"revoked", "deleted"}

\* Rows may lose usability; nobody gains a row or a grant.
Decay ==
    /\ \A k \in Codes : CodeDecays(k)
    /\ \A a \in AccessTokens : AccessTokenDecays(a)
    /\ \A t \in RefreshTokens : RefreshTokenDecays(t)

\* Rows left alone decay.
LEMMA UnchangedCodesDecay ==
    ASSUME TypeOK, UNCHANGED code PROVE \A k \in Codes : CodeDecays(k)
BY DEF TypeOK, CodeDecays

LEMMA UnchangedAccessTokensDecay ==
    ASSUME TypeOK, UNCHANGED at PROVE \A a \in AccessTokens : AccessTokenDecays(a)
BY DEF TypeOK, AccessTokenDecays

LEMMA UnchangedRefreshTokensDecay ==
    ASSUME TypeOK, UNCHANGED rt PROVE \A t \in RefreshTokens : RefreshTokenDecays(t)
BY DEF TypeOK, RefreshTokenDecays

\* So do rows that are kept, or move to a worse status, or lose their session.
LEMMA CodesDecay ==
    ASSUME TypeOK,
           \A k \in Codes :
              \/ code'[k] = code[k]
              \/ /\ code[k] # None
                 /\ \/ code'[k] = [code[k] EXCEPT !.status = "deleted"]
                    \/ /\ code[k].status = "issued"
                       /\ code'[k] = [code[k] EXCEPT !.status = "expired"]
    PROVE  \A k \in Codes : CodeDecays(k)
<1> TAKE k \in Codes
<1>1. code[k] # None => code[k] \in CodeRow
  BY DEF TypeOK
<1>2. CASE code'[k] = code[k]
  BY <1>1, <1>2 DEF CodeDecays
<1>3. ASSUME code[k] # None, NEW s \in {"deleted", "expired"},
             code'[k] = [code[k] EXCEPT !.status = s],
             s = "expired" => code[k].status = "issued"
      PROVE  CodeDecays(k)
  <2>1. code'[k] \in CodeRow
    BY <1>1, <1>3 DEF CodeRow
  <2>2. code'[k] # None
    BY <2>1, NoneIsNoValue
  <2> QED
    BY <1>1, <1>3, <2>1, <2>2 DEF CodeDecays, CodeRow
<1> QED
  BY <1>2, <1>3

LEMMA AccessTokensDecay ==
    ASSUME TypeOK,
           \A a \in AccessTokens :
              \/ at'[a] = at[a]
              \/ /\ at[a] # None
                 /\ \/ \E s \in {"revoked", "expired", "deleted"} :
                          at'[a] = [at[a] EXCEPT !.status = s]
                    \/ at'[a] = [at[a] EXCEPT !.session = None]
    PROVE  \A a \in AccessTokens : AccessTokenDecays(a)
<1> TAKE a \in AccessTokens
<1>1. at[a] # None => at[a] \in AccessTokenRow
  BY DEF TypeOK
<1>2. CASE at'[a] = at[a]
  BY <1>1, <1>2 DEF AccessTokenDecays
<1>3. ASSUME at[a] # None, NEW s \in {"revoked", "expired", "deleted"},
             at'[a] = [at[a] EXCEPT !.status = s]
      PROVE  AccessTokenDecays(a)
  <2>1. at'[a] \in AccessTokenRow
    BY <1>1, <1>3 DEF AccessTokenRow
  <2>2. at'[a] # None
    BY <2>1, NoneIsNoValue
  <2> QED
    BY <1>1, <1>3, <2>1, <2>2 DEF AccessTokenDecays, AccessTokenRow
<1>4. ASSUME at[a] # None, at'[a] = [at[a] EXCEPT !.session = None]
      PROVE  AccessTokenDecays(a)
  <2>1. at'[a] \in AccessTokenRow
    BY <1>1, <1>4 DEF AccessTokenRow
  <2>2. at'[a] # None
    BY <2>1, NoneIsNoValue
  <2> QED
    BY <1>1, <1>4, <2>1, <2>2 DEF AccessTokenDecays, AccessTokenRow
<1> QED
  BY <1>2, <1>3, <1>4

LEMMA RefreshTokensDecay ==
    ASSUME TypeOK,
           \A t \in RefreshTokens :
              \/ rt'[t] = rt[t]
              \/ /\ rt[t] # None
                 /\ \/ rt'[t] = [rt[t] EXCEPT !.status = "deleted"]
                    \/ /\ rt[t].status \in {"active", "expired"}
                       /\ \E s \in {"revoked", "expired"} :
                             rt'[t] = [rt[t] EXCEPT !.status = s]
                    \/ rt'[t] = [rt[t] EXCEPT !.session = None]
    PROVE  \A t \in RefreshTokens : RefreshTokenDecays(t)
<1> TAKE t \in RefreshTokens
<1>1. rt[t] # None => rt[t] \in RefreshTokenRow
  BY DEF TypeOK
<1>2. CASE rt'[t] = rt[t]
  BY <1>1, <1>2 DEF RefreshTokenDecays
<1>3. ASSUME rt[t] # None, NEW s \in {"revoked", "expired", "deleted"},
             rt'[t] = [rt[t] EXCEPT !.status = s],
             s # "deleted" => rt[t].status \in {"active", "expired"}
      PROVE  RefreshTokenDecays(t)
  <2>1. rt'[t] \in RefreshTokenRow
    BY <1>1, <1>3 DEF RefreshTokenRow
  <2>2. rt'[t] # None
    BY <2>1, NoneIsNoValue
  <2> QED
    BY <1>1, <1>3, <2>1, <2>2 DEF RefreshTokenDecays, RefreshTokenRow
<1>4. ASSUME rt[t] # None, rt'[t] = [rt[t] EXCEPT !.session = None]
      PROVE  RefreshTokenDecays(t)
  <2>1. rt'[t] \in RefreshTokenRow
    BY <1>1, <1>4 DEF RefreshTokenRow
  <2>2. rt'[t] # None
    BY <2>1, NoneIsNoValue
  <2> QED
    BY <1>1, <1>4, <2>1, <2>2 DEF RefreshTokenDecays, RefreshTokenRow
<1> QED
  BY <1>2, <1>3, <1>4

\* Decay types the tables.
LEMMA DecayTypes ==
    ASSUME TypeOK, Decay,
           client' \in [Clients -> ClientConfigs \cup {None}],
           deletedUsers' \subseteq Users,
           session' \in [Sessions -> SessionStatus],
           code' = [k \in Codes |-> code'[k]],
           at' = [a \in AccessTokens |-> at'[a]],
           rt' = [t \in RefreshTokens |-> rt'[t]],
           UNCHANGED <<req, authz>>
    PROVE  TypeOK'
<1>1. /\ \A k \in Codes : code'[k] \in CodeRow \cup {None}
      /\ \A a \in AccessTokens : at'[a] \in AccessTokenRow \cup {None}
      /\ \A t \in RefreshTokens : rt'[t] \in RefreshTokenRow \cup {None}
  BY DEF Decay, CodeDecays, AccessTokenDecays, RefreshTokenDecays
<1> QED
  BY <1>1 DEF TypeOK

\* Revocation only makes rows less usable.
LEMMA RevocationDecays == ASSUME TypeOK, Revocation PROVE Decay /\ TypeOK'
<1>1. PICK x \in AccessTokens \cup RefreshTokens, hint \in Hints : Revoke(x, hint)
  BY DEF Revocation
<1>2. UNCHANGED <<client, deletedUsers, session, code, req, authz>>
  BY <1>1 DEF Revoke
<1>3. CASE /\ at' = [a \in AccessTokens |->
                  IF a = x /\ at[a] # None /\ at[a].status = "active"
                  THEN [at[a] EXCEPT !.status = "revoked"] ELSE at[a]]
           /\ UNCHANGED rt
  <2>1. Decay
    BY <1>2, <1>3, UnchangedCodesDecay, AccessTokensDecay, UnchangedRefreshTokensDecay
    DEF Decay
  <2> QED
    BY <1>2, <1>3, <2>1, DecayTypes DEF TypeOK
<1>4. CASE /\ rt' = [t \in RefreshTokens |->
                  IF t = x /\ rt[t] # None /\ rt[t].status \in {"active", "expired"}
                  THEN [rt[t] EXCEPT !.status = "revoked"] ELSE rt[t]]
           /\ UNCHANGED at
  <2>1. Decay
    BY <1>2, <1>4, UnchangedCodesDecay, UnchangedAccessTokensDecay, RefreshTokensDecay
    DEF Decay
  <2> QED
    BY <1>2, <1>4, <2>1, DecayTypes DEF TypeOK
<1> QED
  BY <1>1, <1>3, <1>4 DEF Revoke

\* Logins, administrators' edits and deletions leave the token tables alone.
LEMMA AdministrationDecays == ASSUME TypeOK, Administration PROVE Decay /\ TypeOK'
<1>1. UNCHANGED <<tables, req, authz>>
  BY DEF Administration, Login, RevokeSession, DeleteUser, UpdateClient, DeleteClient
<1>2. Decay
  BY <1>1, UnchangedCodesDecay, UnchangedAccessTokensDecay, UnchangedRefreshTokensDecay
  DEF Decay, tables
<1>3. ASSUME NEW s \in Sessions, Login(s) \/ RevokeSession(s) PROVE TypeOK'
  BY <1>3 DEF Login, RevokeSession, TypeOK, tables, SessionStatus
<1>4. ASSUME NEW u \in Users, DeleteUser(u) PROVE TypeOK'
  BY <1>4 DEF DeleteUser, TypeOK, tables
<1>5. ASSUME NEW c \in Clients, NEW cfg \in ClientConfigs, UpdateClient(c, cfg) PROVE TypeOK'
  BY <1>5 DEF UpdateClient, TypeOK, tables
<1>6. ASSUME NEW c \in Clients, DeleteClient(c) PROVE TypeOK'
  BY <1>6 DEF DeleteClient, TypeOK, tables
<1> QED
  BY <1>2, <1>3, <1>4, <1>5, <1>6 DEF Administration

\* The clock only makes rows less usable.
LEMMA ExpiryDecays == ASSUME TypeOK, Expiry PROVE Decay /\ TypeOK'
<1>1. ASSUME NEW s \in Sessions, ExpireSession(s) PROVE Decay /\ TypeOK'
  <2>1. Decay
    BY <1>1, UnchangedCodesDecay, UnchangedAccessTokensDecay, UnchangedRefreshTokensDecay
    DEF ExpireSession, Decay, tables
  <2> QED
    BY <1>1, <2>1 DEF ExpireSession, TypeOK, tables, SessionStatus
<1>2. ASSUME NEW k \in Codes, ExpireCode(k) PROVE Decay /\ TypeOK'
  <2>1. \A c \in Codes : CodeDecays(c)
    BY <1>2, CodesDecay DEF ExpireCode, CodeConsumable, TypeOK
  <2>2. Decay
    BY <1>2, <2>1, UnchangedAccessTokensDecay, UnchangedRefreshTokensDecay
    DEF ExpireCode, Decay
  <2> QED
    BY <1>2, <2>2, DecayTypes DEF ExpireCode, TypeOK
<1>3. ASSUME NEW a \in AccessTokens, ExpireAccessToken(a) PROVE Decay /\ TypeOK'
  <2>1. \A b \in AccessTokens : AccessTokenDecays(b)
    BY <1>3, AccessTokensDecay DEF ExpireAccessToken, TypeOK
  <2>2. Decay
    BY <1>3, <2>1, UnchangedCodesDecay, UnchangedRefreshTokensDecay
    DEF ExpireAccessToken, Decay
  <2> QED
    BY <1>3, <2>2, DecayTypes DEF ExpireAccessToken, TypeOK
<1>4. ASSUME NEW t \in RefreshTokens, ExpireRefreshToken(t) PROVE Decay /\ TypeOK'
  <2>1. \A u \in RefreshTokens : RefreshTokenDecays(u)
    BY <1>4, RefreshTokensDecay DEF ExpireRefreshToken, RefreshUsable, TypeOK
  <2>2. Decay
    BY <1>4, <2>1, UnchangedCodesDecay, UnchangedAccessTokensDecay
    DEF ExpireRefreshToken, Decay
  <2> QED
    BY <1>4, <2>2, DecayTypes DEF ExpireRefreshToken, TypeOK
<1> QED
  BY <1>1, <1>2, <1>3, <1>4 DEF Expiry

\* The clean-up goroutine, and the foreign keys of the rows it deletes.
LEMMA CleanupDecays == ASSUME TypeOK, Cleanup PROVE Decay /\ TypeOK'
<1>1. /\ Codes = DOMAIN code
      /\ AccessTokens = DOMAIN at
      /\ RefreshTokens = DOMAIN rt
  BY DEF TypeOK
<1>2. ASSUME NEW gone \in SUBSET Codes, SweepCodes(gone) PROVE Decay /\ TypeOK'
  <2>1. \A k \in Codes : CodeDecays(k)
    BY <1>1, <1>2, CodesDecay DEF SweepCodes, Swept, Sweepable
  <2>2. Decay
    BY <1>2, <2>1, UnchangedAccessTokensDecay, UnchangedRefreshTokensDecay
    DEF SweepCodes, Decay
  <2> QED
    BY <1>1, <1>2, <2>2, DecayTypes DEF SweepCodes, Swept, TypeOK
<1>3. ASSUME NEW gone \in SUBSET AccessTokens, SweepAccessTokens(gone) PROVE Decay /\ TypeOK'
  <2>1. \A a \in AccessTokens : AccessTokenDecays(a)
    BY <1>1, <1>3, AccessTokensDecay DEF SweepAccessTokens, Swept, Sweepable
  <2>2. Decay
    BY <1>3, <2>1, UnchangedCodesDecay, UnchangedRefreshTokensDecay
    DEF SweepAccessTokens, Decay
  <2> QED
    BY <1>1, <1>3, <2>2, DecayTypes DEF SweepAccessTokens, Swept, TypeOK
<1>4. ASSUME NEW gone \in SUBSET RefreshTokens, SweepRefreshTokens(gone) PROVE Decay /\ TypeOK'
  <2>1. \A t \in RefreshTokens : RefreshTokenDecays(t)
    BY <1>1, <1>4, RefreshTokensDecay DEF SweepRefreshTokens, Swept, Sweepable
  <2>2. Decay
    BY <1>4, <2>1, UnchangedCodesDecay, UnchangedAccessTokensDecay
    DEF SweepRefreshTokens, Decay
  <2> QED
    BY <1>1, <1>4, <2>2, DecayTypes DEF SweepRefreshTokens, Swept, TypeOK
<1>5. ASSUME NEW gone \in SUBSET Sessions, SweepSessions(gone) PROVE Decay /\ TypeOK'
  <2>1. \A k \in Codes : CodeDecays(k)
    BY <1>1, <1>5, CodesDecay DEF SweepSessions, Swept
  <2>2. \A a \in AccessTokens : AccessTokenDecays(a)
    BY <1>1, <1>5, AccessTokensDecay DEF SweepSessions, Detached
  <2>3. \A t \in RefreshTokens : RefreshTokenDecays(t)
    BY <1>1, <1>5, RefreshTokensDecay DEF SweepSessions, Detached
  <2>4. session' \in [Sessions -> SessionStatus]
    BY <1>5 DEF SweepSessions, SessionStatus, TypeOK
  <2> QED
    BY <1>1, <1>5, <2>1, <2>2, <2>3, <2>4, DecayTypes
    DEF SweepSessions, Swept, Detached, TypeOK, Decay
<1> QED
  BY <1>2, <1>3, <1>4, <1>5 DEF Cleanup

\* The authorization endpoint touches a table only when it inserts a code.
LEMMA BrowsingDecays ==
    ASSUME TypeOK, Authorize, ~ \E z \in AuthReqs, k \in Codes : InsertCode(z, k)
    PROVE  Decay /\ UNCHANGED <<tables, req>>
<1>1. UNCHANGED <<tables, req>>
  BY DEF Authorize, ValidateAuthRequest, ValidateRedirectURI, LoadSession, AllowConsent, LeaveAuthorize
<1> QED
  BY <1>1, UnchangedCodesDecay, UnchangedAccessTokensDecay, UnchangedRefreshTokensDecay
  DEF Decay, tables

-----------------------------------------------------------------------------
\* Every step keeps every variable in its type.
LEMMA StepTypes == ASSUME Typed, [Next]_vars PROVE TypeOK'
BY AuthorizeTypes, TokenTypes, RevocationDecays, AdministrationDecays, ExpiryDecays,
   CleanupDecays
DEF Typed, Next, vars, tables, TypeOK

\* Steps that leave the requests alone and take from the tables only.
Quiet == Decay /\ UNCHANGED req

\* Every step is quiet, or inserts a code, or belongs to the token endpoint.
LEMMA StepKinds ==
    ASSUME Typed, [Next]_vars
    PROVE  Quiet \/ Token \/ \E z \in AuthReqs, k \in Codes : InsertCode(z, k)
<1>1. CASE UNCHANGED vars
  BY <1>1, UnchangedCodesDecay, UnchangedAccessTokensDecay, UnchangedRefreshTokensDecay
  DEF Typed, Quiet, Decay, vars, tables
<1>2. CASE Authorize
  BY <1>2, BrowsingDecays DEF Typed, Quiet
<1>3. CASE Revocation \/ Administration \/ Expiry \/ Cleanup
  <2>1. UNCHANGED req
    BY <1>3 DEF Revocation, Revoke, Administration, Login, RevokeSession, DeleteUser,
       UpdateClient, DeleteClient, Expiry, ExpireSession, ExpireCode, ExpireAccessToken,
       ExpireRefreshToken, Cleanup, SweepCodes, SweepAccessTokens, SweepRefreshTokens,
       SweepSessions
  <2> QED
    BY <1>3, <2>1, RevocationDecays, AdministrationDecays, ExpiryDecays, CleanupDecays
    DEF Typed, Quiet
<1> QED
  BY <1>1, <1>2, <1>3 DEF Next

\* What was inserted stays inserted.
LEMMA IssuedStays ==
    ASSUME Typed, [Next]_vars, NEW o, Issued(o), o \in Origins PROVE Issued(o)'
<1>1. CASE Quiet
  BY <1>1 DEF Quiet, Decay, CodeDecays, RefreshTokenDecays, Issued, Origins
<1>2. ASSUME NEW z \in AuthReqs, NEW k \in Codes, InsertCode(z, k) PROVE Issued(o)'
  BY <1>2 DEF InsertCode, Typed, TypeOK, Issued, Origins
<1>3. ASSUME Token PROVE Issued(o)'
  <2> DEFINE Kept ==
               /\ \A k \in Codes : code'[k] = None => code[k] = None
               /\ \A t \in RefreshTokens : rt'[t] = None => rt[t] = None
  <2>1. Kept
    <3>1. ASSUME NEW r \in TokenReqs, NEW redirect, NEW verifier,
                 ConsumeCode(r, redirect, verifier)
          PROVE  Kept
      <4>1. req[r].origin \in Codes /\ code[req[r].origin] \in CodeRow
        BY <3>1 DEF ConsumeCode, ReqAt, CodeConsumable, Typed, Stages, TypeOK
      <4>2. [code[req[r].origin] EXCEPT !.status = "consumed"] \in CodeRow
        BY <4>1 DEF CodeRow
      <4> QED
        BY <3>1, <4>1, <4>2, NoneIsNoValue DEF ConsumeCode, Typed, TypeOK
    <3>2. ASSUME NEW r \in TokenReqs, RotateRefreshToken(r) PROVE Kept
      <4>1. req[r].origin \in RefreshTokens /\ rt[req[r].origin] \in RefreshTokenRow
        BY <3>2 DEF RotateRefreshToken, ReqAt, RefreshRotatable, Typed, Stages, TypeOK
      <4>2. [rt[req[r].origin] EXCEPT !.status = "rotated"] \in RefreshTokenRow
        BY <4>1 DEF RefreshTokenRow
      <4> QED
        BY <3>2, <4>1, <4>2, NoneIsNoValue DEF RotateRefreshToken, Typed, TypeOK
    <3>3. ASSUME NEW r \in TokenReqs, NEW t \in RefreshTokens, InsertRefreshToken(r, t)
          PROVE  Kept
      BY <3>3 DEF InsertRefreshToken, Typed, TypeOK
    <3> QED
      BY <1>3, <3>1, <3>2, <3>3
      DEF Token, TokenStep, ExchangeCode, RefreshGrant, ClientCredentials, Start, tables,
          GetRefreshToken, LoadUser, InsertAccessToken, Abandon
  <2> QED
    BY <2>1 DEF Issued, Origins
<1> QED
  BY <1>1, <1>2, <1>3, StepKinds

\* A token request changes no other request.
LEMMA OthersUntouched ==
    ASSUME TypeOK, NEW r \in TokenReqs, NEW q \in TokenReqs, TokenStep(r), q # r
    PROVE  req'[q] = req[q]
BY DEF TokenStep, ExchangeCode, RefreshGrant, ClientCredentials, Start, ConsumeCode,
   GetRefreshToken, LoadUser, RotateRefreshToken, InsertAccessToken, InsertRefreshToken,
   Abandon, TypeOK

\* The locals of every handler fit the statement it runs next.
LEMMA StepStages == ASSUME Typed, [Next]_vars PROVE Stages'
<1> DEFINE AuthStage(z) ==
             authz[z] # None /\ authz[z].pc = "insertCode" => authz[z].session # None
           ReqStage(r) ==
             req[r] # None =>
               /\ req[r].origin # None => Issued(req[r].origin)
               /\ req[r].pc = "consume" => req[r].origin \in Codes
               /\ req[r].pc \in {"get", "rotate"} => req[r].origin \in RefreshTokens
               /\ req[r].pc \in {"loadUser", "insertRT"} => req[r].origin # None
               /\ req[r].origin # None /\ req[r].pc \notin {"consume", "get"} =>
                     req[r].user # None
<1>1. ASSUME NEW z \in AuthReqs PROVE AuthStage(z)'
  <2>1. AuthStage(z) /\ (authz[z] # None => authz[z] \in AuthReq)
    BY DEF Typed, Stages, TypeOK
  <2>2. CASE UNCHANGED authz
    BY <2>1, <2>2
  <2>3. ASSUME NEW y \in AuthReqs, NEW c \in Clients, NEW redirect, NEW scopes, NEW pkce,
               ValidateAuthRequest(y, c, redirect, scopes, pkce)
        PROVE  AuthStage(z)'
    BY <2>1, <2>3 DEF ValidateAuthRequest, Typed, TypeOK
  <2>4. ASSUME NEW y \in AuthReqs, NEW s \in Sessions, LoadSession(y, s)
        PROVE  AuthStage(z)'
    BY <2>1, <2>4, NoneIsNoValue DEF LoadSession, Typed, TypeOK, AuthReq
  <2>9. ASSUME NEW y \in AuthReqs, ValidateRedirectURI(y) PROVE AuthStage(z)'
    BY <2>1, <2>9 DEF ValidateRedirectURI, Typed, TypeOK, AuthReq
  <2>10. ASSUME NEW y \in AuthReqs, NEW s \in Sessions, NEW c \in Clients, NEW redirect,
                NEW scopes, NEW pkce, AllowConsent(y, s, c, redirect, scopes, pkce)
         PROVE  AuthStage(z)'
    BY <2>1, <2>10, NoneIsNoValue DEF AllowConsent, Typed, TypeOK
  <2>5. ASSUME NEW y \in AuthReqs, NEW k \in Codes, InsertCode(y, k) PROVE AuthStage(z)'
    BY <2>1, <2>5 DEF InsertCode, Typed, TypeOK
  <2>8. ASSUME NEW y \in AuthReqs, LeaveAuthorize(y) PROVE AuthStage(z)'
    BY <2>1, <2>8 DEF LeaveAuthorize, Typed, TypeOK
  <2>6. CASE Authorize
    BY <2>3, <2>4, <2>5, <2>6, <2>8, <2>9, <2>10 DEF Authorize
  <2>7. ~Authorize => UNCHANGED authz
    BY DEF Next, vars, Token, TokenStep, ExchangeCode, RefreshGrant, ClientCredentials, Start,
       ConsumeCode, GetRefreshToken, LoadUser, RotateRefreshToken, InsertAccessToken,
       InsertRefreshToken, Abandon, Revocation, Revoke, Administration, Login,
       RevokeSession, DeleteUser, UpdateClient, DeleteClient, Expiry, ExpireSession,
       ExpireCode, ExpireAccessToken, ExpireRefreshToken, Cleanup, SweepCodes,
       SweepAccessTokens, SweepRefreshTokens, SweepSessions
  <2> QED
    BY <2>2, <2>6, <2>7
<1>2. ASSUME NEW q \in TokenReqs PROVE ReqStage(q)'
  <2>1. ReqStage(q) /\ (req[q] # None => req[q] \in TokenReq)
    BY DEF Typed, Stages, TypeOK
  <2>2. \A o \in Origins : Issued(o) =>
           IF o \in Codes THEN code'[o] # None ELSE rt'[o] # None
    BY IssuedStays DEF Issued
  <2>3. CASE req'[q] = req[q]
    BY <2>1, <2>2, <2>3 DEF TokenReq, Issued
  <2>4. ASSUME NEW c \in Clients, NEW o \in Origins \cup {None}, NEW pc, NEW scopes,
               Start(q, c, pc, o, scopes),
               pc \in {"consume", "get", "insertAT"},
               o # None => Issued(o),
               pc = "consume" => o \in Codes,
               pc = "get" => o \in RefreshTokens,
               pc = "insertAT" => o = None
        PROVE  ReqStage(q)'
    <3>1. req'[q] = [pc |-> pc, client |-> c, cfg |-> client[c], origin |-> o,
                     user |-> None, session |-> None, scopes |-> scopes]
      BY <2>4 DEF Start, Typed, TypeOK
    <3> QED
      BY <2>2, <2>4, <3>1 DEF Issued
  <2>5. CASE \E c \in Clients :
                \/ \E k \in Codes : ExchangeCode(q, c, k)
                \/ \E t \in RefreshTokens : RefreshGrant(q, c, t)
                \/ \E scopes \in SUBSET Scopes : ClientCredentials(q, c, scopes)
    BY <2>4, <2>5, CodesAreNotTokens
    DEF ExchangeCode, RefreshGrant, ClientCredentials, Origins, Issued
  <2>6. ASSUME NEW redirect, NEW verifier, ConsumeCode(q, redirect, verifier)
        PROVE  ReqStage(q)'
    <3>1. /\ req[q] \in TokenReq /\ req[q].origin \in Codes /\ Issued(req[q].origin)
          /\ code[req[q].origin] \in CodeRow
      BY <2>1, <2>6 DEF ConsumeCode, ReqAt, CodeConsumable, Issued, Typed, TypeOK
    <3>2. \/ req'[q] = None
          \/ /\ req'[q].pc = "loadUser"
             /\ req'[q].origin = req[q].origin
             /\ req'[q].user = code[req[q].origin].user
      BY <2>6, <3>1 DEF ConsumeCode, Typed, TypeOK, TokenReq
    <3> QED
      BY <2>2, <3>1, <3>2, NoneIsNoValue DEF Issued, Origins, CodeRow
  <2>7. ASSUME NEW scopes, GetRefreshToken(q, scopes) PROVE ReqStage(q)'
    <3>1. /\ req[q] \in TokenReq /\ req[q].origin \in RefreshTokens
          /\ Issued(req[q].origin) /\ rt[req[q].origin] \in RefreshTokenRow
      BY <2>1, <2>7, NoneIsNoValue
      DEF GetRefreshToken, ReqAt, RefreshUsable, Typed, TypeOK, Origins
    <3>2. /\ req'[q].pc = "loadUser"
          /\ req'[q].origin = req[q].origin
          /\ req'[q].user = rt[req[q].origin].user
      BY <2>7, <3>1 DEF GetRefreshToken, Typed, TypeOK, TokenReq
    <3> QED
      BY <2>2, <3>1, <3>2, NoneIsNoValue DEF Issued, Origins, RefreshTokenRow
  <2>8. CASE LoadUser(q)
    <3>1. req[q] \in TokenReq /\ req[q].origin \in Origins /\ Issued(req[q].origin)
      BY <2>1, <2>8 DEF LoadUser, ReqAt, TokenReq
    <3>2. /\ req'[q].pc \in {"insertAT", "rotate"}
          /\ req'[q].pc = "rotate" => req[q].origin \notin Codes
          /\ req'[q].origin = req[q].origin
          /\ req'[q].user = req[q].user
      BY <2>8, <3>1 DEF LoadUser, Typed, TypeOK, TokenReq
    <3>3. req[q].user # None
      BY <2>1, <2>8, <3>1, NoneIsNoValue DEF LoadUser, ReqAt
    <3> QED
      BY <2>2, <3>1, <3>2, <3>3 DEF Issued, Origins
  <2>9. CASE RotateRefreshToken(q)
    <3>1. req[q] \in TokenReq /\ req[q].origin \in Origins /\ Issued(req[q].origin)
      BY <2>1, <2>9, NoneIsNoValue DEF RotateRefreshToken, ReqAt, Origins
    <3>2. /\ req'[q].pc = "insertAT"
          /\ req'[q].origin = req[q].origin
          /\ req'[q].user = req[q].user
      BY <2>9, <3>1 DEF RotateRefreshToken, Typed, TypeOK, TokenReq
    <3>3. req[q].user # None
      BY <2>1, <2>9, <3>1, NoneIsNoValue DEF RotateRefreshToken, ReqAt
    <3> QED
      BY <2>2, <3>1, <3>2, <3>3 DEF Issued, Origins
  <2>10. ASSUME NEW a \in AccessTokens, InsertAccessToken(q, a) PROVE ReqStage(q)'
    <3>1. req[q] \in TokenReq
      BY <2>1, <2>10 DEF InsertAccessToken, ReqAt
    <3>2. \/ req'[q] = None
          \/ /\ req'[q].pc = "insertRT"
             /\ req[q].origin # None
             /\ req'[q].origin = req[q].origin
             /\ req'[q].user = req[q].user
      BY <2>10, <3>1 DEF InsertAccessToken, WantsRefreshToken, Typed, TypeOK, TokenReq
    <3> QED
      BY <2>1, <2>2, <2>10, <3>1, <3>2 DEF InsertAccessToken, ReqAt, Issued, TokenReq
  <2>11. ASSUME NEW t \in RefreshTokens, InsertRefreshToken(q, t) PROVE ReqStage(q)'
    BY <2>11 DEF InsertRefreshToken, Typed, TypeOK
  <2>12. CASE Abandon(q)
    BY <2>12 DEF Abandon, Typed, TypeOK
  <2>13. CASE TokenStep(q)
    BY <2>5, <2>6, <2>7, <2>8, <2>9, <2>10, <2>11, <2>12, <2>13 DEF TokenStep
  <2>14. CASE ~TokenStep(q)
    BY <2>3, <2>14, StepKinds, OthersUntouched DEF Token, Quiet, InsertCode, Typed
  <2> QED
    BY <2>13, <2>14
<1> QED
  BY <1>1, <1>2 DEF Stages

-----------------------------------------------------------------------------
\* Every variable keeps its type, the rows of the token tables included: no
\* handler inserts a row with a NULL where the schema has NOT NULL.
THEOREM TypeCorrect == Spec => []TypeOK
<1>1. Init => Typed
  BY DEF Init, Typed, TypeOK, Stages, SessionStatus
<1>2. Typed /\ [Next]_vars => Typed'
  BY StepTypes, StepStages DEF Typed
<1> QED
  BY <1>1, <1>2, PTL DEF Spec, Typed

-----------------------------------------------------------------------------
(* A grant has one holder, and is redeemed once.  The inductive invariant  *)
(* adds Lineage (what was minted comes from something spent, in the same   *)
(* grant) and NotYetMinted (a request about to insert is the first).       *)

Inv == TypeOK /\ GrantInv

\* What the state functions of the properties come to, row by row, for
\* origins that exist.
LEMMA GrantsAreCodes ==
    ASSUME TypeOK, NEW o \in Origins, Issued(o) PROVE GrantOf(o) \in Codes
<1>1. o \notin Codes => rt[o] \in RefreshTokenRow
  BY DEF TypeOK, Issued, Origins
<1> QED
  BY <1>1 DEF GrantOf, RefreshTokenRow

\* A request that carries a grant has an origin that exists.
LEMMA CarriedOriginIssued ==
    ASSUME TypeOK, Stages, NEW r \in TokenReqs, Carrying(r)
    PROVE  req[r] \in TokenReq /\ req[r].origin \in Origins /\ Issued(req[r].origin)
BY NoneIsNoValue DEF TypeOK, Stages, Carrying, TokenReq, Origins

\* Rows may decay, and requests may end or go on; none takes up a grant.
Fading ==
    /\ Decay
    /\ \A r \in TokenReqs : Carrying(r)' =>
          /\ Carrying(r)
          /\ req'[r].origin = req[r].origin
          /\ req'[r].pc # "insertRT" => req[r].pc # "insertRT"

\* What decay means for the state functions of the properties.
LEMMA DecayFacts ==
    ASSUME TypeOK, Decay
    PROVE  /\ \A t \in RefreshTokens : RefreshRotatable(t)' => RefreshRotatable(t)
           /\ \A k \in Codes : CodeConsumable(k)' => CodeConsumable(k)
           /\ \A t \in RefreshTokens : rt'[t] # None =>
                 /\ rt[t] # None
                 /\ rt'[t].origin = rt[t].origin /\ rt[t].origin \in Origins
                 /\ rt'[t].grant = rt[t].grant /\ rt[t].grant \in Codes
           /\ \A a \in AccessTokens : at'[a] # None =>
                 /\ at[a] # None
                 /\ at'[a].origin = at[a].origin /\ at[a].origin \in Origins \cup {None}
           /\ \A o \in Origins :
                 /\ Issued(o) => (IF o \in Codes THEN o ELSE rt'[o].grant) = GrantOf(o)
                 /\ Spent(o) =>
                       IF o \in Codes
                       THEN code'[o] # None /\ code'[o].status \in {"consumed", "deleted"}
                       ELSE rt'[o] # None /\ rt'[o].status \in {"rotated", "deleted"}
<1>1. /\ \A t \in RefreshTokens : RefreshRotatable(t)' => RefreshRotatable(t)
      /\ \A k \in Codes : CodeConsumable(k)' => CodeConsumable(k)
  BY DEF Decay, CodeDecays, RefreshTokenDecays, RefreshRotatable, CodeConsumable
<1>2. \A t \in RefreshTokens : rt[t] # None => rt[t].origin \in Origins /\ rt[t].grant \in Codes
  BY DEF TypeOK, RefreshTokenRow
<1>3. \A a \in AccessTokens : at[a] # None => at[a].origin \in Origins \cup {None}
  BY DEF TypeOK, AccessTokenRow
<1>4. \A t \in RefreshTokens : rt'[t] # None =>
         rt[t] # None /\ rt'[t].origin = rt[t].origin /\ rt'[t].grant = rt[t].grant
  BY DEF Decay, RefreshTokenDecays
<1>5. \A a \in AccessTokens : at'[a] # None => at[a] # None /\ at'[a].origin = at[a].origin
  BY DEF Decay, AccessTokenDecays
<1>6. \A o \in Origins :
         /\ Issued(o) => (IF o \in Codes THEN o ELSE rt'[o].grant) = GrantOf(o)
         /\ Spent(o) => IF o \in Codes
                        THEN code'[o] # None /\ code'[o].status \in {"consumed", "deleted"}
                        ELSE rt'[o] # None /\ rt'[o].status \in {"rotated", "deleted"}
  BY DEF Decay, CodeDecays, RefreshTokenDecays, Issued, GrantOf, Spent, Origins
<1> QED
  BY <1>1, <1>2, <1>3, <1>4, <1>5, <1>6

\* Fading steps preserve every part of the invariant.
LEMMA FadingKeeps ==
    ASSUME Inv, Fading
    PROVE  (OneHolderPerGrant /\ RedeemedOnce /\ Lineage /\ NotYetMinted)'
<1> USE DEF Inv, GrantInv
<1>1. Decay
  BY DEF Fading
<1>2. \A r \in TokenReqs : Carrying(r)' =>
         /\ Carrying(r)
         /\ req'[r].origin = req[r].origin
         /\ req'[r].pc # "insertRT" => req[r].pc # "insertRT"
         /\ req[r].origin \in Origins /\ Issued(req[r].origin)
  BY CarriedOriginIssued DEF Fading
<1>3. OneHolderPerGrant'
  <2>1. \A q \in TokenReqs : Carrying(q)' => GrantOf(req[q].origin)' = GrantOf(req[q].origin)
    BY <1>1, <1>2, DecayFacts DEF GrantOf
  <2>2. \A t \in RefreshTokens : RefreshRotatable(t)' =>
           RefreshRotatable(t) /\ rt'[t].grant = rt[t].grant
    BY <1>1, DecayFacts DEF RefreshRotatable
  <2> QED
    BY <1>1, <1>2, <2>1, <2>2, DecayFacts DEF OneHolderPerGrant
<1>4. RedeemedOnce'
  BY <1>1, DecayFacts DEF RedeemedOnce
<1>5. Lineage'
  BY <1>1, <1>2, DecayFacts DEF Lineage, Spent, GrantOf, Issued, Origins
<1>6. NotYetMinted'
  BY <1>1, <1>2, DecayFacts DEF NotYetMinted
<1> QED
  BY <1>3, <1>4, <1>5, <1>6

\* A request takes over the grant from an unspent code or refresh token.
Taking(r, o) ==
    /\ Decay
    /\ \A q \in TokenReqs : q # r => req'[q] = req[q]
    /\ \A k \in Codes : k # o => code'[k] = code[k]
    /\ \A t \in RefreshTokens : t # o => rt'[t] = rt[t]
    /\ ~Carrying(r) /\ Carrying(r)'
    /\ req'[r].origin = o /\ req[r].origin = o
    /\ IF o \in Codes THEN CodeConsumable(o) /\ code'[o] # None /\ code'[o].status = "consumed"
                      ELSE RefreshRotatable(o) /\ rt'[o] # None /\ rt'[o].status = "rotated"

LEMMA TakingKeeps ==
    ASSUME Inv, NEW r \in TokenReqs, NEW o \in Origins, Taking(r, o)
    PROVE  (OneHolderPerGrant /\ RedeemedOnce /\ Lineage /\ NotYetMinted)'
<1> USE DEF Inv, GrantInv, Taking
<1>1. \A q \in TokenReqs : Carrying(q)' /\ q # r =>
         /\ Carrying(q)
         /\ req'[q] = req[q]
         /\ req[q].origin \in Origins /\ Issued(req[q].origin)
  BY CarriedOriginIssued DEF Carrying
<1>2. Issued(o) /\ GrantOf(o) \in Codes /\ ~Spent(o)
  BY GrantsAreCodes DEF Issued, CodeConsumable, RefreshRotatable, Spent
<1>3. (IF o \in Codes THEN o ELSE rt'[o].grant) = GrantOf(o)
  BY <1>2, DecayFacts
<1>4. \A q \in TokenReqs : Carrying(q) => GrantOf(req[q].origin) # GrantOf(o)
  <2>1. CASE o \in Codes
    BY <2>1 DEF OneHolderPerGrant, GrantOf
  <2>2. CASE o \notin Codes
    BY <2>2 DEF OneHolderPerGrant, GrantOf, Origins
  <2> QED
    BY <2>1, <2>2
<1>5. \A t \in RefreshTokens : RefreshRotatable(t)' => rt[t].grant # GrantOf(o)
  <2>1. CASE o \in Codes
    BY <2>1, DecayFacts DEF OneHolderPerGrant, GrantOf, RefreshRotatable
  <2>2. CASE o \notin Codes
    <3>1. ~RefreshRotatable(o)'
      BY <2>2 DEF RefreshRotatable
    <3> QED
      BY <2>2, <3>1, DecayFacts DEF OneHolderPerGrant, GrantOf, Origins
  <2> QED
    BY <2>1, <2>2
<1>6. \A k \in Codes : CodeConsumable(k)' => k # GrantOf(o)
  <2>1. CASE o \in Codes
    BY <2>1 DEF CodeConsumable, GrantOf
  <2>2. CASE o \notin Codes
    BY <2>2, <1>2, DecayFacts DEF OneHolderPerGrant, GrantOf, Issued, Origins
  <2> QED
    BY <2>1, <2>2
<1>7. OneHolderPerGrant'
  BY <1>1, <1>2, <1>3, <1>4, <1>5, <1>6, DecayFacts DEF OneHolderPerGrant, GrantOf, RefreshRotatable
<1>8. RedeemedOnce'
  BY DecayFacts DEF RedeemedOnce
<1>9. Lineage'
  BY <1>1, DecayFacts DEF Lineage, Spent, GrantOf, Issued, Origins
<1>10. NotYetMinted'
  BY <1>1, <1>2, NoneIsNoValue, DecayFacts DEF NotYetMinted, Lineage
<1> QED
  BY <1>7, <1>8, <1>9, <1>10

\* A new code is the first holder of its grant.
LEMMA InsertCodeKeeps ==
    ASSUME Inv, NEW z \in AuthReqs, NEW k \in Codes, InsertCode(z, k)
    PROVE  (OneHolderPerGrant /\ RedeemedOnce /\ Lineage /\ NotYetMinted)'
<1> USE DEF Inv, GrantInv
<1>1. /\ UNCHANGED <<at, rt, req>>
      /\ code[k] = None
      /\ \A j \in Codes : j # k => code'[j] = code[j]
  BY DEF InsertCode, TypeOK
<1>2. \A r \in TokenReqs :
         /\ Carrying(r)' <=> Carrying(r)
         /\ Carrying(r) => /\ req[r].origin \in Origins
                           /\ Issued(req[r].origin)
                           /\ GrantOf(req[r].origin)' = GrantOf(req[r].origin)
                           /\ GrantOf(req[r].origin) # k
  <2> TAKE r \in TokenReqs
  <2>1. Carrying(r)' <=> Carrying(r)
    BY <1>1 DEF Carrying
  <2>2. ASSUME Carrying(r)
        PROVE  req[r].origin \in Origins /\ Issued(req[r].origin) /\ Spent(req[r].origin)
    BY <2>2, CarriedOriginIssued DEF Lineage
  <2>3. GrantOf(req[r].origin)' = GrantOf(req[r].origin)
    BY <1>1 DEF GrantOf
  <2>4. ASSUME Carrying(r) PROVE GrantOf(req[r].origin) # k
    BY <1>1, <2>2, <2>4 DEF Lineage, GrantOf, Spent, Origins, Issued
  <2> QED
    BY <2>1, <2>2, <2>3, <2>4
<1>3. \A t \in RefreshTokens : rt[t] # None => rt[t].grant # k
  BY <1>1 DEF Lineage, Spent, TypeOK, RefreshTokenRow
<1>4. \A o \in Origins : Spent(o) =>
         /\ o # k
         /\ IF o \in Codes THEN code'[o] # None /\ code'[o].status \in {"consumed", "deleted"}
                           ELSE rt[o] # None /\ rt[o].status \in {"rotated", "deleted"}
  BY <1>1 DEF Spent
<1>5. \A t \in RefreshTokens : RefreshRotatable(t)' => RefreshRotatable(t)
  BY <1>1 DEF RefreshRotatable
<1>6. OneHolderPerGrant'
  <2>1. \A j \in Codes : CodeConsumable(j)' => j = k \/ CodeConsumable(j)
    BY <1>1 DEF CodeConsumable
  <2> QED
    BY <1>1, <1>2, <1>3, <1>5, <2>1 DEF OneHolderPerGrant
<1>7. RedeemedOnce'
  BY <1>1 DEF RedeemedOnce
<1>8. Lineage'
  <2>1. \A t \in RefreshTokens : rt[t] # None => rt[t].origin \in Origins /\ rt[t].grant \in Codes
    BY DEF TypeOK, RefreshTokenRow
  <2>2. \A a \in AccessTokens : at[a] # None => at[a].origin \in Origins \cup {None}
    BY DEF TypeOK, AccessTokenRow
  <2> QED
    BY <1>1, <1>2, <1>4, <2>1, <2>2 DEF Lineage, Spent, GrantOf, Origins
<1>9. NotYetMinted'
  BY <1>1, <1>2 DEF NotYetMinted
<1> QED
  BY <1>6, <1>7, <1>8, <1>9

\* An access token for a request that already holds its grant, or for none.
LEMMA InsertAccessTokenKeeps ==
    ASSUME Inv, NEW r \in TokenReqs, NEW a \in AccessTokens, InsertAccessToken(r, a)
    PROVE  (OneHolderPerGrant /\ RedeemedOnce /\ Lineage /\ NotYetMinted)'
<1> USE DEF Inv, GrantInv
<1>1. /\ UNCHANGED <<code, rt>>
      /\ at[a] = None
      /\ \A b \in AccessTokens : b # a => at'[b] = at[b]
      /\ at'[a].origin = req[r].origin
      /\ \A q \in TokenReqs : q # r => req'[q] = req[q]
  BY DEF InsertAccessToken, TypeOK
<1>2. /\ req[r] \in TokenReq
      /\ req[r].pc = "insertAT"
      /\ req[r].origin # None => Carrying(r)
  BY DEF InsertAccessToken, ReqAt, TypeOK, TokenReq, Carrying, Origins
<1>3. Carrying(r)' => /\ Carrying(r)
                      /\ req'[r].origin = req[r].origin
                      /\ req'[r].pc = "insertRT"
  BY <1>2 DEF InsertAccessToken, WantsRefreshToken, Carrying, TypeOK, TokenReq
<1>4. \A q \in TokenReqs : Carrying(q)' =>
         /\ Carrying(q)
         /\ req'[q].origin = req[q].origin
         /\ req[q].origin # None
         /\ q # r => req'[q] = req[q]
         /\ q # r => req[q].origin # req[r].origin
  <2> SUFFICES ASSUME NEW q \in TokenReqs, q # r, Carrying(q)'
               PROVE  /\ Carrying(q)
                      /\ req'[q] = req[q]
                      /\ req[q].origin # None
                      /\ req[q].origin # req[r].origin
    BY <1>3 DEF Carrying
  <2>1. req'[q] = req[q] /\ Carrying(q) /\ req[q].origin # None
    BY <1>1 DEF Carrying
  <2> QED
    BY <1>2, <2>1 DEF OneHolderPerGrant
<1>5. /\ \A q \in TokenReqs : GrantOf(req[q].origin)' = (IF req'[q].origin \in Codes
            THEN req'[q].origin ELSE rt[req'[q].origin].grant)
      /\ \A t \in RefreshTokens : RefreshRotatable(t)' <=> RefreshRotatable(t)
      /\ \A k \in Codes : CodeConsumable(k)' <=> CodeConsumable(k)
  BY <1>1 DEF GrantOf, RefreshRotatable, CodeConsumable
<1>6. OneHolderPerGrant'
  BY <1>1, <1>4, <1>5 DEF OneHolderPerGrant, GrantOf
<1>7. RedeemedOnce'
  BY <1>1, <1>2 DEF RedeemedOnce, NotYetMinted
<1>8. Lineage'
  <2>1. at'[a].origin # None => Spent(at'[a].origin)
    BY <1>1, <1>2 DEF Lineage
  <2> QED
    BY <1>1, <1>4, <2>1 DEF Lineage, Spent, GrantOf
<1>9. NotYetMinted'
  BY <1>1, <1>3, <1>4 DEF NotYetMinted
<1> QED
  BY <1>6, <1>7, <1>8, <1>9

\* The request hands its grant to a new refresh token, and ends.
LEMMA InsertRefreshTokenKeeps ==
    ASSUME Inv, NEW r \in TokenReqs, NEW t \in RefreshTokens, InsertRefreshToken(r, t)
    PROVE  (OneHolderPerGrant /\ RedeemedOnce /\ Lineage /\ NotYetMinted)'
<1> USE DEF Inv, GrantInv
<1> DEFINE o == req[r].origin
<1>1. /\ UNCHANGED <<code, at>>
      /\ rt[t] = None
      /\ \A u \in RefreshTokens : u # t => rt'[u] = rt[u]
      /\ rt'[t].origin = o
      /\ rt'[t].grant = GrantOf(o)
      /\ \A q \in TokenReqs : q # r => req'[q] = req[q]
      /\ req'[r] = None
  BY DEF InsertRefreshToken, TypeOK
<1>2. /\ Carrying(r)
      /\ o \in Origins /\ Issued(o) /\ Spent(o)
      /\ GrantOf(o) \in Codes
  <2>1. Carrying(r)
    BY DEF InsertRefreshToken, ReqAt, Stages, TypeOK, TokenReq, Carrying, Origins
  <2> QED
    BY <2>1, CarriedOriginIssued, GrantsAreCodes DEF Lineage
<1>3. Spent(GrantOf(o))
  BY <1>2 DEF Lineage, GrantOf, Origins, Issued
<1>4. \A q \in TokenReqs : Carrying(q)' =>
         /\ q # r
         /\ req'[q] = req[q]
         /\ Carrying(q)
         /\ req[q].origin \in Origins /\ Issued(req[q].origin)
         /\ GrantOf(req[q].origin) # GrantOf(o)
         /\ req[q].origin # o
  <2> SUFFICES ASSUME NEW q \in TokenReqs, Carrying(q)'
               PROVE  /\ q # r
                      /\ req'[q] = req[q]
                      /\ Carrying(q)
                      /\ req[q].origin \in Origins /\ Issued(req[q].origin)
                      /\ GrantOf(req[q].origin) # GrantOf(o)
    OBVIOUS
  <2>1. q # r /\ req'[q] = req[q] /\ Carrying(q)
    BY <1>1 DEF Carrying
  <2> QED
    BY <1>2, <2>1, CarriedOriginIssued DEF OneHolderPerGrant
<1>5. \A x \in Origins : Issued(x) =>
         /\ (IF x \in Codes THEN x ELSE rt'[x].grant) = GrantOf(x)
         /\ Spent(x) => IF x \in Codes
                        THEN code[x] # None /\ code[x].status \in {"consumed", "deleted"}
                        ELSE rt'[x] # None /\ rt'[x].status \in {"rotated", "deleted"}
  BY <1>1 DEF Issued, GrantOf, Spent, Origins
<1>6. \A u \in RefreshTokens : rt'[u] # None =>
         \/ u = t
         \/ /\ rt[u] # None /\ rt'[u] = rt[u]
            /\ rt[u].origin \in Origins /\ Issued(rt[u].origin) /\ Spent(rt[u].origin)
            /\ rt[u].grant \in Codes
  BY <1>1 DEF TypeOK, RefreshTokenRow, Lineage, Spent, Issued
<1>7. OneHolderPerGrant'
  <2>1. \A q \in TokenReqs : Carrying(q)' => GrantOf(req[q].origin)' = GrantOf(req[q].origin)
    BY <1>4, <1>5 DEF GrantOf
  <2>2. \A u \in RefreshTokens : RefreshRotatable(u)' =>
           \/ u = t
           \/ /\ RefreshRotatable(u) /\ rt'[u] = rt[u]
              /\ rt[u].grant # GrantOf(o)
    BY <1>2, <1>6 DEF RefreshRotatable, OneHolderPerGrant
  <2>3. \A k \in Codes : CodeConsumable(k)' => CodeConsumable(k) /\ k # GrantOf(o)
    BY <1>1, <1>3 DEF CodeConsumable, Spent
  <2>4. \A q1, q2 \in TokenReqs :
           Carrying(q1)' /\ Carrying(q2)'
             /\ GrantOf(req[q1].origin)' = GrantOf(req[q2].origin)' => q1 = q2
    BY <1>4, <2>1 DEF OneHolderPerGrant
  <2>5. \A q \in TokenReqs, u \in RefreshTokens :
           Carrying(q)' /\ RefreshRotatable(u)' => GrantOf(req[q].origin)' # rt'[u].grant
    BY <1>1, <1>4, <2>1, <2>2 DEF OneHolderPerGrant
  <2>6. \A u1, u2 \in RefreshTokens :
           RefreshRotatable(u1)' /\ RefreshRotatable(u2)' /\ rt'[u1].grant = rt'[u2].grant
             => u1 = u2
    BY <1>1, <2>2 DEF OneHolderPerGrant
  <2>7. \A k \in Codes : CodeConsumable(k)' =>
           /\ \A q \in TokenReqs : Carrying(q)' => GrantOf(req[q].origin)' # k
           /\ \A u \in RefreshTokens : rt'[u] # None => rt'[u].grant # k
    BY <1>1, <1>4, <1>6, <2>1, <2>3 DEF OneHolderPerGrant
  <2> QED
    BY <2>4, <2>5, <2>6, <2>7 DEF OneHolderPerGrant
<1>8. RedeemedOnce'
  BY <1>1, <1>2, <1>6 DEF RedeemedOnce, NotYetMinted
<1>9. Lineage'
  <2>1. \A u \in RefreshTokens : rt'[u] # None =>
           /\ Spent(rt[u].origin)'
           /\ Spent(rt[u].grant)'
           /\ GrantOf(rt[u].origin)' = rt'[u].grant
    <3> SUFFICES ASSUME NEW u \in RefreshTokens, rt'[u] # None
                 PROVE  /\ Spent(rt[u].origin)'
                        /\ Spent(rt[u].grant)'
                        /\ GrantOf(rt[u].origin)' = rt'[u].grant
      OBVIOUS
    <3>1. CASE u = t
      BY <1>1, <1>2, <1>3, <1>5, <3>1 DEF Spent, GrantOf
    <3>2. CASE u # t
      BY <1>1, <1>5, <1>6, <3>2 DEF Lineage, Spent, GrantOf
    <3> QED
      BY <3>1, <3>2
  <2>2. \A b \in AccessTokens : at'[b] # None /\ at'[b].origin # None => Spent(at[b].origin)'
    <3>1. \A b \in AccessTokens : at[b] # None /\ at[b].origin # None =>
             at[b].origin \in Origins /\ Spent(at[b].origin) /\ Issued(at[b].origin)
      BY DEF TypeOK, AccessTokenRow, Lineage, Spent, Issued
    <3> QED
      BY <1>1, <1>5, <3>1 DEF Spent
  <2>3. \A q \in TokenReqs : Carrying(q)' => Spent(req[q].origin)'
    BY <1>1, <1>4, <1>5 DEF Lineage, Spent
  <2> QED
    BY <2>1, <2>2, <2>3 DEF Lineage
<1>10. NotYetMinted'
  BY <1>1, <1>4 DEF NotYetMinted
<1> QED
  BY <1>7, <1>8, <1>9, <1>10

\* A step of a token request takes a grant, inserts a token, or gives nobody
\* anything.
LEMMA TokenStepCases ==
    ASSUME Inv, NEW r \in TokenReqs, TokenStep(r)
    PROVE  \/ Fading
           \/ \E o \in Origins : Taking(r, o)
           \/ \E a \in AccessTokens : InsertAccessToken(r, a)
           \/ \E t \in RefreshTokens : InsertRefreshToken(r, t)
<1> DEFINE Known == Fading \/ \E o \in Origins : Taking(r, o)
<1> USE DEF Inv, GrantInv
<1>1. \A q \in TokenReqs : q # r => req'[q] = req[q]
  BY OthersUntouched
<1>2. req[r] # None => req[r] \in TokenReq
  BY DEF TypeOK
<1>3. ASSUME Decay,
             Carrying(r)' => /\ Carrying(r)
                             /\ req'[r].origin = req[r].origin
                             /\ req'[r].pc # "insertRT" => req[r].pc # "insertRT"
      PROVE  Known
  BY <1>1, <1>3 DEF Fading, Carrying
<1>4. ASSUME NEW c, NEW pc, NEW o, NEW scopes, Start(r, c, pc, o, scopes),
             o = None \/ (o \in Codes /\ pc = "consume") \/ (o \in RefreshTokens /\ pc = "get")
      PROVE  Known
  <2>1. Decay
    BY <1>4, UnchangedCodesDecay, UnchangedAccessTokensDecay, UnchangedRefreshTokensDecay
    DEF Start, tables, Decay
  <2>2. req'[r].pc = pc /\ req'[r].origin = o
    BY <1>4 DEF Start, TypeOK
  <2> QED
    BY <1>3, <1>4, <2>1, <2>2, CodesAreNotTokens DEF Carrying
<1>5. CASE \E c \in Clients :
              \/ \E k \in Codes : ExchangeCode(r, c, k)
              \/ \E t \in RefreshTokens : RefreshGrant(r, c, t)
              \/ \E scopes \in SUBSET Scopes : ClientCredentials(r, c, scopes)
  BY <1>4, <1>5 DEF ExchangeCode, RefreshGrant, ClientCredentials
<1>6. ASSUME NEW redirect, NEW verifier, ConsumeCode(r, redirect, verifier) PROVE Known
  <2> DEFINE k == req[r].origin
  <2>1. /\ req[r] \in TokenReq /\ req[r].pc = "consume"
        /\ k \in Codes /\ CodeConsumable(k) /\ code[k] \in CodeRow
    BY <1>2, <1>6 DEF ConsumeCode, ReqAt, Stages, CodeConsumable, TypeOK
  <2>2. code' = [code EXCEPT ![k].status = "consumed"] /\ UNCHANGED <<at, rt>>
    BY <1>6 DEF ConsumeCode
  <2>3. code'[k] \in CodeRow /\ code'[k] # None /\ code'[k].status = "consumed"
    BY <2>1, <2>2, NoneIsNoValue DEF CodeRow, TypeOK
  <2>4. Decay
    <3>1. \A j \in Codes : CodeDecays(j)
      BY <2>1, <2>2, <2>3 DEF CodeDecays, CodeConsumable, CodeRow, TypeOK
    <3> QED
      BY <2>2, <3>1, UnchangedAccessTokensDecay, UnchangedRefreshTokensDecay DEF Decay
  <2>5. CASE req'[r] = None
    BY <1>3, <2>4, <2>5 DEF Carrying
  <2>6. CASE req'[r] # None
    <3>1. req'[r].pc = "loadUser" /\ req'[r].origin = k
      BY <1>6, <2>1, <2>6 DEF ConsumeCode, TypeOK, TokenReq
    <3>2. ~Carrying(r) /\ Carrying(r)'
      BY <2>1, <2>6, <3>1, NoneIsNoValue, CodesAreNotTokens DEF Carrying, Origins
    <3> QED
      BY <1>1, <2>1, <2>2, <2>3, <2>4, <3>1, <3>2 DEF Taking, Origins, TypeOK
  <2> QED
    BY <2>5, <2>6
<1>7. ASSUME NEW scopes, GetRefreshToken(r, scopes) PROVE Known
  <2>1. Decay
    BY <1>7, UnchangedCodesDecay, UnchangedAccessTokensDecay, UnchangedRefreshTokensDecay
    DEF GetRefreshToken, tables, Decay
  <2>2. /\ req'[r].pc = "loadUser"
        /\ req'[r].origin = req[r].origin
        /\ req[r].origin \in RefreshTokens
    BY <1>2, <1>7 DEF GetRefreshToken, ReqAt, Stages, TypeOK, TokenReq
  <2> QED
    BY <1>3, <2>1, <2>2, CodesAreNotTokens DEF Carrying
<1>8. CASE LoadUser(r)
  <2>1. Decay
    BY <1>8, UnchangedCodesDecay, UnchangedAccessTokensDecay, UnchangedRefreshTokensDecay
    DEF LoadUser, tables, Decay
  <2>2. /\ req[r] # None /\ req[r].pc = "loadUser"
        /\ req'[r].pc = IF req[r].origin \in Codes THEN "insertAT" ELSE "rotate"
        /\ req'[r].origin = req[r].origin
    BY <1>2, <1>8 DEF LoadUser, ReqAt, TypeOK, TokenReq
  <2> QED
    BY <1>3, <2>1, <2>2 DEF Carrying
<1>9. CASE RotateRefreshToken(r)
  <2> DEFINE o == req[r].origin
  <2>1. /\ req[r] \in TokenReq /\ req[r].pc = "rotate"
        /\ o \in RefreshTokens /\ RefreshRotatable(o) /\ rt[o] \in RefreshTokenRow
    BY <1>2, <1>9 DEF RotateRefreshToken, ReqAt, Stages, RefreshRotatable, TypeOK
  <2>2. rt' = [rt EXCEPT ![o].status = "rotated"] /\ UNCHANGED <<code, at>>
    BY <1>9 DEF RotateRefreshToken
  <2>3. rt'[o] \in RefreshTokenRow /\ rt'[o] # None /\ rt'[o].status = "rotated"
    BY <2>1, <2>2, NoneIsNoValue DEF RefreshTokenRow, TypeOK
  <2>4. Decay
    <3>1. \A t \in RefreshTokens : RefreshTokenDecays(t)
      BY <2>1, <2>2, <2>3 DEF RefreshTokenDecays, RefreshRotatable, RefreshTokenRow, TypeOK
    <3> QED
      BY <2>2, <3>1, UnchangedCodesDecay, UnchangedAccessTokensDecay DEF Decay
  <2>5. req'[r].pc = "insertAT" /\ req'[r].origin = o /\ req'[r] # None
    BY <1>9, <2>1, NoneIsNoValue DEF RotateRefreshToken, TypeOK, TokenReq
  <2>6. ~Carrying(r) /\ Carrying(r)' /\ o \notin Codes
    BY <2>1, <2>5, NoneIsNoValue, CodesAreNotTokens DEF Carrying, Origins
  <2> QED
    BY <1>1, <2>1, <2>2, <2>3, <2>4, <2>5, <2>6 DEF Taking, Origins, TypeOK
<1>10. CASE Abandon(r)
  <2>1. Decay
    BY <1>10, UnchangedCodesDecay, UnchangedAccessTokensDecay, UnchangedRefreshTokensDecay
    DEF Abandon, tables, Decay
  <2> QED
    BY <1>3, <1>10, <2>1 DEF Abandon, Carrying, TypeOK
<1> QED
  BY <1>5, <1>6, <1>7, <1>8, <1>9, <1>10 DEF TokenStep

\* Every step of a token request preserves every part of the invariant.
LEMMA TokenStepKeeps ==
    ASSUME Inv, NEW r \in TokenReqs, TokenStep(r)
    PROVE  (OneHolderPerGrant /\ RedeemedOnce /\ Lineage /\ NotYetMinted)'
BY TokenStepCases, FadingKeeps, TakingKeeps, InsertAccessTokenKeeps, InsertRefreshTokenKeeps

\* The invariant is inductive.
LEMMA InvariantHolds == Spec => []Inv
<1>1. Init => Inv
  BY DEF Init, Inv, GrantInv, TypeOK, SessionStatus, OneHolderPerGrant, RedeemedOnce,
     Stages, Lineage, NotYetMinted, Carrying, RefreshRotatable, CodeConsumable
<1>2. Inv /\ [Next]_vars => Inv'
  <2> SUFFICES ASSUME Inv, [Next]_vars PROVE Inv'
    OBVIOUS
  <2>1. TypeOK' /\ Stages'
    BY StepTypes, StepStages DEF Inv, GrantInv, Typed
  <2>2. (OneHolderPerGrant /\ RedeemedOnce /\ Lineage /\ NotYetMinted)'
    <3>1. CASE Quiet
      BY <3>1, FadingKeeps DEF Quiet, Fading, Carrying
    <3>2. CASE Token
      BY <3>2, TokenStepKeeps DEF Token
    <3>3. CASE \E z \in AuthReqs, k \in Codes : InsertCode(z, k)
      BY <3>3, InsertCodeKeeps
    <3> QED
      BY <3>1, <3>2, <3>3, StepKinds DEF Inv, GrantInv, Typed
  <2> QED
    BY <2>1, <2>2 DEF Inv, GrantInv
<1> QED
  BY <1>1, <1>2, PTL DEF Spec

\* Whatever the interleaving of token requests, revocations, expiry and
\* clean-up, a grant can be continued from one place only.
THEOREM GrantsHaveOneHolder == Spec => []OneHolderPerGrant
BY InvariantHolds, PTL DEF Inv, GrantInv

\* No code and no refresh token is ever redeemed twice.
THEOREM CodesAndTokensAreRedeemedOnce == Spec => []RedeemedOnce
BY InvariantHolds, PTL DEF Inv, GrantInv

\* The rows of revoked refresh tokens are only ever swept.
LEMMA RevokedRowsStay ==
    ASSUME Inv, [Next]_vars, NEW t \in RefreshTokens, Revoked(t)
    PROVE  rt'[t] # None /\ rt'[t].status \in {"revoked", "deleted"}
<1> USE DEF Inv, GrantInv
<1>1. CASE Decay
  BY <1>1 DEF Decay, RefreshTokenDecays, Revoked
<1>2. CASE rt' = rt
  BY <1>2 DEF Revoked
<1>3. ASSUME NEW r \in TokenReqs, RotateRefreshToken(r)
      PROVE  rt'[t] = rt[t]
  <2>1. req[r].origin # t
    BY <1>3 DEF RotateRefreshToken, RefreshRotatable, Revoked
  <2> QED
    BY <1>3, <2>1 DEF RotateRefreshToken, TypeOK
<1>4. ASSUME NEW r \in TokenReqs, NEW u \in RefreshTokens, InsertRefreshToken(r, u)
      PROVE  rt'[t] = rt[t]
  BY <1>4 DEF InsertRefreshToken, Revoked, TypeOK
<1>5. Decay \/ rt' = rt \/ \E r \in TokenReqs :
         RotateRefreshToken(r) \/ \E u \in RefreshTokens : InsertRefreshToken(r, u)
  BY StepKinds DEF Typed, Quiet, InsertCode, Token, TokenStep, ExchangeCode, RefreshGrant,
     ClientCredentials, Start, ConsumeCode, GetRefreshToken, LoadUser, InsertAccessToken,
     Abandon, tables
<1> QED
  BY <1>1, <1>2, <1>3, <1>4, <1>5 DEF Revoked

\* Whatever exists after a step existed before, or was minted from an origin
\* that was already spent.
LEMMA MintedFromSpent ==
    ASSUME Inv, [Next]_vars
    PROVE  /\ \A u \in RefreshTokens : rt'[u] # None => Spent(rt'[u].origin)
           /\ \A a \in AccessTokens : at'[a] # None /\ at'[a].origin # None =>
                 Spent(at'[a].origin)
<1> DEFINE Minted ==
             /\ \A u \in RefreshTokens : rt'[u] # None => Spent(rt'[u].origin)
             /\ \A a \in AccessTokens : at'[a] # None /\ at'[a].origin # None =>
                   Spent(at'[a].origin)
<1> USE DEF Inv, GrantInv
<1>1. CASE Decay
  BY <1>1, DecayFacts DEF Lineage
<1>2. CASE UNCHANGED <<at, rt>>
  BY <1>2 DEF Lineage
<1>3. ASSUME NEW r \in TokenReqs, RotateRefreshToken(r) PROVE Minted
  <2>1. req[r].origin \in RefreshTokens /\ rt[req[r].origin] \in RefreshTokenRow
    BY <1>3 DEF RotateRefreshToken, ReqAt, Stages, RefreshRotatable, TypeOK
  <2>2. \A u \in RefreshTokens : rt'[u] # None => rt[u] # None /\ rt'[u].origin = rt[u].origin
    BY <1>3, <2>1, NoneIsNoValue DEF RotateRefreshToken, RefreshRotatable, TypeOK, RefreshTokenRow
  <2> QED
    BY <1>3, <2>2 DEF RotateRefreshToken, Lineage
<1>4. ASSUME NEW r \in TokenReqs, NEW a \in AccessTokens, InsertAccessToken(r, a) PROVE Minted
  <2>1. req[r].origin # None => Spent(req[r].origin)
    BY <1>4 DEF InsertAccessToken, ReqAt, Carrying, Lineage, TypeOK, TokenReq, Origins
  <2> QED
    BY <1>4, <2>1 DEF InsertAccessToken, Lineage, TypeOK
<1>5. ASSUME NEW r \in TokenReqs, NEW u \in RefreshTokens, InsertRefreshToken(r, u) PROVE Minted
  <2>1. Spent(req[r].origin)
    BY <1>5 DEF InsertRefreshToken, ReqAt, Carrying, Stages, Lineage, TypeOK, TokenReq, Origins
  <2> QED
    BY <1>5, <2>1 DEF InsertRefreshToken, Lineage, TypeOK
<1>6. \/ Decay \/ UNCHANGED <<at, rt>>
      \/ \E r \in TokenReqs :
            \/ RotateRefreshToken(r)
            \/ \E a \in AccessTokens : InsertAccessToken(r, a)
            \/ \E u \in RefreshTokens : InsertRefreshToken(r, u)
  BY StepKinds DEF Typed, Quiet, InsertCode, Token, TokenStep, ExchangeCode, RefreshGrant,
     ClientCredentials, Start, ConsumeCode, GetRefreshToken, LoadUser, Abandon, tables
<1> QED
  BY <1>1, <1>2, <1>3, <1>4, <1>5, <1>6

\* A refresh token revoked before its rotation stays revoked and never has a
\* successor, even if a request read it as valid before the revocation.
THEOREM RevocationIsFinal == Spec => RevokedIsFinal
<1>1. ASSUME Inv, [Next]_vars, NEW t \in RefreshTokens, Revoked(t)
      PROVE  /\ rt'[t].status \in {"revoked", "deleted"}
             /\ \A u \in RefreshTokens : rt'[u] # None => rt'[u].origin # t
             /\ \A a \in AccessTokens : at'[a] # None => at'[a].origin # t
  <2>1. ~Spent(t) /\ t # None
    BY <1>1, CodesAreNotTokens, NoneIsNoValue DEF Revoked, Spent, Origins
  <2> QED
    BY <1>1, <2>1, RevokedRowsStay, MintedFromSpent
<1>2. Inv /\ [Next]_vars =>
         [\A t \in RefreshTokens : Revoked(t) =>
            /\ rt'[t].status \in {"revoked", "deleted"}
            /\ \A u \in RefreshTokens : rt'[u] # None => rt'[u].origin # t
            /\ \A a \in AccessTokens : at'[a] # None => at'[a].origin # t]_vars
  BY <1>1
<1> QED
  BY <1>2, InvariantHolds, PTL DEF Spec, RevokedIsFinal

-----------------------------------------------------------------------------
(* Tokens stay within the grant.  The invariant follows what a token        *)
(* conveys from the code through the locals of the request that mints it.  *)

\* x, a token or the locals of a request, conveys no more than the code its chain
\* began with, and no more than the refresh token it comes from.
Bound(x, codes, tokens) ==
    LET k == IF x.origin \in Codes THEN x.origin ELSE tokens[x.origin].grant
    IN  /\ Narrows(x, codes[k])
        /\ x.session \in {None, codes[k].session}
        /\ x.origin \in RefreshTokens => Narrows(x, tokens[x.origin])

\* The request has read the row it redeems.
Loaded(r) ==
    req[r] # None /\ req[r].origin # None /\ req[r].pc \notin {"consume", "get"}

\* The code that is redeemed had a challenge if the client had to send one.
Challenged(x, codes) ==
    x.origin \in Codes /\ (x.cfg.requirePKCE \/ x.cfg.public) => codes[x.origin].pkce # None

BoundInv ==
    /\ \A t \in RefreshTokens : rt[t] # None => Bound(rt[t], code, rt)
    /\ \A a \in AccessTokens : at[a] # None /\ at[a].origin # None => Bound(at[a], code, rt)
    /\ \A r \in TokenReqs : Loaded(r) => Bound(req[r], code, rt) /\ Challenged(req[r], code)

\* The columns that no statement updates, but for the session a sweep takes.
CodeKept(k) ==
    code[k] # None =>
        /\ code'[k] # None
        /\ code'[k].client = code[k].client /\ code'[k].user = code[k].user
        /\ code'[k].session = code[k].session /\ code'[k].scopes = code[k].scopes
        /\ code'[k].pkce = code[k].pkce

Same(y, x) ==
    /\ y.client = x.client /\ y.user = x.user /\ y.scopes = x.scopes /\ y.origin = x.origin
    /\ y.session \in {x.session, None}

Kept ==
    /\ \A k \in Codes : CodeKept(k)
    /\ \A t \in RefreshTokens : rt[t] # None =>
          rt'[t] # None /\ Same(rt'[t], rt[t]) /\ rt'[t].grant = rt[t].grant
    /\ \A a \in AccessTokens : at[a] # None => at'[a] # None /\ Same(at'[a], at[a])

LEMMA DecayIsKept == ASSUME Decay PROVE Kept
<1>1. \A k \in Codes : CodeKept(k)
  BY DEF Decay, CodeDecays, CodeKept
<1>2. \A t \in RefreshTokens : rt[t] # None =>
         rt'[t] # None /\ Same(rt'[t], rt[t]) /\ rt'[t].grant = rt[t].grant
  BY DEF Decay, RefreshTokenDecays, Same
<1>3. \A a \in AccessTokens : at[a] # None => at'[a] # None /\ Same(at'[a], at[a])
  BY DEF Decay, AccessTokenDecays, Same
<1> QED BY <1>1, <1>2, <1>3 DEF Kept

\* What a token request can do to the tables.
LEMMA TokenStepKinds ==
    ASSUME Inv, NEW r \in TokenReqs, TokenStep(r)
    PROVE  \/ Decay
           \/ \E a \in AccessTokens : InsertAccessToken(r, a)
           \/ \E t \in RefreshTokens : InsertRefreshToken(r, t)
<1> USE DEF Inv, GrantInv
<1>1. CASE UNCHANGED tables
  BY <1>1, UnchangedCodesDecay, UnchangedAccessTokensDecay, UnchangedRefreshTokensDecay
  DEF tables, Decay
<1>2. ASSUME NEW redirect, NEW verifier, ConsumeCode(r, redirect, verifier) PROVE Decay
  <2> DEFINE k == req[r].origin
  <2>1. k \in Codes /\ CodeConsumable(k) /\ code[k] \in CodeRow
    BY <1>2 DEF ConsumeCode, ReqAt, Stages, CodeConsumable, TypeOK
  <2>2. code' = [code EXCEPT ![k].status = "consumed"] /\ UNCHANGED <<at, rt>>
    BY <1>2 DEF ConsumeCode
  <2>3. code'[k] \in CodeRow /\ code'[k] # None /\ code'[k].status = "consumed"
    BY <2>1, <2>2, NoneIsNoValue DEF CodeRow, TypeOK
  <2>4. \A j \in Codes : CodeDecays(j)
    BY <2>1, <2>2, <2>3 DEF CodeDecays, CodeConsumable, CodeRow, TypeOK
  <2> QED
    BY <2>2, <2>4, UnchangedAccessTokensDecay, UnchangedRefreshTokensDecay DEF Decay
<1>3. CASE RotateRefreshToken(r)
  <2> DEFINE o == req[r].origin
  <2>1. o \in RefreshTokens /\ RefreshRotatable(o) /\ rt[o] \in RefreshTokenRow
    BY <1>3 DEF RotateRefreshToken, ReqAt, Stages, RefreshRotatable, TypeOK
  <2>2. rt' = [rt EXCEPT ![o].status = "rotated"] /\ UNCHANGED <<code, at>>
    BY <1>3 DEF RotateRefreshToken
  <2>3. rt'[o] \in RefreshTokenRow /\ rt'[o] # None /\ rt'[o].status = "rotated"
    BY <2>1, <2>2, NoneIsNoValue DEF RefreshTokenRow, TypeOK
  <2>4. \A t \in RefreshTokens : RefreshTokenDecays(t)
    BY <2>1, <2>2, <2>3 DEF RefreshTokenDecays, RefreshRotatable, RefreshTokenRow, TypeOK
  <2> QED
    BY <2>2, <2>4, UnchangedCodesDecay, UnchangedAccessTokensDecay DEF Decay
<1> QED
  BY <1>1, <1>2, <1>3
  DEF TokenStep, ExchangeCode, RefreshGrant, ClientCredentials, Start, GetRefreshToken,
      LoadUser, Abandon

\* No step updates the columns.
LEMMA ColumnsKept == ASSUME Inv, [Next]_vars PROVE Kept
<1>1. CASE Decay
  BY <1>1, DecayIsKept
<1>2. ASSUME NEW z \in AuthReqs, NEW k \in Codes, InsertCode(z, k) PROVE Kept
  BY <1>2 DEF InsertCode, Kept, CodeKept, Same, Inv, TypeOK
<1>3. ASSUME NEW r \in TokenReqs, NEW a \in AccessTokens, InsertAccessToken(r, a) PROVE Kept
  BY <1>3 DEF InsertAccessToken, Kept, CodeKept, Same, Inv, TypeOK
<1>4. ASSUME NEW r \in TokenReqs, NEW t \in RefreshTokens, InsertRefreshToken(r, t) PROVE Kept
  BY <1>4 DEF InsertRefreshToken, Kept, CodeKept, Same, Inv, TypeOK
<1> QED
  BY <1>1, <1>2, <1>3, <1>4, StepKinds, TokenStepKinds
  DEF Quiet, Token, Inv, GrantInv, Typed

\* What was bound stays bound, whatever else is inserted.
LEMMA BoundStays ==
    ASSUME Inv, Kept, NEW x, NEW y, Same(y, x), Bound(x, code, rt),
           x.origin \in Origins, Issued(x.origin),
           GrantOf(x.origin) \in Codes, code[GrantOf(x.origin)] # None
    PROVE  Bound(y, code', rt')
<1> DEFINE k == GrantOf(x.origin)
<1>1. /\ k \in Codes /\ code[k] # None
      /\ k = IF x.origin \in Codes THEN x.origin ELSE rt[x.origin].grant
      /\ k = IF x.origin \in Codes THEN x.origin ELSE rt'[x.origin].grant
  BY DEF GrantOf, Issued, Kept, Origins
<1>2. Narrows(x, code[k]) /\ x.session \in {None, code[k].session}
  BY <1>1 DEF Bound
<1>3. CodeKept(k)
  BY <1>1 DEF Kept
<1>4. Narrows(y, code'[k]) /\ y.session \in {None, code'[k].session}
  BY <1>1, <1>2, <1>3 DEF Narrows, Same, CodeKept
<1>5. ASSUME x.origin \in RefreshTokens PROVE Narrows(y, rt'[x.origin])
  <2>1. x.origin \notin Codes /\ rt[x.origin] # None
    BY <1>5, CodesAreNotTokens DEF Issued
  <2>2. Narrows(x, rt[x.origin]) /\ Same(rt'[x.origin], rt[x.origin])
    BY <1>5, <2>1 DEF Bound, Kept
  <2> QED BY <2>2 DEF Narrows, Same
<1>6. y.origin = x.origin
  BY DEF Same
<1> HIDE DEF k
<1> QED BY <1>1, <1>4, <1>5, <1>6 DEF Bound

\* The grant of what was inserted is a code that was inserted.
LEMMA GrantIssued ==
    ASSUME Inv, NEW o \in Origins, Issued(o)
    PROVE  GrantOf(o) \in Codes /\ code[GrantOf(o)] # None
<1>1. CASE o \in Codes
  BY <1>1 DEF GrantOf, Issued
<1>2. CASE o \notin Codes
  <2>1. o \in RefreshTokens /\ rt[o] # None /\ rt[o] \in RefreshTokenRow
    BY <1>2 DEF Issued, Origins, Inv, TypeOK
  <2>2. rt[o].grant \in Codes /\ Spent(rt[o].grant)
    BY <2>1 DEF RefreshTokenRow, Inv, GrantInv, Lineage
  <2> QED BY <1>2, <2>2 DEF GrantOf, Spent
<1> QED BY <1>1, <1>2

LEMMA LoadedTypes ==
    ASSUME Inv, NEW r \in TokenReqs, Loaded(r)
    PROVE  req[r] \in TokenReq /\ req[r].origin \in Origins /\ Issued(req[r].origin)
BY NoneIsNoValue DEF Inv, GrantInv, TypeOK, Stages, Loaded, TokenReq, Origins

\* A request keeps what it has read, unless this step is the one that reads.
LEMMA LoadedStep ==
    ASSUME Inv, [Next]_vars, NEW r \in TokenReqs, Loaded(r)'
    PROVE  \/ Loaded(r) /\ Same(req'[r], req[r]) /\ req'[r].cfg = req[r].cfg
           \/ \E redirect, verifier : ConsumeCode(r, redirect, verifier)
           \/ \E scopes : GetRefreshToken(r, scopes)
<1> USE DEF Inv, GrantInv
<1>1. CASE req'[r] = req[r]
  BY <1>1 DEF Loaded, Same
<1>2. CASE TokenStep(r)
  <2>1. req[r] # None => req[r] \in TokenReq
    BY DEF TypeOK
  <2>2. ASSUME NEW c, NEW pc, NEW o, NEW scopes, Start(r, c, pc, o, scopes),
               o = None \/ pc \in {"consume", "get"}
        PROVE  FALSE
    <3>1. req'[r].pc = pc /\ req'[r].origin = o
      BY <2>2 DEF Start, TypeOK
    <3> QED BY <2>2, <3>1 DEF Loaded
  <2>3. ~ \E c \in Clients :
             \/ \E k \in Codes : ExchangeCode(r, c, k)
             \/ \E t \in RefreshTokens : RefreshGrant(r, c, t)
             \/ \E scopes \in SUBSET Scopes : ClientCredentials(r, c, scopes)
    BY <2>2 DEF ExchangeCode, RefreshGrant, ClientCredentials
  <2>4. ASSUME NEW pc, req[r] # None, req[r].pc \notin {"consume", "get"},
               req' = [req EXCEPT ![r].pc = pc]
        PROVE  Loaded(r) /\ Same(req'[r], req[r]) /\ req'[r].cfg = req[r].cfg
    <3>1. req'[r] = [req[r] EXCEPT !.pc = pc]
      BY <2>4 DEF TypeOK
    <3> QED BY <2>1, <2>4, <3>1 DEF Loaded, Same, TokenReq
  <2>5. CASE LoadUser(r) \/ RotateRefreshToken(r)
    BY <2>4, <2>5 DEF LoadUser, RotateRefreshToken, ReqAt
  <2>6. ASSUME NEW a \in AccessTokens, InsertAccessToken(r, a)
        PROVE  Loaded(r) /\ Same(req'[r], req[r]) /\ req'[r].cfg = req[r].cfg
    <3>1. req[r] # None /\ req[r].pc = "insertAT"
      BY <2>6 DEF InsertAccessToken, ReqAt
    <3>2. req'[r] # None
      BY DEF Loaded
    <3>3. req' = [req EXCEPT ![r].pc = "insertRT"]
      BY <2>6, <3>2 DEF InsertAccessToken, TypeOK
    <3> QED BY <2>4, <3>1, <3>3
  <2>7. ~ (Abandon(r) \/ \E t \in RefreshTokens : InsertRefreshToken(r, t))
    BY DEF Abandon, InsertRefreshToken, Loaded, TypeOK
  <2> QED BY <1>2, <2>3, <2>5, <2>6, <2>7 DEF TokenStep
<1>3. req'[r] = req[r] \/ TokenStep(r)
  BY StepKinds, OthersUntouched DEF Typed, Quiet, Token, InsertCode
<1> QED BY <1>1, <1>2, <1>3

\* What a request reads is bound by the row it reads.
LEMMA ReadingBinds ==
    ASSUME Inv, BoundInv, NEW r \in TokenReqs, Loaded(r)',
           \/ \E redirect, verifier : ConsumeCode(r, redirect, verifier)
           \/ \E scopes : GetRefreshToken(r, scopes)
    PROVE  /\ Bound(req'[r], code, rt) /\ Challenged(req'[r], code)
           /\ req'[r].origin \in Origins /\ Issued(req'[r].origin)
<1> USE DEF Inv, GrantInv
<1> DEFINE o == req[r].origin
<1>1. ASSUME NEW redirect, NEW verifier, ConsumeCode(r, redirect, verifier)
      PROVE  /\ Bound(req'[r], code, rt) /\ Challenged(req'[r], code)
             /\ req'[r].origin \in Origins /\ Issued(req'[r].origin)
  <2>1. /\ req[r] \in TokenReq /\ o \in Codes /\ code[o] \in CodeRow /\ code[o] # None
        /\ o \notin RefreshTokens
    BY <1>1, CodesAreNotTokens DEF ConsumeCode, ReqAt, Stages, CodeConsumable, TypeOK
  <2>2. req'[r] # None
    BY DEF Loaded
  <2>3. /\ CodeMatches(r, code[o], redirect, verifier)
        /\ req'[r] = [req[r] EXCEPT !.pc = "loadUser", !.user = code[o].user,
                                    !.session = code[o].session, !.scopes = code[o].scopes]
    BY <1>1, <2>2 DEF ConsumeCode, TypeOK
  <2>4. /\ req'[r].origin = o /\ req'[r].client = code[o].client /\ req'[r].cfg = req[r].cfg
        /\ req'[r].user = code[o].user /\ req'[r].scopes = code[o].scopes
        /\ req'[r].session = code[o].session
    BY <2>1, <2>3 DEF TokenReq, CodeMatches
  <2>5. req[r].cfg.requirePKCE \/ req[r].cfg.public => code[o].pkce # None
    BY <2>3 DEF CodeMatches
  <2> HIDE DEF o
  <2> QED BY <2>1, <2>4, <2>5 DEF Bound, Narrows, Challenged, Origins, Issued
<1>2. ASSUME NEW scopes, GetRefreshToken(r, scopes)
      PROVE  /\ Bound(req'[r], code, rt) /\ Challenged(req'[r], code)
             /\ req'[r].origin \in Origins /\ Issued(req'[r].origin)
  <2>1. /\ req[r] \in TokenReq /\ o \in RefreshTokens /\ rt[o] \in RefreshTokenRow /\ rt[o] # None
        /\ o \notin Codes
    BY <1>2, CodesAreNotTokens DEF GetRefreshToken, ReqAt, Stages, RefreshUsable, TypeOK
  <2>2. /\ rt[o].client = req[r].client /\ scopes \subseteq rt[o].scopes
        /\ req'[r] = [req[r] EXCEPT !.pc = "loadUser", !.user = rt[o].user,
                                    !.session = rt[o].session, !.scopes = scopes]
    BY <1>2 DEF GetRefreshToken, TypeOK
  <2>3. /\ req'[r].origin = o /\ req'[r].client = rt[o].client
        /\ req'[r].user = rt[o].user /\ req'[r].scopes = scopes
        /\ req'[r].session = rt[o].session
    BY <2>1, <2>2 DEF TokenReq
  <2>4. Bound(rt[o], code, rt) /\ GrantOf(rt[o].origin) = rt[o].grant
    BY <2>1 DEF BoundInv, Lineage
  <2>5. /\ Narrows(rt[o], code[rt[o].grant])
        /\ rt[o].session \in {None, code[rt[o].grant].session}
    BY <2>4 DEF Bound, GrantOf
  <2> HIDE DEF o
  <2> QED BY <2>1, <2>2, <2>3, <2>5 DEF Bound, Narrows, Challenged, Origins, Issued
<1> QED BY <1>1, <1>2

\* What exists after a step existed before it, or is inserted by it.
LEMMA Inserted ==
    ASSUME Inv, [Next]_vars
    PROVE  /\ \A t \in RefreshTokens : rt'[t] # None =>
                 rt[t] # None \/ \E r \in TokenReqs : InsertRefreshToken(r, t)
           /\ \A a \in AccessTokens : at'[a] # None =>
                 at[a] # None \/ \E r \in TokenReqs : InsertAccessToken(r, a)
<1>1. \/ Decay
      \/ \E z \in AuthReqs, k \in Codes : InsertCode(z, k)
      \/ \E r \in TokenReqs, a \in AccessTokens : InsertAccessToken(r, a)
      \/ \E r \in TokenReqs, t \in RefreshTokens : InsertRefreshToken(r, t)
  BY StepKinds, TokenStepKinds DEF Quiet, Token, Inv, GrantInv, Typed
<1>2. CASE Decay
  BY <1>2 DEF Decay, AccessTokenDecays, RefreshTokenDecays
<1>3. CASE \E z \in AuthReqs, k \in Codes : InsertCode(z, k)
  BY <1>3 DEF InsertCode
<1>4. CASE \E r \in TokenReqs, a \in AccessTokens : InsertAccessToken(r, a)
  BY <1>4 DEF InsertAccessToken, Inv, TypeOK
<1>5. CASE \E r \in TokenReqs, t \in RefreshTokens : InsertRefreshToken(r, t)
  BY <1>5 DEF InsertRefreshToken, Inv, TypeOK
<1> QED BY <1>1, <1>2, <1>3, <1>4, <1>5

LEMMA BoundNext == ASSUME Inv, BoundInv, [Next]_vars PROVE BoundInv'
<1>1. Kept
  BY ColumnsKept
<1>2. ASSUME NEW x, NEW y, Same(y, x), Bound(x, code, rt), x.origin \in Origins, Issued(x.origin)
      PROVE  Bound(y, code', rt')
  BY <1>1, <1>2, GrantIssued, BoundStays
<1>3. ASSUME NEW r \in TokenReqs, Loaded(r), NEW y, Same(y, req[r])
      PROVE  Bound(y, code', rt')
  BY <1>2, <1>3, LoadedTypes DEF BoundInv
<1>4. ASSUME NEW t \in RefreshTokens, rt'[t] # None PROVE Bound(rt'[t], code', rt')
  <2>1. CASE rt[t] # None
    <3>1. Same(rt'[t], rt[t]) /\ Bound(rt[t], code, rt)
      BY <1>1, <2>1 DEF Kept, BoundInv
    <3>2. rt[t].origin \in Origins /\ Issued(rt[t].origin)
      BY <2>1 DEF Inv, GrantInv, TypeOK, RefreshTokenRow, Lineage, Spent, Issued
    <3> QED BY <1>2, <3>1, <3>2
  <2>2. ASSUME NEW r \in TokenReqs, InsertRefreshToken(r, t) PROVE Bound(rt'[t], code', rt')
    <3>1. Loaded(r)
      BY <2>2 DEF InsertRefreshToken, ReqAt, Loaded, Inv, GrantInv, Stages
    <3>2. Same(rt'[t], req[r])
      BY <2>2 DEF InsertRefreshToken, Same, Inv, TypeOK
    <3> QED BY <1>3, <3>1, <3>2
  <2> QED BY <1>4, <2>1, <2>2, Inserted
<1>5. ASSUME NEW a \in AccessTokens, at'[a] # None, at'[a].origin # None
      PROVE  Bound(at'[a], code', rt')
  <2>1. CASE at[a] # None
    <3>1. Same(at'[a], at[a])
      BY <1>1, <2>1 DEF Kept
    <3>2. at[a].origin # None /\ Bound(at[a], code, rt)
      BY <1>5, <2>1, <3>1 DEF Same, BoundInv
    <3>3. at[a].origin \in Origins /\ Issued(at[a].origin)
      BY <2>1, <3>2 DEF Inv, GrantInv, TypeOK, AccessTokenRow, Lineage, Spent, Issued
    <3> QED BY <1>2, <3>1, <3>2, <3>3
  <2>2. ASSUME NEW r \in TokenReqs, InsertAccessToken(r, a) PROVE Bound(at'[a], code', rt')
    <3>1. Same(at'[a], req[r])
      BY <2>2 DEF InsertAccessToken, Same, Inv, TypeOK
    <3>2. Loaded(r)
      BY <1>5, <2>2, <3>1 DEF InsertAccessToken, ReqAt, Loaded, Same
    <3> QED BY <1>3, <3>1, <3>2
  <2> QED BY <1>5, <2>1, <2>2, Inserted
<1>6. ASSUME NEW r \in TokenReqs, Loaded(r)'
      PROVE  Bound(req'[r], code', rt') /\ Challenged(req'[r], code')
  <2>1. ASSUME NEW x, Challenged(x, code), x.origin \in Origins, Issued(x.origin),
               NEW y, y.origin = x.origin, y.cfg = x.cfg
        PROVE  Challenged(y, code')
    BY <1>1, <2>1 DEF Challenged, Kept, CodeKept, Issued
  <2>2. CASE Loaded(r) /\ Same(req'[r], req[r]) /\ req'[r].cfg = req[r].cfg
    <3>1. Challenged(req[r], code) /\ req'[r].origin = req[r].origin
      BY <2>2 DEF BoundInv, Same
    <3> QED BY <1>3, <2>1, <2>2, <3>1, LoadedTypes
  <2>3. CASE \/ \E redirect, verifier : ConsumeCode(r, redirect, verifier)
             \/ \E scopes : GetRefreshToken(r, scopes)
    <3>1. /\ Bound(req'[r], code, rt) /\ Challenged(req'[r], code)
          /\ req'[r].origin \in Origins /\ Issued(req'[r].origin)
      BY <1>6, <2>3, ReadingBinds
    <3>2. Same(req'[r], req'[r])
      BY DEF Same
    <3> QED BY <1>2, <2>1, <3>1, <3>2
  <2> QED BY <1>6, <2>2, <2>3, LoadedStep
<1> QED BY <1>4, <1>5, <1>6 DEF BoundInv

LEMMA BoundHolds == Spec => []BoundInv
<1>1. Init => BoundInv
  BY DEF Init, BoundInv, Loaded
<1>2. Inv /\ BoundInv /\ [Next]_vars => BoundInv'
  BY BoundNext
<1> QED BY <1>1, <1>2, InvariantHolds, PTL DEF Spec

\* However many refreshes away from the code, a token is for its client and user and
\* within its scopes, and names the session the user authorized from, or none
\* (issueTokensWithRotation, RefreshTokens).
THEOREM TokensStayInGrant == Spec => []BoundToGrant
<1>1. Inv /\ BoundInv => BoundToGrant
  <2> SUFFICES ASSUME Inv, BoundInv PROVE BoundToGrant
    OBVIOUS
  <2>1. ASSUME NEW t \in RefreshTokens, rt[t] # None
        PROVE  /\ Narrows(rt[t], code[rt[t].grant])
               /\ rt[t].session \in {None, code[rt[t].grant].session}
               /\ rt[t].origin \in RefreshTokens => Narrows(rt[t], rt[rt[t].origin])
    <3>1. Bound(rt[t], code, rt) /\ GrantOf(rt[t].origin) = rt[t].grant
      BY <2>1 DEF BoundInv, Inv, GrantInv, Lineage
    <3> QED BY <3>1 DEF Bound, GrantOf
  <2>2. ASSUME NEW a \in AccessTokens, at[a] # None, at[a].origin # None
        PROVE  /\ Narrows(at[a], code[GrantOf(at[a].origin)])
               /\ at[a].session \in {None, code[GrantOf(at[a].origin)].session}
               /\ at[a].origin \in RefreshTokens => Narrows(at[a], rt[at[a].origin])
    BY <2>2 DEF BoundInv, Bound, GrantOf
  <2> QED BY <2>1, <2>2 DEF BoundToGrant
<1> QED BY <1>1, InvariantHolds, BoundHolds, PTL

\* A client that must use PKCE when its request begins mints nothing from a code that
\* was issued without a challenge (ExchangeCode).
THEOREM PKCEIsEnforced == Spec => []PKCEEnforced
<1>1. Inv /\ BoundInv => PKCEEnforced
  <2> SUFFICES ASSUME Inv, BoundInv, NEW r \in TokenReqs, Carrying(r), req[r].origin \in Codes,
                      req[r].cfg.requirePKCE \/ req[r].cfg.public
               PROVE  code[req[r].origin].pkce # None
    BY DEF PKCEEnforced
  <2>1. Loaded(r)
    BY CodesAreNotTokens DEF Inv, GrantInv, Stages, Carrying, Loaded
  <2> QED BY <2>1 DEF BoundInv, Challenged
<1> QED BY <1>1, InvariantHolds, BoundHolds, PTL
-----------------------------------------------------------------------------
(* The refinement of GrantCustody.  Under the invariant the cases of       *)
(* Holder exclude each other, so that a step can be followed grant by      *)
(* grant.                                                                  *)

\* The cases of Holder, one by one.
Opened(k) == code[k] # None
AtRequest(k) == \E r \in TokenReqs : Carrying(r) /\ GrantOf(req[r].origin) = k
AtToken(k, t) == RefreshRotatable(t) /\ rt[t].grant = k

\* At most one of them applies.
LEMMA OneCaseApplies ==
    ASSUME Inv, NEW k \in Codes
    PROVE  /\ CodeConsumable(k) => Opened(k) /\ ~AtRequest(k)
           /\ AtRequest(k) => Opened(k)
           /\ \A t \in RefreshTokens : AtToken(k, t) =>
                 /\ Opened(k) /\ ~CodeConsumable(k) /\ ~AtRequest(k)
                 /\ \A u \in RefreshTokens : AtToken(k, u) => u = t
<1> USE DEF Inv, GrantInv
<1>1. CodeConsumable(k) => Opened(k) /\ ~AtRequest(k)
  BY DEF CodeConsumable, Opened, AtRequest, OneHolderPerGrant
<1>2. ASSUME NEW r \in TokenReqs, Carrying(r), GrantOf(req[r].origin) = k PROVE Opened(k)
  <2>1. req[r].origin \in Origins /\ Spent(req[r].origin)
    BY <1>2, CarriedOriginIssued DEF Lineage
  <2> QED BY <1>2, <2>1 DEF Lineage, Spent, GrantOf, Opened, Origins
<1>3. ASSUME NEW t \in RefreshTokens, AtToken(k, t)
      PROVE  /\ Opened(k) /\ ~CodeConsumable(k) /\ ~AtRequest(k)
             /\ \A u \in RefreshTokens : AtToken(k, u) => u = t
  <2>1. rt[t] # None /\ RefreshRotatable(t) /\ rt[t].grant = k
    BY <1>3 DEF AtToken, RefreshRotatable
  <2>2. Opened(k)
    BY <2>1 DEF Lineage, Spent, Opened
  <2> QED BY <2>1, <2>2 DEF OneHolderPerGrant, AtToken, AtRequest
<1> QED BY <1>1, <1>2, <1>3 DEF AtRequest

\* So the holder of a grant says which.
HolderSays ==
    \A k \in Codes :
        /\ Holder(k) \in {"none", "code", "request", "spent"} \cup RefreshTokens
        /\ Holder(k) = "none" <=> ~Opened(k)
        /\ Holder(k) = "code" <=> CodeConsumable(k)
        /\ Holder(k) = "request" <=> AtRequest(k)
        /\ \A t \in RefreshTokens : Holder(k) = t <=> AtToken(k, t)

LEMMA HolderIsSound == Inv => HolderSays
<1> SUFFICES ASSUME Inv, NEW k \in Codes
             PROVE  /\ Holder(k) \in {"none", "code", "request", "spent"} \cup RefreshTokens
                    /\ Holder(k) = "none" <=> ~Opened(k)
                    /\ Holder(k) = "code" <=> CodeConsumable(k)
                    /\ Holder(k) = "request" <=> AtRequest(k)
                    /\ \A t \in RefreshTokens : Holder(k) = t <=> AtToken(k, t)
  BY DEF HolderSays
<1>1. CASE ~Opened(k)
  <2>1. Holder(k) = "none"
    BY <1>1, OneCaseApplies DEF Holder, Opened, AtRequest, AtToken, CodeConsumable
  <2> QED BY <1>1, <2>1, OneCaseApplies, HoldersDiffer
<1>2. CASE CodeConsumable(k)
  <2>1. Holder(k) = "code"
    BY <1>2, OneCaseApplies DEF Holder, Opened, AtRequest, AtToken
  <2> QED BY <1>2, <2>1, OneCaseApplies, HoldersDiffer
<1>3. CASE AtRequest(k)
  <2>1. Holder(k) = "request"
    BY <1>3, OneCaseApplies DEF Holder, Opened, AtRequest, AtToken
  <2> QED BY <1>3, <2>1, OneCaseApplies, HoldersDiffer
<1>4. ASSUME NEW t \in RefreshTokens, AtToken(k, t)
      PROVE  /\ Holder(k) = t
             /\ Opened(k) /\ ~CodeConsumable(k) /\ ~AtRequest(k)
             /\ \A u \in RefreshTokens : AtToken(k, u) => u = t
  <2>1. /\ Opened(k) /\ ~CodeConsumable(k) /\ ~AtRequest(k)
        /\ \A u \in RefreshTokens : AtToken(k, u) => u = t
    BY <1>4, OneCaseApplies
  <2>2. Holder(k) = CHOOSE u \in RefreshTokens : RefreshRotatable(u) /\ rt[u].grant = k
    BY <1>4, <2>1 DEF Holder, Opened, AtRequest, AtToken
  <2>3. t = CHOOSE u \in RefreshTokens : RefreshRotatable(u) /\ rt[u].grant = k
    BY <1>4, <2>1 DEF AtToken
  <2> QED BY <2>1, <2>2, <2>3
<1>5. CASE Opened(k) /\ ~CodeConsumable(k) /\ ~AtRequest(k)
           /\ \A t \in RefreshTokens : ~AtToken(k, t)
  <2>1. Holder(k) = "spent"
    BY <1>5 DEF Holder, Opened, AtRequest, AtToken
  <2> QED BY <1>5, <2>1, HoldersDiffer
<1> QED BY <1>1, <1>2, <1>3, <1>4, <1>5, HoldersDiffer

\* A step that gives no grant to anybody: some may be lost.
LEMMA LosingMaps ==
    ASSUME HolderSays, HolderSays',
           \A k \in Codes :
               /\ Opened(k)' <=> Opened(k)
               /\ CodeConsumable(k)' => CodeConsumable(k)
               /\ AtRequest(k)' => AtRequest(k)
               /\ \A t \in RefreshTokens : AtToken(k, t)' => AtToken(k, t),
           \A t \in RefreshTokens : rt'[t] # None <=> rt[t] # None
    PROVE  Custody!CustodyNext
<1> DEFINE gone == {k \in Codes : Holder(k)' # Holder(k)}
<1>1. \A k \in Codes : Holder(k)' # Holder(k) =>
         Holder(k)' = "spent" /\ Holder(k) \notin {"none", "spent"}
  BY HoldersDiffer DEF HolderSays
<1>2. Custody!Lose(gone)
  BY <1>1 DEF Custody!Lose
<1> QED BY <1>2 DEF Custody!CustodyNext

LEMMA FadingMaps ==
    ASSUME Inv, Fading, HolderSays, HolderSays' PROVE Custody!CustodyNext
<1> USE DEF Inv, GrantInv
<1>1. Decay
  BY DEF Fading
<1>2. ASSUME NEW k \in Codes
      PROVE  (Opened(k)' <=> Opened(k)) /\ (CodeConsumable(k)' => CodeConsumable(k))
  BY <1>1 DEF Decay, CodeDecays, Opened, CodeConsumable
<1>3. ASSUME NEW k \in Codes, AtRequest(k)' PROVE AtRequest(k)
  <2>1. PICK r \in TokenReqs : Carrying(r)' /\ GrantOf(req[r].origin)' = k
    BY <1>3 DEF AtRequest
  <2>2. Carrying(r) /\ req'[r].origin = req[r].origin
    BY <2>1 DEF Fading
  <2>3. req[r].origin \in Origins /\ Issued(req[r].origin)
    BY <2>2, CarriedOriginIssued
  <2>4. GrantOf(req[r].origin) = k
    BY <1>1, <2>1, <2>2, <2>3, DecayFacts DEF GrantOf
  <2> QED BY <2>2, <2>4 DEF AtRequest
<1>4. ASSUME NEW k \in Codes, NEW t \in RefreshTokens, AtToken(k, t)' PROVE AtToken(k, t)
  BY <1>1, <1>4, DecayFacts DEF AtToken, RefreshRotatable
<1>5. \A t \in RefreshTokens : rt'[t] # None <=> rt[t] # None
  BY <1>1 DEF Decay, RefreshTokenDecays
<1> QED BY <1>2, <1>3, <1>4, <1>5, LosingMaps

LEMMA InsertAccessTokenMaps ==
    ASSUME Inv, HolderSays, HolderSays',
           NEW r \in TokenReqs, NEW a \in AccessTokens, InsertAccessToken(r, a)
    PROVE  Custody!CustodyNext
<1> USE DEF Inv, GrantInv
<1>1. /\ UNCHANGED <<code, rt>>
      /\ \A q \in TokenReqs : q # r => req'[q] = req[q]
      /\ req[r] # None /\ req[r].pc = "insertAT" /\ req[r] \in TokenReq
  BY DEF InsertAccessToken, ReqAt, TypeOK
<1>2. ASSUME NEW q \in TokenReqs, Carrying(q)'
      PROVE  Carrying(q) /\ req'[q].origin = req[q].origin
  <2>1. CASE q # r
    BY <1>1, <1>2, <2>1 DEF Carrying
  <2>2. CASE q = r
    BY <1>1, <1>2, <2>2 DEF InsertAccessToken, WantsRefreshToken, Carrying, TypeOK, TokenReq, Origins
  <2> QED BY <2>1, <2>2
<1>3. ASSUME NEW k \in Codes, AtRequest(k)' PROVE AtRequest(k)
  BY <1>1, <1>2, <1>3 DEF AtRequest, GrantOf
<1> QED BY <1>1, <1>3, LosingMaps DEF Opened, CodeConsumable, AtToken, RefreshRotatable

\* A grant that keeps its cases keeps its holder.
LEMMA HolderStays ==
    ASSUME HolderSays, HolderSays', NEW k \in Codes,
           Opened(k)' <=> Opened(k),
           CodeConsumable(k)' <=> CodeConsumable(k),
           AtRequest(k)' <=> AtRequest(k),
           \A t \in RefreshTokens : AtToken(k, t)' <=> AtToken(k, t)
    PROVE  Holder(k)' = Holder(k)
BY HoldersDiffer DEF HolderSays

\* The first holder of a grant is its code.
LEMMA InsertCodeMaps ==
    ASSUME Inv, HolderSays, HolderSays',
           NEW z \in AuthReqs, NEW k \in Codes, InsertCode(z, k)
    PROVE  Custody!CustodyNext
<1> USE DEF Inv, GrantInv
<1>1. /\ UNCHANGED <<at, rt, req>>
      /\ code[k] = None
      /\ \A j \in Codes : j # k => code'[j] = code[j]
      /\ code'[k].status = "issued"
      /\ code'[k] # None
  <2>1. authz[z] \in AuthReq /\ authz[z].session \in Sessions
    BY DEF InsertCode, TypeOK, Stages, AuthReq
  <2>2. code'[k] \in CodeRow /\ code'[k].status = "issued"
    BY <2>1, SessionsHaveUsers DEF InsertCode, TypeOK, AuthReq, CodeRow
  <2> QED BY <2>2, NoneIsNoValue DEF InsertCode, TypeOK
<1>2. Holder(k) = "none" /\ Holder(k)' = "code"
  BY <1>1 DEF HolderSays, Opened, CodeConsumable
<1>3. ASSUME NEW j \in Codes, j # k PROVE Holder(j)' = Holder(j)
  <2>1. (Opened(j)' <=> Opened(j)) /\ (CodeConsumable(j)' <=> CodeConsumable(j))
    BY <1>1, <1>3 DEF Opened, CodeConsumable
  <2>2. AtRequest(j)' <=> AtRequest(j)
    BY <1>1 DEF AtRequest, Carrying, GrantOf
  <2>3. \A t \in RefreshTokens : AtToken(j, t)' <=> AtToken(j, t)
    BY <1>1 DEF AtToken, RefreshRotatable
  <2> QED BY <2>1, <2>2, <2>3, HolderStays
<1>4. Custody!Open(k)
  BY <1>1, <1>2, <1>3 DEF Custody!Open
<1> QED BY <1>4 DEF Custody!CustodyNext

\* A code is consumed, or a refresh token rotated: the request has the grant.
LEMMA TakingMaps ==
    ASSUME Inv, HolderSays, HolderSays',
           NEW r \in TokenReqs, NEW o \in Origins, Taking(r, o)
    PROVE  Custody!CustodyNext
<1> USE DEF Inv, GrantInv
<1>1. PICK g \in Codes : Issued(o) /\ GrantOf(o) = g /\ GrantOf(o)' = g
  <2>1. Issued(o)
    BY DEF Taking, Issued, CodeConsumable, RefreshRotatable
  <2> QED BY <2>1, GrantsAreCodes, DecayFacts DEF Taking, GrantOf
<1>2. Holder(g) = "code" \/ Holder(g) \in RefreshTokens
  <2>1. CASE o \in Codes
    BY <1>1, <2>1 DEF Taking, GrantOf, HolderSays
  <2>2. CASE o \notin Codes
    BY <1>1, <2>2 DEF Taking, GrantOf, HolderSays, AtToken, Origins
  <2> QED BY <2>1, <2>2
<1>3. Holder(g)' = "request"
  BY <1>1 DEF Taking, HolderSays, AtRequest
<1>4. ASSUME NEW k \in Codes, k # g PROVE Holder(k)' = Holder(k)
  <2>1. (Opened(k)' <=> Opened(k)) /\ (CodeConsumable(k)' <=> CodeConsumable(k))
    <3>1. k # o
      BY <1>1, <1>4 DEF GrantOf
    <3> QED BY <3>1 DEF Taking, Opened, CodeConsumable
  <2>2. \A t \in RefreshTokens : AtToken(k, t)' <=> AtToken(k, t)
    <3> TAKE t \in RefreshTokens
    <3>1. CASE t # o
      BY <3>1 DEF Taking, AtToken, RefreshRotatable
    <3>2. CASE t = o
      <4>1. o \notin Codes /\ rt[o].grant = g /\ rt'[o].grant = g
        BY <1>1, <3>2, CodesAreNotTokens DEF GrantOf
      <4> QED BY <1>4, <3>2, <4>1 DEF AtToken
    <3> QED BY <3>1, <3>2
  <2>3. ASSUME NEW q \in TokenReqs, q # r
        PROVE  Carrying(q)' /\ GrantOf(req[q].origin)' = k
                 <=> Carrying(q) /\ GrantOf(req[q].origin) = k
    <3>1. req'[q] = req[q] /\ (Carrying(q)' <=> Carrying(q))
      BY <2>3 DEF Taking, Carrying
    <3>2. Carrying(q) => GrantOf(req[q].origin)' = GrantOf(req[q].origin)
      BY <3>1, CarriedOriginIssued, DecayFacts DEF Taking, GrantOf
    <3> QED BY <3>1, <3>2
  <2>4. ~Carrying(r) /\ GrantOf(req[r].origin)' = g
    BY <1>1 DEF Taking, GrantOf
  <2>5. AtRequest(k)' <=> AtRequest(k)
    BY <1>4, <2>3, <2>4 DEF AtRequest
  <2> QED BY <2>1, <2>2, <2>5, HolderStays
<1>5. \A t \in RefreshTokens : rt'[t] # None <=> rt[t] # None
  BY DEF Taking, Decay, RefreshTokenDecays
<1>6. Custody!Take(g)
  BY <1>1, <1>2, <1>3, <1>4, <1>5 DEF Custody!Take
<1> QED BY <1>1, <1>6 DEF Custody!CustodyNext

\* The request hands the grant to the refresh token it inserts.
LEMMA InsertRefreshTokenMaps ==
    ASSUME Inv, HolderSays, HolderSays',
           NEW r \in TokenReqs, NEW t \in RefreshTokens, InsertRefreshToken(r, t)
    PROVE  Custody!CustodyNext
<1> USE DEF Inv, GrantInv
<1>0. PICK o \in Origins, g \in Codes :
         Carrying(r) /\ o = req[r].origin /\ Issued(o) /\ g = GrantOf(o)
  <2>1. Carrying(r)
    BY DEF InsertRefreshToken, ReqAt, Stages, TypeOK, TokenReq, Carrying, Origins
  <2> QED BY <2>1, CarriedOriginIssued, GrantsAreCodes
<1>1. /\ UNCHANGED code
      /\ rt[t] = None
      /\ \A u \in RefreshTokens : u # t => rt'[u] = rt[u]
      /\ rt'[t].grant = g /\ rt'[t].status = "active"
      /\ \A q \in TokenReqs : q # r => req'[q] = req[q]
      /\ req'[r] = None
  BY <1>0 DEF InsertRefreshToken, TypeOK
<1>2. rt'[t] # None
  <2>1. req[r] \in TokenReq
    BY <1>0, CarriedOriginIssued
  <2>2. req[r].user \in Users
    BY <1>0, <2>1 DEF InsertRefreshToken, ReqAt, Stages, TokenReq, Carrying
  <2>3. rt'[t] \in RefreshTokenRow
    BY <1>0, <2>1, <2>2 DEF InsertRefreshToken, TypeOK, TokenReq, RefreshTokenRow
  <2> QED BY <2>3, NoneIsNoValue
<1>4. Holder(g) = "request"
  BY <1>0 DEF HolderSays, AtRequest
<1>5. Holder(g)' = t
  BY <1>1, <1>2 DEF HolderSays, AtToken, RefreshRotatable
<1>6. ASSUME NEW k \in Codes, k # g PROVE Holder(k)' = Holder(k)
  <2>1. (Opened(k)' <=> Opened(k)) /\ (CodeConsumable(k)' <=> CodeConsumable(k))
    BY <1>1 DEF Opened, CodeConsumable
  <2>2. \A u \in RefreshTokens : AtToken(k, u)' <=> AtToken(k, u)
    BY <1>1, <1>6 DEF AtToken, RefreshRotatable
  <2>3. ASSUME NEW q \in TokenReqs, q # r
        PROVE  Carrying(q)' /\ GrantOf(req[q].origin)' = k
                 <=> Carrying(q) /\ GrantOf(req[q].origin) = k
    <3>1. req'[q] = req[q] /\ (Carrying(q)' <=> Carrying(q))
      BY <1>1, <2>3 DEF Carrying
    <3>2. ASSUME Carrying(q) PROVE GrantOf(req[q].origin)' = GrantOf(req[q].origin)
      <4>1. req[q].origin \in Origins /\ Issued(req[q].origin)
        BY <3>2, CarriedOriginIssued
      <4> QED BY <1>1, <3>1, <4>1 DEF GrantOf, Issued, Origins
    <3> QED BY <3>1, <3>2
  <2>4. ~Carrying(r)'
    BY <1>1 DEF Carrying
  <2>5. AtRequest(k)' <=> AtRequest(k)
    BY <1>0, <1>6, <2>3, <2>4 DEF AtRequest
  <2> QED BY <2>1, <2>2, <2>5, HolderStays
<1>7. /\ {u \in RefreshTokens : rt'[u] # None} = {u \in RefreshTokens : rt[u] # None} \cup {t}
      /\ t \notin {u \in RefreshTokens : rt[u] # None}
  BY <1>1, <1>2
<1>8. Custody!Give(g, t)
  BY <1>4, <1>5, <1>6, <1>7 DEF Custody!Give
<1> QED BY <1>8 DEF Custody!CustodyNext

\* Every statement of every handler is a step of GrantCustody.
LEMMA StepMaps ==
    ASSUME Inv, HolderSays, HolderSays', [Next]_vars PROVE Custody!CustodyNext
<1>1. CASE Quiet
  BY <1>1, FadingMaps DEF Quiet, Fading, Carrying
<1>2. CASE Token
  BY <1>2, TokenStepCases, FadingMaps, TakingMaps, InsertAccessTokenMaps,
     InsertRefreshTokenMaps DEF Token
<1>3. CASE \E z \in AuthReqs, k \in Codes : InsertCode(z, k)
  BY <1>3, InsertCodeMaps
<1> QED BY <1>1, <1>2, <1>3, StepKinds DEF Inv, GrantInv, Typed

\* The token service implements GrantCustody: whatever the interleaving, the
\* right to continue a grant is handed from the code to a request to a refresh
\* token and so on, or lost; it is never copied and never comes back.
THEOREM GrantsAreHandedOver == Spec => GrantIsHandedOver
<1>1. Init => Custody!CustodyInit
  BY DEF Init, Custody!CustodyInit, Holder, CodeConsumable, Carrying, RefreshRotatable
<1>2. Inv /\ HolderSays /\ HolderSays' /\ [Next]_vars => Custody!CustodyNext
  BY StepMaps
<1> QED
  BY <1>1, <1>2, InvariantHolds, HolderIsSound, PTL
  DEF Spec, GrantIsHandedOver, Custody!CustodySpec

-----------------------------------------------------------------------------
(* What is lost stays lost.                                                *)

\* In GrantCustody no step finds a lost grant again.
LEMMA CustodyFindsNothing ==
    ASSUME HolderSays, Custody!CustodyNext, NEW k \in Codes, Holder(k) = "spent"
    PROVE  Holder(k)' = "spent"
<1> DEFINE holder == [j \in Codes |-> Holder(j)]
<1>1. holder[k] = "spent" /\ holder'[k] = Holder(k)' /\ "spent" \notin RefreshTokens
  BY HoldersDiffer
<1>2. ASSUME NEW g \in Codes,
             Custody!Open(g) \/ Custody!Take(g) \/ \E t \in RefreshTokens : Custody!Give(g, t)
      PROVE  g # k /\ \E v : holder' = [holder EXCEPT ![g] = v]
  BY <1>1, <1>2 DEF Custody!Open, Custody!Take, Custody!Give
<1>3. ASSUME NEW gone \in SUBSET Codes, Custody!Lose(gone) PROVE holder'[k] = "spent"
  BY <1>1, <1>3 DEF Custody!Lose
<1> HIDE DEF holder
<1>4. ASSUME NEW g \in Codes, g # k, NEW v, holder' = [holder EXCEPT ![g] = v]
      PROVE  holder'[k] = "spent"
  BY <1>1, <1>4
<1> QED BY <1>1, <1>2, <1>3, <1>4 DEF Custody!CustodyNext

\* A grant that nobody can continue any more, because its code or token expired, was
\* revoked or swept, or because the request that had taken it failed, can never
\* be continued again, and neither an access token nor a refresh token is issued
\* for it: not by a request that had read its rows while they were valid, nor by a
\* retry (ExchangeCode, RefreshTokens, issueTokensWithRotation, Revoke).
THEOREM LostGrantsStayLost ==
    Spec => [][\A k \in Codes : Holder(k) = "spent" =>
                 /\ Holder(k)' = "spent"
                 /\ \A t \in RefreshTokens : rt[t] = None /\ rt'[t] # None => rt'[t].grant # k
                 /\ \A a \in AccessTokens :
                       at[a] = None /\ at'[a] # None /\ at'[a].origin # None
                         => GrantOf(at[a].origin)' # k]_vars
<1> DEFINE Stays(k) ==
             /\ Holder(k)' = "spent"
             /\ \A t \in RefreshTokens : rt[t] = None /\ rt'[t] # None => rt'[t].grant # k
             /\ \A a \in AccessTokens :
                   at[a] = None /\ at'[a] # None /\ at'[a].origin # None
                     => GrantOf(at[a].origin)' # k
<1>1. ASSUME Inv, HolderSays, HolderSays', [Next]_vars, NEW k \in Codes, Holder(k) = "spent"
      PROVE  Stays(k)
  <2> USE DEF Inv, GrantInv
  <2>1. Holder(k)' = "spent"
    BY <1>1, StepMaps, CustodyFindsNothing
  <2>2. ~AtRequest(k)
    BY <1>1, HoldersDiffer DEF HolderSays
  <2>3. ASSUME NEW t \in RefreshTokens, rt[t] = None, rt'[t] # None PROVE rt'[t].grant # k
    <3>1. PICK r \in TokenReqs : InsertRefreshToken(r, t)
      BY <1>1, <2>3, Inserted
    <3>2. Carrying(r) /\ rt'[t].grant = GrantOf(req[r].origin)
      BY <1>1, <3>1 DEF InsertRefreshToken, ReqAt, Stages, TypeOK, TokenReq, Carrying, Origins
    <3> QED BY <2>2, <3>2 DEF AtRequest
  <2>4. ASSUME NEW a \in AccessTokens, at[a] = None, at'[a] # None, at'[a].origin # None
        PROVE  GrantOf(at[a].origin)' # k
    <3>1. PICK r \in TokenReqs : InsertAccessToken(r, a)
      BY <1>1, <2>4, Inserted
    <3>2. at'[a].origin = req[r].origin /\ UNCHANGED rt
      BY <1>1, <3>1 DEF InsertAccessToken, TypeOK
    <3>3. Carrying(r)
      BY <1>1, <2>4, <3>1, <3>2 DEF InsertAccessToken, ReqAt, Carrying, TypeOK, TokenReq, Origins
    <3>4. GrantOf(at[a].origin)' = GrantOf(req[r].origin)
      BY <3>2 DEF GrantOf
    <3> QED BY <2>2, <3>3, <3>4 DEF AtRequest
  <2> QED BY <2>1, <2>3, <2>4
<1>2. Inv /\ HolderSays /\ HolderSays' /\ [Next]_vars =>
         [\A k \in Codes : Holder(k) = "spent" => Stays(k)]_vars
  BY <1>1
<1> QED BY <1>2, InvariantHolds, HolderIsSound, PTL DEF Spec
=============================================================================

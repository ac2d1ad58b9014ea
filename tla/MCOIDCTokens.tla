----------------------------- MODULE MCOIDCTokens -----------------------------
(* Instances of OIDCTokens for TLC: the client settings the runs use.      *)
EXTENDS OIDCTokens, TLC

CONSTANTS s1, s2, u1, u2, url1, url2

\* One user per session id.
MCSessionUser == [s \in Sessions |-> IF s = s1 THEN u1 ELSE u2]

\* A confidential client with every grant.
Confidential ==
    [enabled |-> TRUE, public |-> FALSE, requirePKCE |-> FALSE,
     requireConsent |-> FALSE, scopes |-> Scopes, redirects |-> {url1},
     grants |-> GrantTypes]

Public ==
    [Confidential EXCEPT !.public = TRUE, !.requirePKCE = TRUE,
                         !.grants = {"authorization_code", "refresh_token"}]

PublicOnly == {Public}

\* The edits an administrator may make: turn PKCE and consent on and let the
\* client act for itself, or withdraw the refresh grant and disable the client.
Edits ==
    LET ForUsers == [Confidential EXCEPT !.grants = {"authorization_code", "refresh_token"}]
    IN  {ForUsers,
         [Confidential EXCEPT !.requirePKCE = TRUE, !.requireConsent = TRUE],
         [ForUsers EXCEPT !.enabled = FALSE, !.grants = {"authorization_code"}]}

Interchangeable == Permutations(Clients) \cup Permutations(TokenReqs)
                       \cup Permutations(AccessTokens) \cup Permutations(RefreshTokens)

\* Where a run stops exploring.  A browser that can no longer get a code is
\* not followed.
FollowTheBrowser ==
    (\A k \in Codes : code[k] # None) => \A z \in AuthReqs : authz[z] = None

\* An access token is never read by the token endpoint, so what becomes of it
\* after it was minted is not followed.
FollowTheGrant ==
    /\ FollowTheBrowser
    /\ \A a \in AccessTokens : at[a] # None => at[a].status = "active"

\* With two clients and two users, deletions only end the story early, and a
\* token a client gets for itself is followed only before anyone signs in.
FollowTheOwners ==
    /\ FollowTheBrowser
    /\ \A a \in AccessTokens : at[a] # None =>
           IF at[a].user = None
           THEN /\ \A k \in Codes : code[k] = None
                /\ \A z \in AuthReqs : authz[z] = None
           ELSE at[a].status = "active"
    /\ deletedUsers = {}
    /\ \A c \in Clients : client[c] # None
    /\ \A s \in Sessions : session[s] \in {"none", "live"}
    /\ \A t \in RefreshTokens : rt[t] # None => rt[t].status \in {"active", "rotated"}
=============================================================================

--------------------------- MODULE OIDCTokenClaims ---------------------------
(***************************************************************************)
(* What internal/store/README.md says of refresh token reuse, stated over  *)
(* the token service of OIDCTokens.  The history records what the clients  *)
(* were answered.                                                          *)
(***************************************************************************)
EXTENDS MCOIDCTokens

VARIABLE reused    \* refresh tokens that were refused because they had been rotated

claimVars == <<vars, reused>>

ClaimInit == Init /\ reused = {}

\* A rotated refresh token is presented again: GetOIDCRefreshToken finds no
\* row and the handler answers invalid_grant.
RefuseReuse(r) ==
    /\ ReqAt(r, "get")
    /\ rt[req[r].origin].status = "rotated"
    /\ Abandon(r)
    /\ reused' = reused \cup {req[r].origin}

ClaimNext ==
    \/ \E r \in TokenReqs : RefuseReuse(r)
    \/ Next /\ UNCHANGED reused

ClaimSpec == ClaimInit /\ [][ClaimNext]_claimVars

\* internal/store/README.md: "Reuse of a rotated token ... The service code
\* then revokes the entire family."
ReuseRevokesFamily ==
    \A t \in reused : \A u \in RefreshTokens :
        RefreshUsable(u) => rt[u].grant # rt[t].grant
=============================================================================

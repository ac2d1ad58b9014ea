----------------------------- MODULE GrantCustody -----------------------------
(***************************************************************************)
(* What the token endpoint promises about an authorization a user has      *)
(* granted, whatever the interleaving of its requests: the right to obtain *)
(* tokens is one object.  It is held by the authorization code, then by    *)
(* the request that redeems it, then by one refresh token, the request     *)
(* that rotates it, the next refresh token, and so on.  It is never copied *)
(* and never found again once lost; no refresh token holds it twice.       *)
(***************************************************************************)
CONSTANTS Grants, Tokens

VARIABLES
    holder,   \* who holds each grant
    seen      \* the refresh tokens handed out so far

States == {"none", "code", "request", "spent"}

CustodyTypeOK ==
    /\ holder \in [Grants -> States \cup Tokens]
    /\ seen \subseteq Tokens

CustodyInit ==
    /\ holder = [g \in Grants |-> "none"]
    /\ seen = {}

\* The user authorizes: a code is issued.
Open(g) ==
    /\ holder[g] = "none"
    /\ holder' = [holder EXCEPT ![g] = "code"]
    /\ UNCHANGED seen

\* A request takes the grant from the code or from the current refresh token.
Take(g) ==
    /\ holder[g] = "code" \/ holder[g] \in Tokens
    /\ holder' = [holder EXCEPT ![g] = "request"]
    /\ UNCHANGED seen

\* The request hands the grant to a refresh token nobody has had before.
Give(g, t) ==
    /\ holder[g] = "request"
    /\ t \notin seen
    /\ holder' = [holder EXCEPT ![g] = t]
    /\ seen' = seen \cup {t}

\* Codes and tokens expire or are revoked, requests fail or want no refresh
\* token; one statement may end several grants.
Lose(gone) ==
    /\ \A g \in gone : holder[g] \notin {"none", "spent"}
    /\ holder' = [g \in Grants |-> IF g \in gone THEN "spent" ELSE holder[g]]
    /\ UNCHANGED seen

CustodyNext ==
    \/ \E g \in Grants : Open(g) \/ Take(g) \/ \E t \in Tokens : Give(g, t)
    \/ \E gone \in SUBSET Grants : Lose(gone)

CustodySpec == CustodyInit /\ [][CustodyNext]_<<holder, seen>>
=============================================================================

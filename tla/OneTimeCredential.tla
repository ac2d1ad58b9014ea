--------------------------- MODULE OneTimeCredential ---------------------------
(***************************************************************************)
(* What a credential that may be used once promises, whatever races for    *)
(* it: it is issued, one taker at most gets it, and that taker opens at    *)
(* most one thing with it.  A taker that fails does not put it back, and a *)
(* credential that was taken or has lapsed is never valid again.           *)
(***************************************************************************)
CONSTANTS
    Credentials,
    Takers,      \* requests that present credentials
    Results,     \* what a credential can open
    Nothing      \* it has opened nothing

VARIABLES
    holder,      \* the taker of each credential, or what has become of it
    opened       \* what each credential has opened

CredentialInit ==
    /\ holder = [c \in Credentials |-> "none"]
    /\ opened = [c \in Credentials |-> Nothing]

\* New credentials are issued; of old ones, those not yet taken may go.
Issue(issued, gone) ==
    /\ \A c \in issued : holder[c] = "none"
    /\ \A c \in gone : holder[c] = "valid"
    /\ holder' = [c \in Credentials |->
           IF c \in issued THEN "valid" ELSE IF c \in gone THEN "spent" ELSE holder[c]]
    /\ UNCHANGED opened

\* One taker gets the credential, and has no other.
Take(c, u) ==
    /\ holder[c] = "valid"
    /\ \A d \in Credentials : holder[d] # u
    /\ holder' = [holder EXCEPT ![c] = u]
    /\ UNCHANGED opened

\* The taker opens something new with it.
Succeed(c, r) ==
    /\ holder[c] \in Takers
    /\ \A d \in Credentials : opened[d] # r
    /\ holder' = [holder EXCEPT ![c] = "spent"]
    /\ opened' = [opened EXCEPT ![c] = r]

\* The taker fails: what it took is lost.
Fail(c) ==
    /\ holder[c] \in Takers
    /\ holder' = [holder EXCEPT ![c] = "spent"]
    /\ UNCHANGED opened

CredentialNext ==
    \/ \E issued, gone \in SUBSET Credentials : Issue(issued, gone)
    \/ \E c \in Credentials :
          \/ \E u \in Takers : Take(c, u)
          \/ \E r \in Results : Succeed(c, r)
          \/ Fail(c)

CredentialSpec == CredentialInit /\ [][CredentialNext]_<<holder, opened>>
=============================================================================

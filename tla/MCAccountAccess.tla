--------------------------- MODULE MCAccountAccess ---------------------------
(* Small instances of AccountAccess for TLC. *)
EXTENDS AccountAccess, TLC

\* Logins, sessions and changes are interchangeable; each set of model values
\* is permuted on its own.
Symmetry == Permutations(Logins) \cup Permutations(Sessions) \cup Permutations(Changes)

\* A behaviour is followed for as long as it may still be one of two stories.
\*
\* Guessing: all logins with wrong passwords and one change of the account, no
\* session.  A login that has its password right plays no further part, and while
\* the account is disabled nobody guesses.
Guessing ==
    /\ status = "active" /\ ~deleted
    /\ \A s \in Sessions : session[s] = None
    /\ \A k \in Links : link[k] = "unsent"
    /\ Cardinality({h \in Changes : change[h] # None}) <= 1
    /\ cred.version <= 1
    /\ \A l \in Logins : login[l] # None => login[l].pc \notin {"session", "challenge"}

\* Takeover: one login at a time, two changes, links and sessions.  Wrong passwords
\* and links that expire open no session, and when all sessions have ended no
\* other can begin.
Takeover ==
    /\ Cardinality({l \in Logins : login[l] # None}) <= 1
    /\ \A l \in Logins : ~LoginAt(l, "count")
    /\ cred.failed = 0 /\ ~cred.locked /\ lost = 0
    /\ \A k \in Links : link[k] # "expired"
    /\ \E s \in Sessions : session[s] = None \/ session[s].live

OneStory == Guessing \/ Takeover
=============================================================================

--------------------------- MODULE MCSecondFactor ---------------------------
(* Small instances of SecondFactor for TLC. *)
EXTENDS SecondFactor, TLC

Symmetry == Permutations(Logins) \cup Permutations(Sessions) \cup Permutations(Attempts)
                \cup Permutations(Changes) \cup Permutations(CodeSets)

\* Where a run stops exploring.  A session opened by a method has no further
\* part in the properties, nor has a challenge that can no longer be answered;
\* codes meet an authenticator app, not a key, whose statements read no code; and
\* two changes overlap when both generate codes.
FollowTheCodes ==
    /\ \A a \in Attempts : attempt[a] # None => attempt[a].by \notin Methods
    /\ \A c \in Challenges : challenge[c] # "expired"
    /\ (\A m \in Keys : method[m] = "none") \/ (\A c \in Codes : code[c] = "none")
    /\ \A g, h \in Changes : g # h /\ change[g] # None /\ change[h] # None =>
          change[g].fresh /\ change[h].fresh
=============================================================================

----------------------------- MODULE MCJWKSCache -----------------------------
(* Small instances of JWKSCache and SigningKeys for TLC.                     *)
EXTENDS JWKSCache, TLC

Symmetry == Permutations(Lookups) \cup Permutations(Tokens)

\* The server takes no notice of lookups, nor they of tokens: a behaviour is about
\* the life of a token, or about lookups and the cache they fill.
TokensOrLookups ==
    \/ \A t \in Tokens : token[t] = None
    \/ cache.keys = {} /\ copy = NoCopy /\ \A r \in Lookups : lookup[r] = None
=============================================================================

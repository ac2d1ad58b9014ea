----------------------------- MODULE MCCASTickets -----------------------------
(* Small instances of CASTickets for TLC: two spellings of one service URL.  *)
EXTENDS CASTickets, TLC

CONSTANTS plain, cased, wide, narrow

MCNormalize == [u \in Urls |-> plain]

\* Two patterns of one length, so that FindCASServiceForURL may return any service
\* that matches; one no longer matches the URL as it is compared.
MCCovers == [p \in Patterns |-> IF p = wide THEN Urls ELSE {cased}]
MCPatternLength == [p \in Patterns |-> 1]

Symmetry ==
    Permutations(Tickets) \cup Permutations(Validations) \cup Permutations(Attributes)
=============================================================================

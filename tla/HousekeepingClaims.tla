-------------------------- MODULE HousekeepingClaims --------------------------
(* What the comments and the documents promise of a missed run of            *)
(* EnsureAuditLogPartitions, and PostgreSQL does not keep.                   *)
EXTENDS MCHousekeeping

\* "so a missed run is just caught by the next one" (audit_partitions.go), "so a
\* missed run is self-healing" (store/README.md): a call that has its time and
\* meets no fault can create the partition it is at, when nothing was ever pruned.
NextRunCatches == ensure # Idle /\ ~spent /\ cutoff = 0 => ~Refused(ensure.next)
=============================================================================

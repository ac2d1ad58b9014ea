----------------------------- MODULE Housekeeping -----------------------------
(***************************************************************************)
(* What the server does on the side: the clean-up goroutine                *)
(* (startCleanupService in cmd/server/main.go) deletes expired rows, table *)
(* by table under one two-minute deadline, and ends each sweep by making   *)
(* the monthly partitions of audit_log (audit_partitions.go), as the       *)
(* start-up does too.  Handlers insert audit events meanwhile, and an      *)
(* operator may drop old partitions (cmd/audit-prune).                     *)
(*                                                                         *)
(* Each SQL statement is a step.  PostgreSQL is external: an event whose   *)
(* month has no partition goes to audit_log_default, and a partition is    *)
(* refused while the default one holds rows of its month.                  *)
(***************************************************************************)
EXTENDS Integers, Sequences, FiniteSets, FiniteSetsExt

CONSTANTS
    SweepOrder,  \* the tables of a sweep, in the order of its statements
    TokenTables, \* those of DeleteExpiredOIDCTokens, which stops at an error
    Ahead,       \* months ensured, the current one included
    MaxMonth,    \* bound: months that pass
    MaxFaults,   \* bound: statements that fail, deadlines that pass, crashes
    Idle         \* no call under way

Tables == {SweepOrder[i] : i \in DOMAIN SweepOrder}
Months == 0 .. MaxMonth + Ahead

\* EnsureAuditLogPartitions under way: its first month, and the next to create.
Ensure == [from : 0 .. MaxMonth, next : Months]
\* audit-prune under way: its cut-off, and the partitions still to drop.
Prune == [before : 0 .. MaxMonth, drop : SUBSET Months]

ASSUME SizesAreNaturals == Ahead \in Nat \ {0} /\ MaxMonth \in Nat /\ MaxFaults \in Nat
ASSUME TablesComeFirst ==
    /\ SweepOrder \in Seq(STRING)
    /\ Cardinality(TokenTables) \in 0 .. Len(SweepOrder)
    /\ TokenTables = {SweepOrder[i] : i \in 1 .. Cardinality(TokenTables)}
ASSUME IdleIsNoCall == Idle \notin Ensure \cup Prune

VARIABLES
    server,     \* "down", "starting", "up"
    sweep,      \* the next table of the sweep; 0: none runs; Len + 1: partitions
    spent,      \* the two minutes of the current or last sweep are over
    stale,      \* tables with rows that expired more than an hour ago
    month,      \* the month it is
    partition,  \* months with a partition of their own
    stored,     \* months of which some event is in a partition
    overflow,   \* months of which some event is in audit_log_default
    ensure,     \* EnsureAuditLogPartitions of the start-up or of the sweep
    prune,      \* audit-prune
    ensured,    \* history: latest first month of a call that went through
    logged,     \* history: months in which an event was logged
    cutoff,     \* history: latest month given to audit-prune
    faults      \* faults so far, against MaxFaults

housekeepingVars == <<server, sweep, spent, stale, month, partition, stored, overflow, ensure, prune,
          ensured, logged, cutoff, faults>>

HousekeepingTypeOK ==
    /\ server \in {"down", "starting", "up"}
    /\ sweep \in 0 .. Len(SweepOrder) + 1
    /\ spent \in BOOLEAN
    /\ stale \subseteq Tables
    /\ month \in 0 .. MaxMonth
    /\ partition \subseteq Months /\ stored \subseteq Months /\ overflow \subseteq Months
    /\ ensure \in Ensure \cup {Idle}
    /\ prune \in Prune \cup {Idle}
    /\ ensured \in -Ahead .. MaxMonth
    /\ logged \subseteq Months
    /\ cutoff \in 0 .. MaxMonth
    /\ faults \in 0 .. MaxFaults

HousekeepingInit ==
    /\ server = "down" /\ sweep = 0 /\ spent = FALSE
    /\ stale = {} /\ month = 0
    /\ partition = {} /\ stored = {} /\ overflow = {}
    /\ ensure = Idle /\ prune = Idle
    /\ ensured = -Ahead /\ logged = {} /\ cutoff = 0 /\ faults = 0

audit == <<partition, stored, overflow, logged, ensured>>
pruning == <<prune, cutoff>>

Fault == faults < MaxFaults /\ faults' = faults + 1

-----------------------------------------------------------------------------
(* The sweep.                                                              *)

\* Mutation: the context is made once, outside the loop.
StartSweepInOldContext ==
    /\ server = "up" /\ sweep = 0
    /\ sweep' = 1
    /\ UNCHANGED <<server, spent, stale, month, ensure, faults, audit, pruning>>

\* The ticker fires: a sweep with a fresh two-minute context.
StartSweep ==
    /\ server = "up" /\ sweep = 0
    /\ sweep' = 1 /\ spent' = FALSE
    /\ UNCHANGED <<server, stale, month, ensure, faults, audit, pruning>>

Deleting == server = "up" /\ sweep \in DOMAIN SweepOrder

DeleteExpired ==
    /\ Deleting /\ ~spent
    /\ stale' = stale \ {SweepOrder[sweep]}
    /\ sweep' = sweep + 1
    /\ UNCHANGED <<server, spent, month, ensure, faults, audit, pruning>>

\* Mutation: the table after one that fails is left out.
AfterErrorSkipOne ==
    IF SweepOrder[sweep] \in TokenTables THEN Cardinality(TokenTables) + 1 ELSE sweep + 2

\* An error is logged and the sweep goes on, after the other token tables if it
\* came from DeleteExpiredOIDCTokens.
AfterError ==
    IF SweepOrder[sweep] \in TokenTables THEN Cardinality(TokenTables) + 1 ELSE sweep + 1

DeleteFails ==
    /\ Deleting
    /\ IF spent THEN UNCHANGED faults ELSE Fault
    /\ sweep' = AfterError
    /\ UNCHANGED <<server, spent, stale, month, ensure, audit, pruning>>

\* The deadline passes: what is left of the sweep fails.
TimeOut ==
    /\ server = "up" /\ sweep # 0 /\ ~spent /\ Fault
    /\ spent' = TRUE
    /\ UNCHANGED <<server, sweep, stale, month, ensure, audit, pruning>>

RowsExpire(t) ==
    /\ stale' = stale \cup {t}
    /\ UNCHANGED <<server, sweep, spent, month, ensure, faults, audit, pruning>>

-----------------------------------------------------------------------------
(* Partitions of the audit log.                                            *)

\* run: the start-up ensures the partitions before it serves anything.
Start ==
    /\ server = "down"
    /\ server' = "starting" /\ spent' = FALSE
    /\ ensure' = [from |-> month, next |-> month]
    /\ UNCHANGED <<sweep, stale, month, faults, audit, pruning>>

\* The last part of a sweep.
SweepPartitions ==
    /\ server = "up" /\ sweep = Len(SweepOrder) + 1 /\ ensure = Idle
    /\ ensure' = [from |-> month, next |-> month]
    /\ UNCHANGED <<server, sweep, spent, stale, month, faults, audit, pruning>>

\* Mutation: no IF NOT EXISTS.
RefusedIfExists(m) == m \in partition \/ m \in overflow

\* CREATE TABLE IF NOT EXISTS ... PARTITION OF: refused by PostgreSQL while rows
\* of the month are in the default partition.
Refused(m) == m \notin partition /\ m \in overflow

\* The start-up goes on to serve, a sweep ends.
Finish(next) ==
    /\ ensure' = Idle
    /\ server' = IF server = "starting" THEN next ELSE server
    /\ sweep' = 0

\* Mutation: the loop ends a month early.
CreateOneFewer ==
    /\ ensure # Idle /\ ~spent /\ ~Refused(ensure.next)
    /\ partition' = partition \cup {ensure.next}
    /\ IF ensure.next + 2 < ensure.from + Ahead
       THEN /\ ensure' = [ensure EXCEPT !.next = @ + 1]
            /\ UNCHANGED <<server, sweep, ensured>>
       ELSE Finish("up") /\ ensured' = Max({ensured, ensure.from})
    /\ UNCHANGED <<spent, stale, month, stored, overflow, logged, faults, pruning>>

CreatePartition ==
    /\ ensure # Idle /\ ~spent /\ ~Refused(ensure.next)
    /\ partition' = partition \cup {ensure.next}
    /\ IF ensure.next + 1 < ensure.from + Ahead
       THEN /\ ensure' = [ensure EXCEPT !.next = @ + 1]
            /\ UNCHANGED <<server, sweep, ensured>>
       ELSE Finish("up") /\ ensured' = Max({ensured, ensure.from})
    /\ UNCHANGED <<spent, stale, month, stored, overflow, logged, faults, pruning>>

\* The first error ends the call, and the start-up with it.
EnsureFails ==
    /\ ensure # Idle
    /\ IF spent \/ Refused(ensure.next) THEN UNCHANGED faults ELSE Fault
    /\ Finish("down")
    /\ UNCHANGED <<spent, stale, month, audit, pruning>>

\* InsertAuditEvent: any handler, at any time.
LogEvent ==
    /\ server = "up"
    /\ logged' = logged \cup {month}
    /\ IF month \in partition
       THEN stored' = stored \cup {month} /\ UNCHANGED overflow
       ELSE overflow' = overflow \cup {month} /\ UNCHANGED stored
    /\ UNCHANGED <<server, sweep, spent, stale, month, partition, ensured, ensure, faults,
                   pruning>>

-----------------------------------------------------------------------------
(* audit-prune, the calendar, and crashes.                                 *)

\* Mutation: the month of the cut-off goes too.
ListPartitionsUpTo(before) ==
    /\ prune = Idle
    /\ prune' = [before |-> before, drop |-> {m \in partition : m <= before}]
    /\ cutoff' = Max({cutoff, before})
    /\ UNCHANGED <<server, sweep, spent, stale, month, ensure, faults, audit>>

\* The tool lists the partitions first.  It takes any month for its cut-off, also
\* one that has not come: then it drops the running month, and those made ahead.
ListPartitions(before) ==
    /\ prune = Idle
    /\ prune' = [before |-> before, drop |-> {m \in partition : m < before}]
    /\ cutoff' = Max({cutoff, before})
    /\ UNCHANGED <<server, sweep, spent, stale, month, ensure, faults, audit>>

\* Oldest first: ORDER BY relname.
DropPartition ==
    /\ prune # Idle /\ prune.drop # {}
    /\ LET m == Min(prune.drop) IN
       /\ partition' = partition \ {m}
       /\ stored' = stored \ {m}
       /\ prune' = [prune EXCEPT !.drop = @ \ {m}]
    /\ UNCHANGED <<server, sweep, spent, stale, month, overflow, logged, ensured, ensure,
                   faults, cutoff>>

\* Done, or failed half way.
EndPrune ==
    /\ prune # Idle /\ prune' = Idle
    /\ UNCHANGED <<server, sweep, spent, stale, month, ensure, faults, audit, cutoff>>

NextMonth ==
    /\ month < MaxMonth /\ month' = month + 1
    /\ UNCHANGED <<server, sweep, spent, stale, ensure, faults, audit, pruning>>

Crash ==
    /\ server # "down" /\ Fault
    /\ server' = "down" /\ sweep' = 0 /\ ensure' = Idle
    /\ UNCHANGED <<spent, stale, month, audit, pruning>>

-----------------------------------------------------------------------------

SweepStep == StartSweep \/ DeleteExpired \/ DeleteFails \/ SweepPartitions
PartitionStep == CreatePartition \/ EnsureFails

HousekeepingNext ==
    \/ Start \/ SweepStep \/ TimeOut \/ PartitionStep
    \/ \E t \in Tables : RowsExpire(t)
    \/ LogEvent
    \/ \E m \in 0 .. MaxMonth : ListPartitions(m)
    \/ DropPartition \/ EndPrune \/ NextMonth \/ Crash

HousekeepingSpec == HousekeepingInit /\ [][HousekeepingNext]_housekeepingVars

\* The ticker and the statements of the server come to an end, and somebody
\* starts a server that is down.
LiveSpec == HousekeepingSpec /\ WF_housekeepingVars(Start) /\ WF_housekeepingVars(SweepStep) /\ WF_housekeepingVars(PartitionStep)

-----------------------------------------------------------------------------

\* An event is lost only to an operator who asked for it: whatever happens to
\* partitions, events as recent as the cut-off stay (audit-prune).
RecentEventsStay == \A m \in logged : m >= cutoff => m \in stored \cup overflow

\* As long as one call of EnsureAuditLogPartitions in Ahead months goes through,
\* the running month has its partition, failed sweeps and prunes or not; unless an
\* operator gave audit-prune a cut-off that has not come yet.
PartitionsStayAhead == month < ensured + Ahead /\ cutoff <= month => month \in partition

\* Rows that expired are deleted, after any failure of the sweeps before: no
\* error and no deadline stops the clean-up for good (startCleanupService).
ExpiredRowsGo ==
    <>[](server = "up") => \A t \in Tables : []<>(t \notin stale)

\* A server that crashed serves again, unless an event that slipped into the
\* default partition is of a month that the start-up wants to create (run).
ServesAgain ==
    []<>(server = "up") \/ <>[]((month .. month + Ahead - 1) \cap (overflow \ partition) # {})

-----------------------------------------------------------------------------
(* What makes the invariants inductive.                                    *)

\* audit-prune under way drops months before its cut-off.
PrunesBelowCutoff ==
    prune # Idle =>
        /\ prune.before <= cutoff
        /\ \A m \in prune.drop : m < prune.before

\* The months a call has been through have their partitions, those that are over and
\* those that audit-prune may have dropped excepted.
CreatedSoFar ==
    ensure # Idle =>
        /\ ensure.from <= month
        /\ ensure.from <= ensure.next /\ ensure.next < ensure.from + Ahead
        /\ \A m \in Months :
              month <= m /\ cutoff <= m /\ ensure.from <= m /\ m < ensure.next => m \in partition

\* After a call that went through, all its months that are not over, and not before a
\* cut-off, have theirs.
MonthsCovered ==
    \A m \in Months : month <= m /\ cutoff <= m /\ m < ensured + Ahead => m \in partition

HousekeepingInv == RecentEventsStay /\ PrunesBelowCutoff /\ CreatedSoFar /\ MonthsCovered
=============================================================================

----------------------------- MODULE FixedWindow -----------------------------
(***************************************************************************)
(* What the rate limiter promises: each key has counting windows that      *)
(* start at least Window apart, and at most limit requests go through      *)
(* each.  Nothing is said of maps, locks, sweeps or requests; RateLimiter  *)
(* implements it.                                                          *)
(***************************************************************************)
EXTENDS Integers

CONSTANTS Keys, limit, Window

VARIABLES
    count,  \* requests let through in the last window; 0: there was none
    age     \* time since it started; need not grow once it is over for all

Init == \A k \in Keys : count[k] = 0 /\ age[k] >= Window

Elapse(k) == count'[k] = count[k] /\ age'[k] \in {age[k], age[k] + 1}

\* A window starts with a request stamped some time ago, Window after the start
\* of the one before it at least.
StartWindow(k) ==
    \E stamp \in 0 .. age[k] - Window : count'[k] = 1 /\ age'[k] = stamp

Admit(k) == count[k] < limit[k] /\ count'[k] = count[k] + 1 /\ age'[k] = age[k]

\* Keys have nothing to do with each other.
Next == \A k \in Keys : Elapse(k) \/ StartWindow(k) \/ Admit(k)

Spec == Init /\ [][Next]_<<count, age>>
=============================================================================

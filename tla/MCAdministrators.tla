--------------------------- MODULE MCAdministrators ---------------------------
(* A small instance of Administrators for TLC.                               *)
EXTENDS Administrators, TLC

\* Each handler, with a request of every kind that its guards tell apart.
MCAsked ==
    {[kind |-> "update", status |-> "same", rights |-> "remove"],
     [kind |-> "update", status |-> "pending", rights |-> "grant"],
     [kind |-> "lock", status |-> "disabled", rights |-> "same"],
     [kind |-> "unlock", status |-> "active", rights |-> "same"],
     [kind |-> "delete", status |-> "disabled", rights |-> "same"],
     [kind |-> "create", status |-> "active", rights |-> "grant"]}

\* Once two have taken each other's rights the property says nothing more.
NobodyOvertaken == ~overtaken

Symmetry == Permutations(Users) \cup Permutations(Calls)
=============================================================================

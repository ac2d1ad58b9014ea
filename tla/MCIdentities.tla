---------------------------- MODULE MCIdentities ----------------------------
(* Instances of Identities for TLC.                                        *)
EXTENDS Identities, TLC

Symmetry == Permutations(Users) \cup Permutations(Links) \cup Permutations(Emails)
                \cup Permutations(Flows) \cup Permutations(Subs)

Deleted == {u \in Users : user[u] # None /\ user[u].deleted}
Removed == {k \in Links : link[k] # None /\ link[k].removed}
Edited == {u \in Users : user[u] # None /\ user[u].held # {user[u].email} \ {None}}

\* Signing in through a provider reads no token and no mark of a verified
\* address, so the two are followed apart.
SignUps ==
    /\ \A k \in Links : link[k] = None
    /\ \A f \in Flows : flow[f] # None => flow[f].kind # "federation"

SignIns ==
    /\ \A u \in Users : token[u] = None /\ (user[u] # None => ~user[u].verified)
    /\ \A f \in Flows : flow[f] # None => flow[f].kind # "signup"
    /\ \A f, g \in Flows : f # g /\ flow[f] # None /\ flow[g] # None
                              => flow[f].kind = "federation" /\ flow[f].sub = flow[g].sub

\* One account is deleted, or one is edited, or one link is removed; and two
\* handlers that create accounts overlap only before there is any link.
FewChanges ==
    /\ \A u, w \in Deleted : u = w
    /\ \A k, j \in Removed : k = j
    /\ \A u, w \in Edited : u = w
    /\ Deleted = {} \/ (Removed = {} /\ Edited = {})
    /\ Removed = {} \/ Edited = {}
    /\ (\A f \in Flows : flow[f] # None) =>
           /\ Deleted = {}
           /\ \A k \in Links : link[k] = None
           /\ \A v \in Verifications : verify[v] = None

FollowOneStory == FewChanges /\ (SignUps \/ SignIns)
=============================================================================

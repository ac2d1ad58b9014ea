----------------------------- MODULE MCRateLimiter -----------------------------
(* Small instances of RateLimiter for TLC.                                   *)
EXTENDS RateLimiter

CONSTANTS c1, c2, p1

\* A client may send nothing, another client's address, our proxy's address, rubbish,
\* or several lines.
MCForgeries ==
    {None, [first |-> <<c2>>, more |-> << >>], [first |-> << >>, more |-> <<Junk, p1>>]}
\* Directly, through each kind of proxy, or through two that differ.
MCRoutings ==
    LET hop(joins, port) == [proxy |-> p1, joins |-> joins, port |-> port]
    IN  {<< >>} \cup {<<hop(j, p)>> : j, p \in BOOLEAN}
                \cup {<<hop(j, FALSE), hop(~j, j)>> : j \in BOOLEAN}
MCLimit == [route \in Routes |-> 2]

\* Keys share no state, and a window is about one of them: where a request arrives
\* under another key, or unvouched, the behaviour is looked at no further.
FollowOneKey ==
    \A r \in Requests : request[r] # None =>
        request[r].key = <<"token", c1>> /\ request[r].id = None /\ request[r].vouched
=============================================================================

----------------------------- MODULE RateLimiter -----------------------------
(***************************************************************************)
(* The in-memory rate limiter (internal/middleware/ratelimit.go) and the   *)
(* keys perRouteLimit gives it (cmd/server/main.go).                       *)
(*                                                                         *)
(* Requests read the clock, then wait for the mutex: a stamp may be up to  *)
(* MaxDelay old when it is used, and requests may overtake each other.     *)
(* Times are kept as ages, so that the clock need not be bounded: what the *)
(* code computes as now.Sub(windowStart) is the age of the window minus    *)
(* the age of the request's stamp.                                         *)
(***************************************************************************)
EXTENDS Integers, Sequences, FiniteSetsExt

CONSTANTS
    Requests,    \* concurrent requests
    Routes,      \* the key prefixes of perRouteLimit
    Clients,     \* addresses of clients
    Proxies,     \* TRUSTED_PROXIES
    Forgeries,   \* X-Forwarded-For headers clients may send, or None
    Routings,    \* the chains of proxies requests come through
    Junk,        \* an entry of the header that is no address
    ClientIds,   \* OAuth2 client ids presented to the token endpoint
    Limit,       \* requests per window, for each route
    Window,      \* length of a window, in ticks of the clock
    Second,      \* ticks per second
    MaxDelay,    \* bound: age of a stamp when it is used
    None

Addresses == Clients \cup Proxies \cup {Junk}
\* evictAfter: idle time after which a bucket is dropped.
EvictAfter == 10 * Window

\* X-Forwarded-For of a client: its first line, and the further lines, joined.
Header == [first : Seq(Addresses), more : Seq(Addresses)]
\* One of our proxies: it joins the lines it receives and appends to them, or adds a
\* line of its own behind them; it writes the bare address it serves, or ip:port.
Hop == [proxy : Proxies, joins : BOOLEAN, port : BOOLEAN]

Keys == Routes \X (Addresses \cup ClientIds)

ASSUME SizesAreNaturals ==
    /\ Window \in Nat \ {0} /\ Second \in Nat \ {0} /\ MaxDelay \in Nat
    /\ Limit \in [Routes -> Nat \ {0}]
ASSUME DelaysAreShort == Window + 2 * MaxDelay <= EvictAfter
ASSUME AddressesDiffer ==
    /\ Clients \cap Proxies = {} /\ Junk \notin Clients \cup Proxies
    /\ ClientIds \cap Addresses = {}  \* token:client: and token:ip:
    /\ Forgeries \subseteq Header \cup {None}
    /\ Routings \subseteq Seq(Hop)
ASSUME NoneIsNothing == None \notin ClientIds \cup [count : Nat, age : Nat, idle : Nat]
    \cup [client : Clients, id : ClientIds \cup {None}, vouched : BOOLEAN, key : Keys, age : Nat]

\* Ages are counted up to the point where nothing compares them any more.
OldWindow == Window + MaxDelay
LongIdle == EvictAfter + MaxDelay + 1
Older(n, cap) == IF n < cap THEN n + 1 ELSE cap

Bucket == [count : Nat, age : 0 .. OldWindow, idle : 0 .. LongIdle]
Request ==
    [client  : Clients,
     id      : ClientIds \cup {None},  \* the client id it presents to the token endpoint
     vouched : BOOLEAN,                \* history: its chain of proxies vouches for client
     key     : Keys,
     age     : 0 .. MaxDelay]

VARIABLES
    buckets,  \* Limiter.buckets; None: no entry in the map
    evictor,  \* the goroutine of evictLoop runs (until Close)
    request,  \* requests between time.Now() and the lock
    seen,     \* history: the last window started for each key, eviction or not
    promise,  \* history: ticks until the Retry-After told in that window
    answer    \* history: the last answer given for each key

vars == <<buckets, evictor, request, seen, promise, answer>>

SeenWindow == [count : Nat, age : 0 .. OldWindow]

TypeOK ==
    /\ buckets \in [Keys -> Bucket \cup {None}]
    /\ evictor \in BOOLEAN
    /\ request \in [Requests -> Request \cup {None}]
    /\ seen \in [Keys -> SeenWindow]
    /\ promise \in [Keys -> Int \cup {None}]
    /\ answer \in [Keys -> {"none", "yes", "no"}]

Init ==
    /\ buckets = [k \in Keys |-> None]
    /\ evictor = TRUE
    /\ request = [r \in Requests |-> None]
    /\ seen = [k \in Keys |-> [count |-> 0, age |-> OldWindow]]
    /\ promise = [k \in Keys |-> None]
    /\ answer = [k \in Keys |-> "none"]

-----------------------------------------------------------------------------
(* The key of a request.                                                   *)

\* Mutation: the leftmost entry is believed.
ClientIPLeftmost(peer, xff) ==
    IF peer \notin Proxies \/ xff = << >> THEN peer ELSE xff[1]

\* The entry of the header nearest to us that is no proxy of ours; Junk entries
\* are skipped, unless nothing is left but the leftmost entry.
ClientIP(peer, xff) ==
    LET outside == {i \in DOMAIN xff : xff[i] \notin Proxies \cup {Junk}}
    IN  IF peer \notin Proxies \/ xff = << >> THEN peer
        ELSE IF outside = {} THEN xff[1]
        ELSE xff[Max(outside)]

\* What our proxy number i writes: the address of whom it serves.
Entry(c, hops, i) ==
    IF hops[i].port THEN Junk ELSE IF i = 1 THEN c ELSE hops[i - 1].proxy

\* Header.Get: the first line of X-Forwarded-For when the request is here.  Proxies
\* behind the last one that joins add lines that are not read.
FirstLine(c, forged, hops) ==
    LET joining == {i \in DOMAIN hops : hops[i].joins}
        sent == IF forged = None THEN << >> ELSE forged.first \o forged.more
    IN  IF joining # {} THEN sent \o [i \in 1 .. Max(joining) |-> Entry(c, hops, i)]
        ELSE IF forged # None THEN forged.first
        ELSE IF hops # << >> THEN <<Entry(c, hops, 1)>>
        ELSE << >>

\* A chain vouches for a client if its first proxy writes an address that can be read,
\* in the first line: the client has sent no header, or some proxy joins the lines.
Vouched(forged, hops) ==
    hops # << >> =>
        /\ ~hops[1].port
        /\ forged = None \/ \E i \in DOMAIN hops : hops[i].joins

\* The id is not authenticated yet: what the Basic header or the query string says.
TokenLimitKey(id, ip) == IF id # None THEN id ELSE ip

\* perRouteLimit: the route is the prefix of the key.
LimitKey(route, id, ip) == <<route, IF route = "token" THEN TokenLimitKey(id, ip) ELSE ip>>

\* A client calls directly, or through our proxies.
Ask(r, route, id, c, forged, hops) ==
    LET peer == IF hops = << >> THEN c ELSE hops[Len(hops)].proxy
        ip   == ClientIP(peer, FirstLine(c, forged, hops))
    IN  /\ request[r] = None
        /\ request' = [request EXCEPT ![r] =
               [client |-> c, id |-> id, vouched |-> Vouched(forged, hops),
                key |-> LimitKey(route, id, ip), age |-> 0]]
        /\ UNCHANGED <<buckets, evictor, seen, promise, answer>>

-----------------------------------------------------------------------------
(* Allow, once it holds the lock.                                          *)

Elapsed(r) == buckets[request[r].key].age - request[r].age

\* Mutation: seconds are truncated.
RetryAfterTruncated(remain) ==
    LET secs == remain \div Second IN IF secs < 1 THEN 1 ELSE secs

\* remain.Seconds() truncated, rounded up, and at least 1.
RetryAfter(remain) ==
    LET secs == remain \div Second + (IF remain % Second # 0 THEN 1 ELSE 0)
    IN  IF secs < 1 THEN 1 ELSE secs

Leave(r) == request' = [request EXCEPT ![r] = None]

\* Otherwise, no bucket or a window that is over, it counts from one again.
InWindow(r) == buckets[request[r].key] # None /\ Elapsed(r) < Window

AllowFirst(r) ==
    LET k == request[r].key  s == request[r].age
    IN  /\ request[r] # None /\ ~InWindow(r)
        /\ buckets' = [buckets EXCEPT ![k] = [count |-> 1, age |-> s, idle |-> s]]
        /\ seen' = [seen EXCEPT ![k] = [count |-> 1, age |-> s]]
        /\ promise' = [promise EXCEPT ![k] = None]
        /\ answer' = [answer EXCEPT ![k] = "yes"]
        /\ Leave(r)
        /\ UNCHANGED evictor

AllowMore(r) ==
    LET k == request[r].key  s == request[r].age
    IN  /\ request[r] # None /\ InWindow(r)
        /\ buckets[k].count < Limit[k[1]]
        /\ buckets' = [buckets EXCEPT ![k].count = @ + 1, ![k].idle = s]
        /\ seen' = [seen EXCEPT ![k].count = @ + 1]
        /\ answer' = [answer EXCEPT ![k] = "yes"]
        /\ Leave(r)
        /\ UNCHANGED <<evictor, promise>>

\* Mutation: a refused request starts the window again.
RefuseAndRestart(r) ==
    LET k == request[r].key  s == request[r].age
        told == RetryAfter(Window - Elapsed(r)) * Second
    IN  /\ request[r] # None /\ InWindow(r)
        /\ buckets[k].count >= Limit[k[1]]
        /\ buckets' = [buckets EXCEPT ![k].age = s, ![k].idle = s]
        /\ promise' = [promise EXCEPT ![k] =
               IF @ # None /\ @ < told - s THEN @ ELSE told - s]
        /\ answer' = [answer EXCEPT ![k] = "no"]
        /\ Leave(r)
        /\ UNCHANGED <<evictor, seen>>

Refuse(r) ==
    LET k == request[r].key  s == request[r].age
        told == RetryAfter(Window - Elapsed(r)) * Second
    IN  /\ request[r] # None /\ InWindow(r)
        /\ buckets[k].count >= Limit[k[1]]
        /\ buckets' = [buckets EXCEPT ![k].idle = s]
        /\ promise' = [promise EXCEPT ![k] =
               IF @ # None /\ @ < told - s THEN @ ELSE told - s]
        /\ answer' = [answer EXCEPT ![k] = "no"]
        /\ Leave(r)
        /\ UNCHANGED <<evictor, seen>>

-----------------------------------------------------------------------------
(* The evictor, and time.                                                  *)

\* Mutation: buckets go when they have been idle for one window.
EvictAfterAWindow(lag) ==
    /\ evictor
    /\ buckets' = [k \in Keys |->
           IF buckets[k] # None /\ buckets[k].idle - lag > Window THEN None ELSE buckets[k]]
    /\ UNCHANGED <<evictor, request, seen, promise, answer>>

\* Mutation: keys at their limit are spared.
EvictPolite(lag) ==
    /\ evictor
    /\ buckets' = [k \in Keys |->
           IF buckets[k] # None /\ buckets[k].idle - lag > EvictAfter
              /\ buckets[k].count < Limit[k[1]] THEN None
           ELSE buckets[k]]
    /\ UNCHANGED <<evictor, request, seen, promise, answer>>

\* One round of the loop: the tick it received is lag old.  All idle buckets go
\* under one lock.
Evict(lag) ==
    /\ evictor
    /\ buckets' = [k \in Keys |->
           IF buckets[k] # None /\ buckets[k].idle - lag > EvictAfter THEN None
           ELSE buckets[k]]
    /\ UNCHANGED <<evictor, request, seen, promise, answer>>

Close ==
    /\ evictor /\ evictor' = FALSE
    /\ UNCHANGED <<buckets, request, seen, promise, answer>>

\* A tick of the clock; no request waits longer than MaxDelay for the lock.
Tick ==
    /\ \A r \in Requests : request[r] # None => request[r].age < MaxDelay
    /\ buckets' = [k \in Keys |->
           IF buckets[k] = None THEN None
           ELSE [buckets[k] EXCEPT !.age = Older(@, OldWindow), !.idle = Older(@, LongIdle)]]
    /\ request' = [r \in Requests |->
           IF request[r] = None THEN None ELSE [request[r] EXCEPT !.age = @ + 1]]
    /\ seen' = [k \in Keys |-> [seen[k] EXCEPT !.age = Older(@, OldWindow)]]
    /\ promise' = [k \in Keys |->
           IF promise[k] = None \/ promise[k] <= -MaxDelay THEN promise[k] ELSE promise[k] - 1]
    /\ UNCHANGED <<evictor, answer>>

Decide(r) == AllowFirst(r) \/ AllowMore(r) \/ Refuse(r)

Next ==
    \/ \E r \in Requests :
          \/ \E route \in Routes, id \in ClientIds \cup {None}, c \in Clients,
                forged \in Forgeries, hops \in Routings :
                Ask(r, route, id, c, forged, hops)
          \/ Decide(r)
    \/ \E lag \in 0 .. MaxDelay : Evict(lag)
    \/ Close
    \/ Tick

Spec == Init /\ [][Next]_vars

\* A goroutine that reached the mutex gets it, the evictor's ticker fires, and
\* the clock runs.
LiveSpec ==
    /\ Spec
    /\ \A r \in Requests : WF_vars(Decide(r))
    /\ WF_vars(Evict(0))
    /\ WF_vars(Tick)

-----------------------------------------------------------------------------
(* Properties.                                                             *)

\* Whatever is forged into X-Forwarded-For, in whatever lines, a request whose chain
\* of proxies vouches for its client is counted for that client; at the token
\* endpoint for the client id it presents, if any (ClientIP, tokenLimitKey).
CountedForItsClient ==
    \A r \in Requests : request[r] # None /\ request[r].vouched =>
        request[r].key[2] = IF request[r].key[1] = "token" /\ request[r].id # None
                            THEN request[r].id ELSE request[r].client

\* The sweeper drops a bucket only when every request still under way would
\* have restarted it anyway (evictLoop against Allow).
EvictionForgetsNothing ==
    \A r \in Requests : LET k == request[r].key IN
        request[r] # None /\ buckets[k] = None => seen[k].age - request[r].age >= Window

\* A client that waits for as long as Retry-After says finds the window that
\* refused it over (Allow: seconds are rounded up).
RetryAfterSuffices ==
    \A r \in Requests : LET k == request[r].key IN
        request[r] # None /\ promise[k] # None /\ promise[k] + request[r].age <= 0
            => ~InWindow(r)

\* Every key has fixed windows and its limit is kept in each, whatever the evictor
\* and the order of the lock do (Allow, evictLoop).
FW == INSTANCE FixedWindow WITH
          limit <- [k \in Keys |-> Limit[k[1]]],
          count <- [k \in Keys |-> seen[k].count],
          age   <- [k \in Keys |-> seen[k].age]

KeysHaveFixedWindows == FW!Spec

Asking(k) == \E r \in Requests : request[r] # None /\ request[r].key = k

\* A key that keeps asking is let through again and again (Allow).
NobodyShutOut ==
    \A k \in Keys : []<>Asking(k) => []<>(answer[k] = "yes")

\* Until Close, a key that stopped asking leaves the map (evictLoop).
IdleKeysLeave ==
    \A k \in Keys : <>[]~Asking(k) /\ []evictor => <>[](buckets[k] = None)
=============================================================================

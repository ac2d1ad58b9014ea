------------------------------ MODULE JWKSCache ------------------------------
(***************************************************************************)
(* A relying party of the keys of SigningKeys: the JWKSCache of            *)
(* internal/crypto/jwt.go, which verifies the id_tokens of an OIDC         *)
(* provider (internal/federation).  Here the provider is a server like     *)
(* this one, behind a cache that honours the max-age its JWKS endpoint     *)
(* sends (internal/api/oidc/discovery.go).                                 *)
(*                                                                         *)
(* GetKey reads under a read lock, fetches without a lock, stores under    *)
(* the write lock and reads again: lookups overlap between those steps.    *)
(***************************************************************************)
EXTENDS SigningKeys

CONSTANTS
    Lookups,    \* concurrent calls of GetKey
    CacheTTL,   \* ttl of the cache
    FetchTime,  \* bound: a call of GetKey takes no longer (the client's timeout)
    MaxAge      \* max-age of the JWKS document; 0: no cache on the way

Lookup ==
    [pc     : {"fetch", "answered", "stored"},
     key    : Files,
     doc    : SUBSET Files,
     misled : BOOLEAN,  \* history: an answer without keys was stored since its own came
     age    : 0 .. FetchTime]

ASSUME CacheTimes ==
    CacheTTL \in Nat \ {0} /\ FetchTime \in Nat /\ MaxAge \in Nat
ASSUME NoneIsNoLookup == None \notin Lookup

\* Beyond it the properties tell no times apart.
Horizon == FetchTime + MaxAge + (IF FetchTime < CacheTTL THEN CacheTTL ELSE FetchTime + 1)
Later(n) == IF n < Horizon THEN n + 1 ELSE n

NoCopy == [keys |-> {}, age |-> MaxAge]

VARIABLES
    cache,     \* keys, and the time since they were stored (expired at CacheTTL)
    copy,      \* the copy of the document on the way, and its age
    lookup,    \* calls of GetKey
    unserved,  \* history: time since the server last published each key
    served     \* history: time for which it has published each key without a break

cacheVars == <<cache, copy, lookup>>
history == <<unserved, served>>
vars == <<keyVars, cacheVars, history>>

TypeOK ==
    /\ KeysTypeOK
    /\ cache \in [keys : SUBSET Files, age : 0 .. CacheTTL]
    /\ copy \in [keys : SUBSET Files, age : 0 .. MaxAge]
    /\ lookup \in [Lookups -> Lookup \cup {None}]
    /\ unserved \in [Files -> 0 .. Horizon]
    /\ served \in [Files -> 0 .. Horizon]

Init ==
    /\ KeysInit
    /\ cache = [keys |-> {}, age |-> CacheTTL]
    /\ copy = NoCopy
    /\ lookup = [r \in Lookups |-> None]
    /\ unserved = [f \in Files |-> Horizon]
    /\ served = [f \in Files |-> 0]

-----------------------------------------------------------------------------

At(r, pc) == lookup[r] # None /\ lookup[r].pc = pc
Fresh == cache.age < CacheTTL

\* Mutation: expiresAt is not looked at.
HitExpired(f) == f \in cache.keys

\* GetKey, the fast path: both reads under one read lock.  A hit changes nothing.
Hit(f) == f \in cache.keys /\ Fresh

NewLookup(f) == [pc |-> "fetch", key |-> f, doc |-> {}, misled |-> FALSE, age |-> 0]

\* Mutation: a key that a fresh cache does not hold is not asked for.
GetKeyTrusting(r, f) ==
    /\ lookup[r] = None /\ ~Hit(f)
    /\ lookup' = [lookup EXCEPT ![r] =
           IF Fresh THEN [NewLookup(f) EXCEPT !.pc = "stored"] ELSE NewLookup(f)]
    /\ UNCHANGED <<keyVars, cache, copy, history>>

GetKey(r, f) ==
    /\ lookup[r] = None /\ ~Hit(f)
    /\ lookup' = [lookup EXCEPT ![r] = NewLookup(f)]
    /\ UNCHANGED <<keyVars, cache, copy, history>>

\* The document the request for it is answered with.
FetchAnswered(r) ==
    /\ At(r, "fetch")
    /\ \/ /\ copy.age < MaxAge
          /\ lookup' = [lookup EXCEPT ![r].pc = "answered", ![r].doc = copy.keys]
          /\ UNCHANGED copy
       \/ /\ copy.age >= MaxAge /\ loaded # None
          /\ copy' = [keys |-> JWKS, age |-> 0]
          /\ lookup' = [lookup EXCEPT ![r].pc = "answered", ![r].doc = JWKS]
    /\ UNCHANGED <<keyVars, cache, history>>

\* refresh does not look at the status: an error answer with a JSON body (of the
\* provider, or of a proxy in front of it, at any time) decodes to no keys at all.
\* The copy on the way is not replaced by it.
FetchMisled(r) ==
    /\ At(r, "fetch")
    /\ lookup' = [lookup EXCEPT ![r].pc = "answered", ![r].doc = {}]
    /\ UNCHANGED <<keyVars, cache, copy, history>>

\* The server is down, the network fails, the time is over, or it is no JSON.
FetchFails(r) ==
    /\ At(r, "fetch") \/ At(r, "answered")
    /\ lookup' = [lookup EXCEPT ![r] = None]
    /\ UNCHANGED <<keyVars, cache, copy, history>>

\* refresh, the end: the answer replaces whatever is there.
Store(r) ==
    /\ At(r, "answered")
    /\ cache' = [keys |-> lookup[r].doc, age |-> 0]
    /\ lookup' = [q \in Lookups |->
           IF q = r THEN [lookup[r] EXCEPT !.pc = "stored", !.doc = {}, !.misled = lookup[r].doc = {}]
           ELSE IF At(q, "stored") /\ lookup[r].doc = {} THEN [lookup[q] EXCEPT !.misled = TRUE]
           ELSE lookup[q]]
    /\ UNCHANGED <<keyVars, copy, history>>

\* GetKey, the end: the second read, which does not look at expiresAt.
HitAgain(r) == lookup[r].key \in cache.keys

ReadAgain(r) ==
    /\ At(r, "stored")
    /\ lookup' = [lookup EXCEPT ![r] = None]
    /\ UNCHANGED <<keyVars, cache, copy, history>>

\* A step of the server: the history follows what it publishes.
ServerStep ==
    /\ KeysStep
    /\ unserved' = [f \in Files |-> IF f \in JWKS \cup JWKS' THEN 0 ELSE unserved[f]]
    /\ served' = [f \in Files |-> IF f \in JWKS' THEN served[f] ELSE 0]
    /\ UNCHANGED cacheVars

Tick ==
    /\ \A r \in Lookups : lookup[r] # None => lookup[r].age < FetchTime
    /\ KeysTick
    /\ cache' = [cache EXCEPT !.age = IF @ < CacheTTL THEN @ + 1 ELSE @]
    /\ copy' = IF copy.age + 1 < MaxAge THEN [copy EXCEPT !.age = @ + 1] ELSE NoCopy
    /\ lookup' = [r \in Lookups |->
           IF lookup[r] = None THEN None ELSE [lookup[r] EXCEPT !.age = @ + 1]]
    /\ unserved' = [f \in Files |-> IF f \in JWKS THEN 0 ELSE Later(unserved[f])]
    /\ served' = [f \in Files |-> IF f \in JWKS THEN Later(served[f]) ELSE 0]

LookupStep(r) ==
    \/ \E f \in Files : GetKey(r, f)
    \/ FetchAnswered(r) \/ FetchMisled(r) \/ FetchFails(r) \/ Store(r) \/ ReadAgain(r)

Next ==
    \/ ServerStep
    \/ \E r \in Lookups : LookupStep(r)
    \/ Tick

Spec == Init /\ [][Next]_vars

-----------------------------------------------------------------------------

\* A key that is no longer published is not used for longer than the lives of
\* the two caches and a fetch, in whatever order answers are stored (GetKey, refresh).
WithdrawnKeysLeave ==
    \A f \in Files :
        \/ Hit(f)
        \/ \E r \in Lookups : At(r, "stored") /\ lookup[r].key = f /\ HitAgain(r)
        => unserved[f] < CacheTTL + FetchTime + MaxAge

\* A key is not found only if it is new, or if the cache is empty because an error
\* answer was stored while the lookup was under way, by itself or by another: the
\* lookups after it, which find nothing in the empty cache either, ask again.  One
\* that has been published for longer than the life of the copy and two fetches is in
\* every other answer that an overlapping lookup may have stored (GetKey, refresh).
PublishedKeysAreFound ==
    \A r \in Lookups : At(r, "stored") /\ ~HitAgain(r) =>
        \/ served[lookup[r].key] <= 2 * FetchTime + MaxAge
        \/ cache.keys = {} /\ lookup[r].misled
=============================================================================

--------------------------- MODULE JWKSCache_proofs ---------------------------
(***************************************************************************)
(* Proofs about SigningKeys and JWKSCache, for any number of key files,    *)
(* tokens and overlapping lookups and for all the times: no id_token       *)
(* outlives its key, and neither cache keeps a withdrawn key or misses a   *)
(* published one for longer than its lives allow.                          *)
(***************************************************************************)
EXTENDS JWKSCache, FiniteSetTheorems, TLAPS

-----------------------------------------------------------------------------
(* The server.                                                             *)

\* A finite, non-empty set of naturals has a maximum: the smallest of its
\* subsets without one would lose it by losing an element.
LEMMA MaxExists ==
    ASSUME NEW S \in SUBSET Nat, IsFiniteSet(S), S # {}
    PROVE  Max(S) \in S /\ \A y \in S : y <= Max(S)
<1> DEFINE HasMax(U) == \E x \in U : \A y \in U : x >= y
           Bad == {U \in FiniteSubsetsOf(S) : U # {} /\ ~HasMax(U)}
<1>1. ASSUME Bad # {} PROVE FALSE
  <2>1. PICK U \in Bad : \A V \in Bad : ~(<<V, U>> \in StrictSubsetOrdering(S))
    <3> HIDE DEF Bad
    <3>1. Bad \subseteq FiniteSubsetsOf(S)
      BY DEF Bad
    <3> QED BY <1>1, <3>1, FS_StrictSubsetOrderingWellFounded, WFMin
  <2>2. PICK x \in U : TRUE
    OBVIOUS
  <2> DEFINE V == U \ {x}
  <2>3. V \in FiniteSubsetsOf(S) /\ <<V, U>> \in StrictSubsetOrdering(S)
    BY <2>2, FS_Subset DEF FiniteSubsetsOf, StrictSubsetOrdering
  <2>4. V = {} \/ HasMax(V)
    BY <2>1, <2>3
  <2>5. U \subseteq Nat
    BY DEF FiniteSubsetsOf
  <2> QED BY <2>2, <2>4, <2>5
<1>2. S \in FiniteSubsetsOf(S)
  BY DEF FiniteSubsetsOf
<1>3. HasMax(S)
  BY <1>1, <1>2
<1> QED BY <1>3 DEF Max

\* The key that signs has its file as long as the server runs, and what signed a
\* token that is still valid has one too.  A token of an older key was signed
\* before the last start, so that it expires within TokenTTL of it.
Stranded(t) == token[t] # None /\ (loaded = None \/ token[t].key # loaded.primary)

KeysInv ==
    /\ KeysTypeOK
    /\ loaded # None => dir[loaded.primary] = "key"
    /\ \A t \in Tokens : token[t] # None => dir[token[t].key] = "key"
    /\ loaded # None =>
           \A t \in Tokens : Stranded(t) => token[t].age >= uptime
    /\ TokensStayVerifiable

LEMMA KeysInitInv == KeysInit => KeysInv
BY TimesAreNaturals, NoneIsNoKey DEF KeysInit, KeysInv, KeysTypeOK, TokensStayVerifiable

LEMMA UsableMax ==
    ASSUME Usable # {}
    PROVE  Max(Usable) \in Usable /\ Usable \subseteq Files
<1>1. IsFiniteSet(Usable) /\ Usable \in SUBSET Nat
  BY FilesAreOrdered, FS_Subset DEF Usable
<1> QED BY <1>1, MaxExists DEF Usable

LEMMA KeysStepTypes ==
    ASSUME KeysTypeOK, KeysStep
    PROVE  KeysTypeOK'
<1> USE TimesAreNaturals, NoneIsNoKey
<1>1. CASE Start
  <2>1. [primary |-> Max(Usable), retiring |-> Usable \ {Max(Usable)}] \in Loaded
    BY <1>1, UsableMax DEF Start, Loaded
  <2> QED BY <1>1, <2>1 DEF Start, KeysTypeOK
<1>2. CASE \E t \in Tokens : Sign(t)
  <2>1. PICK t \in Tokens : Sign(t)
    BY <1>2
  <2>2. [key |-> loaded.primary, age |-> 0] \in Token
    BY <2>1 DEF Sign, KeysTypeOK, Token, Loaded
  <2> QED BY <2>1, <2>2 DEF Sign, KeysTypeOK
<1>3. CASE Stop \/ (\E t \in Tokens : ExpireEarly(t))
  BY <1>3 DEF Stop, ExpireEarly, KeysTypeOK
<1>4. CASE \E f \in Files : Rotate(f) \/ DeleteOldest(f)
  BY <1>4 DEF Rotate, DeleteOldest, KeysTypeOK
<1> QED BY <1>1, <1>2, <1>3, <1>4 DEF KeysStep

LEMMA KeysTickTypes ==
    ASSUME KeysTypeOK, KeysTick
    PROVE  KeysTypeOK'
<1> USE TimesAreNaturals, NoneIsNoKey
<1>1. ASSUME NEW t \in Tokens PROVE token'[t] \in Token \cup {None}
  <2>1. CASE token[t] = None \/ token[t].age + 1 = TokenTTL
    BY <2>1 DEF KeysTick
  <2>2. CASE ~(token[t] = None \/ token[t].age + 1 = TokenTTL)
    <3>1. token[t] \in Token /\ token[t].age + 1 # TokenTTL
      BY <2>2 DEF KeysTypeOK
    <3>2. token'[t] = [token[t] EXCEPT !.age = @ + 1]
      BY <2>2 DEF KeysTick
    <3>3. token[t].age + 1 \in 0 .. TokenTTL - 1
      BY <3>1 DEF Token
    <3> QED BY <3>1, <3>2, <3>3 DEF Token
  <2> QED BY <2>1, <2>2
<1> QED BY <1>1 DEF KeysTick, KeysTypeOK

LEMMA KeysStepInv ==
    ASSUME Wait >= TokenTTL, KeysInv, KeysStep
    PROVE  KeysInv'
<1> USE TimesAreNaturals, NoneIsNoKey DEF KeysInv
<1>1. CASE Start
  <2> DEFINE km == [primary |-> Max(Usable), retiring |-> Usable \ {Max(Usable)}]
  <2>1. Max(Usable) \in Usable /\ Usable \subseteq Files
    BY <1>1, UsableMax DEF Start
  <2>2. km \in Loaded
    BY <2>1 DEF Loaded
  <2>3. loaded' = km /\ uptime' = 0 /\ UNCHANGED <<dir, token>>
    BY <1>1 DEF Start
  <2>4. KeysTypeOK'
    BY <2>2, <2>3 DEF KeysTypeOK
  <2>5. dir'[loaded'.primary] = "key"
    BY <2>1, <2>3 DEF Usable
  <2>6. \A t \in Tokens : token'[t] # None => token'[t].age >= uptime'
    BY <2>3 DEF KeysTypeOK, Token
  <2>7. JWKS' = Usable
    BY <2>1, <2>2, <2>3 DEF JWKS
  <2>8. TokensStayVerifiable'
    BY <2>3, <2>7 DEF TokensStayVerifiable, Usable, KeysTypeOK, Token
  <2> QED BY <2>3, <2>4, <2>5, <2>6, <2>8 DEF Stranded
<1>2. CASE Stop
  BY <1>2 DEF Stop, KeysTypeOK, TokensStayVerifiable
<1>3. CASE \E t \in Tokens : Sign(t)
  <2>1. PICK t \in Tokens : Sign(t)
    BY <1>3
  <2> DEFINE new == [key |-> loaded.primary, age |-> 0]
  <2>2. loaded \in Loaded /\ loaded # None
    BY <2>1 DEF Sign, KeysTypeOK
  <2>3. new \in Token
    BY <2>2 DEF Token, Loaded
  <2>4. token' = [token EXCEPT ![t] = new] /\ UNCHANGED <<dir, loaded, uptime>>
    BY <2>1 DEF Sign
  <2>5. KeysTypeOK'
    BY <2>3, <2>4 DEF KeysTypeOK
  <2>6. JWKS' = JWKS /\ loaded.primary \in JWKS
    BY <2>2, <2>4 DEF JWKS
  <2>7. ASSUME NEW r \in Tokens
        PROVE  token'[r] = IF r = t THEN new ELSE token[r]
    BY <2>4 DEF KeysTypeOK
  <2>8. TokensStayVerifiable'
    BY <2>2, <2>4, <2>6, <2>7 DEF TokensStayVerifiable
  <2>9. \A r \in Tokens : token'[r] # None => dir'[token'[r].key] = "key"
    BY <2>2, <2>4, <2>7
  <2>10. \A r \in Tokens : Stranded(r)' => token'[r].age >= uptime'
    BY <2>2, <2>4, <2>7 DEF Stranded
  <2> QED BY <2>4, <2>5, <2>8, <2>9, <2>10
<1>4. CASE \E t \in Tokens : ExpireEarly(t)
  <2>1. PICK t \in Tokens : ExpireEarly(t)
    BY <1>4
  <2>2. token' = [token EXCEPT ![t] = None] /\ UNCHANGED <<dir, loaded, uptime>>
    BY <2>1 DEF ExpireEarly
  <2>3. JWKS' = JWKS
    BY <2>2 DEF JWKS
  <2> QED BY <2>2, <2>3 DEF KeysTypeOK, TokensStayVerifiable, Stranded
<1>5. CASE \E f \in Files : Rotate(f)
  <2>1. PICK f \in Files : Rotate(f)
    BY <1>5
  <2>2. dir' = [dir EXCEPT ![f] = "key"] /\ UNCHANGED <<loaded, uptime, token>>
    BY <2>1 DEF Rotate
  <2>3. JWKS' = JWKS
    BY <2>2 DEF JWKS
  <2> QED BY <2>2, <2>3 DEF KeysTypeOK, TokensStayVerifiable, Stranded, Token, Loaded
<1>6. CASE \E f \in Files : DeleteOldest(f)
  <2>1. PICK f \in Files : DeleteOldest(f)
    BY <1>6
  <2>2. /\ dir' = [dir EXCEPT ![f] = "deleted"] /\ UNCHANGED <<loaded, uptime, token>>
        /\ loaded # None /\ uptime = Wait /\ f < loaded.primary
    BY <2>1 DEF DeleteOldest
  <2>3. JWKS' = JWKS
    BY <2>2 DEF JWKS
  <2>4. f # loaded.primary /\ loaded.primary \in Files
    BY <2>2, FilesAreOrdered DEF KeysTypeOK, Loaded
  <2>5. ASSUME NEW t \in Tokens, token[t] # None
        PROVE  token[t].key # f
    <3>1. token[t].age < TokenTTL /\ token[t].age \in Int
      BY <2>5 DEF KeysTypeOK, Token
    <3>2. ~Stranded(t)
      BY <2>2, <3>1
    <3> QED BY <2>4, <2>5, <3>2 DEF Stranded
  <2> QED BY <2>2, <2>3, <2>4, <2>5 DEF KeysTypeOK, TokensStayVerifiable, Stranded, Token
<1> QED BY <1>1, <1>2, <1>3, <1>4, <1>5, <1>6 DEF KeysStep

LEMMA KeysTickInv ==
    ASSUME KeysInv, KeysTick
    PROVE  KeysInv'
<1> USE TimesAreNaturals, NoneIsNoKey DEF KeysInv
<1>1. /\ uptime' = IF uptime < Wait THEN uptime + 1 ELSE Wait
      /\ UNCHANGED <<dir, loaded>> /\ uptime \in 0 .. Wait
  BY DEF KeysTick, KeysTypeOK
<1>2. ASSUME NEW t \in Tokens
      PROVE  \/ token'[t] = None
             \/ /\ token[t] # None /\ token[t] \in Token
                /\ token'[t] = [token[t] EXCEPT !.age = @ + 1]
                /\ token'[t] \in Token
                /\ token'[t].key = token[t].key /\ token'[t].age = token[t].age + 1
  <2>1. CASE token[t] = None \/ token[t].age + 1 = TokenTTL
    BY <2>1 DEF KeysTick
  <2>2. CASE ~(token[t] = None \/ token[t].age + 1 = TokenTTL)
    <3>1. token[t] \in Token
      BY <2>2 DEF KeysTypeOK
    <3>2. token'[t] = [token[t] EXCEPT !.age = @ + 1]
      BY <2>2 DEF KeysTick
    <3>3. [token[t] EXCEPT !.age = @ + 1] \in Token
      BY <2>2, <3>1 DEF Token
    <3> QED BY <2>2, <3>1, <3>2, <3>3 DEF Token
  <2> QED BY <2>1, <2>2
<1>3. KeysTypeOK'
  BY <1>1, <1>2 DEF KeysTick, KeysTypeOK
<1>4. JWKS' = JWKS
  BY <1>1 DEF JWKS
<1>5. TokensStayVerifiable'
  BY <1>1, <1>2, <1>4 DEF TokensStayVerifiable
<1>6. ASSUME loaded' # None, NEW t \in Tokens, Stranded(t)'
      PROVE  token'[t].age >= uptime'
  <2>1. /\ token[t] # None /\ token[t] \in Token /\ token'[t].key = token[t].key
        /\ token'[t].age = token[t].age + 1
    BY <1>2, <1>6 DEF Stranded
  <2>2. Stranded(t) /\ token[t].age \in Int
    BY <1>1, <1>6, <2>1 DEF Stranded, Token
  <2>3. token[t].age >= uptime
    BY <1>1, <1>6, <2>2
  <2> QED BY <1>1, <2>1, <2>2, <2>3
<1> QED BY <1>1, <1>2, <1>3, <1>5, <1>6

-----------------------------------------------------------------------------
(* The theorem about the server.                                           *)

\* Every id_token stays verifiable across rotations, restarts and deletions if
\* the operator waits for the longest life of a token.
THEOREM NoTokenIsStranded ==
    ASSUME Wait >= TokenTTL
    PROVE  KeysSpec => []TokensStayVerifiable
<1>1. KeysInv /\ [KeysStep \/ KeysTick]_keyVars => KeysInv'
  <2> SUFFICES ASSUME KeysInv, [KeysStep \/ KeysTick]_keyVars PROVE KeysInv'
    OBVIOUS
  <2>1. CASE UNCHANGED keyVars
    BY <2>1 DEF keyVars, KeysInv, KeysTypeOK, TokensStayVerifiable, JWKS, Stranded
  <2> QED BY <2>1, KeysStepInv, KeysTickInv
<1>2. KeysInv => TokensStayVerifiable
  BY DEF KeysInv
<1> QED BY <1>1, <1>2, KeysInitInv, PTL DEF KeysSpec

-----------------------------------------------------------------------------
(* The relying party.                                                      *)

\* The server publishes what JWKS says: the histories.
ServedOK ==
    \A f \in Files : IF f \in JWKS THEN unserved[f] = 0 ELSE served[f] = 0

\* A document tells what was published some time ago; an error answer, which has no
\* keys, tells nothing.
Tells(doc, time) ==
    doc # {} =>
        \A f \in Files : IF f \in doc THEN unserved[f] <= time ELSE served[f] <= time

CopyOK == copy.age < MaxAge => Tells(copy.keys, copy.age)

\* An answer is as old as the call, and as the copy it may have come from; what
\* a call reads again was stored while it ran, by itself or by another, which also
\* goes for an error answer.
LookupOK(r) ==
    /\ At(r, "answered") => Tells(lookup[r].doc, lookup[r].age + MaxAge)
    /\ At(r, "stored") =>
           /\ cache.age <= lookup[r].age
           /\ IF cache.keys = {} THEN lookup[r].misled
              ELSE \A f \in Files \ cache.keys :
                       served[f] <= FetchTime + MaxAge + lookup[r].age

CacheOK ==
    cache.age < CacheTTL =>
        \A f \in Files : f \in cache.keys => unserved[f] <= FetchTime + MaxAge + cache.age

CacheInv == TypeOK /\ ServedOK /\ CopyOK /\ (\A r \in Lookups : LookupOK(r)) /\ CacheOK

LEMMA CacheInitInv == Init => CacheInv
<1> SUFFICES ASSUME Init PROVE CacheInv
  OBVIOUS
<1> USE CacheTimes, TimesAreNaturals, NoneIsNoLookup DEF Init, KeysInit
<1>1. TypeOK
  BY DEF TypeOK, KeysTypeOK, Horizon, NoCopy
<1>2. ServedOK
  BY DEF ServedOK, JWKS
<1> QED BY <1>1, <1>2 DEF CacheInv, CopyOK, LookupOK, CacheOK, At, NoCopy

\* The histories only shrink in a step of the server.
LEMMA ServerStepInv ==
    ASSUME CacheInv, ServerStep
    PROVE  CacheInv'
<1> USE CacheTimes DEF CacheInv
<1>1. /\ unserved' = [f \in Files |-> IF f \in JWKS \cup JWKS' THEN 0 ELSE unserved[f]]
      /\ served' = [f \in Files |-> IF f \in JWKS' THEN served[f] ELSE 0]
      /\ UNCHANGED <<cache, copy, lookup>>
  BY DEF ServerStep, cacheVars
<1>2. TypeOK'
  <2>1. KeysTypeOK'
    BY KeysStepTypes DEF TypeOK, ServerStep
  <2> QED BY <1>1, <2>1 DEF TypeOK, Horizon
<1>3. ServedOK'
  BY <1>1 DEF ServedOK
<1>4. \A f \in Files : /\ unserved'[f] <= unserved[f] /\ served'[f] <= served[f]
                       /\ unserved'[f] \in Int /\ served'[f] \in Int
                       /\ unserved[f] \in Int /\ served[f] \in Int
  BY <1>1 DEF TypeOK, Horizon
<1>5. ASSUME NEW doc, NEW time \in Int, Tells(doc, time)
      PROVE  Tells(doc, time)'
  BY <1>4, <1>5 DEF Tells
<1>6. CopyOK'
  BY <1>1, <1>5 DEF CopyOK, TypeOK
<1>7. \A r \in Lookups : LookupOK(r)'
  <2> SUFFICES ASSUME NEW r \in Lookups, lookup[r] # None PROVE LookupOK(r)'
    BY <1>1 DEF LookupOK, At
  <2>1. lookup[r].age \in Int
    BY DEF TypeOK, Lookup
  <2> QED BY <1>1, <1>4, <1>5, <2>1 DEF LookupOK, At
<1>8. CacheOK'
  BY <1>1, <1>4 DEF CacheOK, TypeOK
<1> QED BY <1>2, <1>3, <1>6, <1>7, <1>8

\* A tick: ages and histories grow together.
LEMMA TickInv ==
    ASSUME CacheInv, Tick
    PROVE  CacheInv'
<1> USE CacheTimes, NoneIsNoLookup DEF CacheInv
<1>1. /\ cache' = [cache EXCEPT !.age = IF @ < CacheTTL THEN @ + 1 ELSE @]
      /\ copy' = IF copy.age + 1 < MaxAge THEN [copy EXCEPT !.age = @ + 1] ELSE NoCopy
      /\ lookup' = [r \in Lookups |->
             IF lookup[r] = None THEN None ELSE [lookup[r] EXCEPT !.age = @ + 1]]
      /\ unserved' = [f \in Files |-> IF f \in JWKS THEN 0 ELSE Later(unserved[f])]
      /\ served' = [f \in Files |-> IF f \in JWKS THEN Later(served[f]) ELSE 0]
      /\ JWKS' = JWKS
  BY DEF Tick, KeysTick, JWKS
<1>2. ASSUME NEW r \in Lookups, lookup'[r] # None
      PROVE  /\ lookup[r] \in Lookup /\ lookup'[r] = [lookup[r] EXCEPT !.age = @ + 1]
             /\ lookup'[r] \in Lookup
             /\ lookup'[r].pc = lookup[r].pc /\ lookup'[r].doc = lookup[r].doc
             /\ lookup'[r].misled = lookup[r].misled
             /\ lookup'[r].age = lookup[r].age + 1 /\ lookup[r].age \in Int
             /\ lookup[r] # None
  <2>1. lookup[r] # None /\ lookup[r] \in Lookup
    BY <1>1, <1>2 DEF TypeOK
  <2>2. lookup[r].age < FetchTime
    BY <2>1 DEF Tick
  <2>3. lookup'[r] = [lookup[r] EXCEPT !.age = @ + 1]
    BY <1>1, <2>1
  <2> QED BY <2>1, <2>2, <2>3 DEF Lookup
<1>3. \A f \in Files : /\ unserved[f] \in 0 .. Horizon /\ served[f] \in 0 .. Horizon
                       /\ unserved'[f] \in 0 .. Horizon /\ served'[f] \in 0 .. Horizon
                       /\ unserved'[f] <= unserved[f] + 1 /\ served'[f] <= served[f] + 1
  BY <1>1 DEF TypeOK, Later, Horizon
<1>4. TypeOK'
  <2>1. KeysTypeOK'
    BY KeysTickTypes DEF TypeOK, Tick
  <2>2. lookup' \in [Lookups -> Lookup \cup {None}]
    BY <1>1, <1>2
  <2>3. copy' \in [keys : SUBSET Files, age : 0 .. MaxAge]
    BY <1>1 DEF TypeOK, NoCopy
  <2>4. cache' \in [keys : SUBSET Files, age : 0 .. CacheTTL]
    BY <1>1 DEF TypeOK
  <2> QED BY <1>1, <1>3, <2>1, <2>2, <2>3, <2>4 DEF TypeOK
<1>5. ServedOK'
  BY <1>1 DEF ServedOK
<1>6. ASSUME NEW doc, NEW time \in Int, Tells(doc, time)
      PROVE  doc # {} => \A f \in Files :
                 IF f \in doc THEN unserved'[f] <= time + 1 ELSE served'[f] <= time + 1
  BY <1>3, <1>6 DEF Tells
<1>7. CopyOK'
  <2> SUFFICES ASSUME copy'.age < MaxAge, copy'.keys # {}, NEW f \in Files
               PROVE  IF f \in copy'.keys THEN unserved'[f] <= copy'.age
                      ELSE served'[f] <= copy'.age
    BY DEF CopyOK, Tells
  <2>1. /\ copy.age \in Int /\ copy.age < MaxAge
        /\ copy'.keys = copy.keys /\ copy'.age = copy.age + 1
    BY <1>1 DEF TypeOK, NoCopy
  <2>2. Tells(copy.keys, copy.age)
    BY <2>1 DEF CopyOK
  <2> QED BY <1>6, <2>1, <2>2
<1>8. \A r \in Lookups : LookupOK(r)'
  <2> SUFFICES ASSUME NEW r \in Lookups, lookup'[r] # None PROVE LookupOK(r)'
    BY DEF LookupOK, At
  <2>1. CASE At(r, "answered")
    <3>1. Tells(lookup[r].doc, lookup[r].age + MaxAge)
      BY <2>1 DEF LookupOK
    <3>2. /\ lookup'[r].doc = lookup[r].doc /\ lookup'[r].pc = "answered"
          /\ lookup'[r].age = lookup[r].age + 1 /\ lookup[r].age \in Int
      BY <1>2, <2>1 DEF At
    <3> DEFINE time == lookup[r].age + MaxAge
    <3>3. time \in Int /\ lookup'[r].age + MaxAge = time + 1
      BY <3>2
    <3>4. ASSUME lookup'[r].doc # {}, NEW f \in Files
          PROVE  IF f \in lookup'[r].doc THEN unserved'[f] <= lookup'[r].age + MaxAge
                 ELSE served'[f] <= lookup'[r].age + MaxAge
      <4> HIDE DEF time
      <4>1. Tells(lookup[r].doc, time)
        BY <3>1 DEF time
      <4> QED BY <1>6, <3>2, <3>3, <3>4, <4>1
    <3> QED BY <3>2, <3>4 DEF LookupOK, At, Tells
  <2>2. CASE At(r, "stored")
    <3>1. cache.age <= lookup[r].age /\ cache.age \in Int /\ cache'.age <= cache.age + 1
      BY <1>1, <2>2 DEF LookupOK, TypeOK
    <3>2. cache'.age \in Int /\ cache'.keys = cache.keys
      BY <1>1 DEF TypeOK
    <3>3. /\ lookup'[r].pc = "stored" /\ lookup'[r].age = lookup[r].age + 1
          /\ lookup[r].age \in Int /\ lookup'[r].misled = lookup[r].misled
      BY <1>2, <2>2 DEF At
    <3>4. cache.keys # {} => \A f \in Files \ cache.keys :
              served'[f] <= FetchTime + MaxAge + lookup'[r].age
      <4> SUFFICES ASSUME cache.keys # {}, NEW f \in Files, f \notin cache.keys
                   PROVE  served'[f] <= FetchTime + MaxAge + lookup'[r].age
        OBVIOUS
      <4>1. served[f] <= FetchTime + MaxAge + lookup[r].age
        BY <2>2 DEF LookupOK
      <4>2. served'[f] <= served[f] + 1 /\ served[f] \in Int /\ served'[f] \in Int
        BY <1>3 DEF Horizon
      <4> QED BY <3>3, <4>1, <4>2
    <3>5. cache.keys = {} => lookup'[r].misled
      BY <2>2, <3>3 DEF LookupOK
    <3> QED BY <3>1, <3>2, <3>3, <3>4, <3>5 DEF LookupOK, At
  <2>3. CASE ~At(r, "answered") /\ ~At(r, "stored")
    BY <1>2, <2>3 DEF LookupOK, At
  <2> QED BY <2>1, <2>2, <2>3
<1>9. CacheOK'
  <2> SUFFICES ASSUME cache'.age < CacheTTL, NEW f \in Files, f \in cache'.keys
               PROVE  unserved'[f] <= FetchTime + MaxAge + cache'.age
    BY DEF CacheOK
  <2>1. /\ cache.age \in Int /\ cache.age < CacheTTL /\ cache'.age = cache.age + 1
        /\ cache'.keys = cache.keys
    BY <1>1 DEF TypeOK
  <2> QED BY <1>3, <2>1 DEF CacheOK, Horizon
<1> QED BY <1>4, <1>5, <1>7, <1>8, <1>9

\* The steps of a call.
LEMMA LookupStepInv ==
    ASSUME CacheInv, NEW r \in Lookups, LookupStep(r)
    PROVE  CacheInv'
<1> USE CacheTimes, NoneIsNoLookup DEF CacheInv
<1>1. UNCHANGED <<keyVars, history>>
  BY DEF LookupStep, GetKey, FetchAnswered, FetchMisled, FetchFails, Store, ReadAgain
<1>2. /\ JWKS' = JWKS /\ UNCHANGED <<unserved, served>>
      /\ KeysTypeOK' /\ ServedOK'
  BY <1>1 DEF keyVars, history, JWKS, KeysTypeOK, ServedOK, TypeOK
<1>3. ASSUME NEW doc, NEW time PROVE Tells(doc, time)' <=> Tells(doc, time)
  BY <1>2 DEF Tells
<1>4. \A f \in Files : unserved[f] \in Int /\ served[f] \in Int
  BY DEF TypeOK, Horizon
<1>5. ASSUME UNCHANGED <<cache, copy>>,
             lookup' \in [Lookups -> Lookup \cup {None}],
             \A q \in Lookups : lookup'[q] # None =>
                 \/ lookup'[q] = lookup[q]
                 \/ lookup'[q].pc = "fetch"
      PROVE  CacheInv'
  <2>1. TypeOK'
    BY <1>2, <1>5 DEF TypeOK, Horizon
  <2>2. CopyOK' /\ CacheOK'
    BY <1>2, <1>5 DEF CopyOK, CacheOK, Tells
  <2>3. \A q \in Lookups : LookupOK(q)'
    BY <1>2, <1>5 DEF LookupOK, At, Tells
  <2> QED BY <1>2, <2>1, <2>2, <2>3
<1>6. CASE \E f \in Files : GetKey(r, f)
  <2>1. PICK f \in Files : GetKey(r, f)
    BY <1>6
  <2>2. NewLookup(f) \in Lookup /\ NewLookup(f).pc = "fetch"
    BY DEF Lookup, NewLookup
  <2> QED BY <1>5, <2>1, <2>2 DEF GetKey, TypeOK
<1>7. CASE FetchFails(r) \/ ReadAgain(r)
  BY <1>5, <1>7 DEF FetchFails, ReadAgain, TypeOK
<1>8. CASE FetchAnswered(r) \/ FetchMisled(r)
  <2>1. PICK doc \in SUBSET Files :
            /\ lookup' = [lookup EXCEPT ![r].pc = "answered", ![r].doc = doc]
            /\ \/ doc = copy.keys /\ copy.age < MaxAge /\ UNCHANGED copy
               \/ doc = JWKS /\ copy' = [keys |-> JWKS, age |-> 0]
               \/ doc = {} /\ UNCHANGED copy
    <3>1. JWKS \in SUBSET Files
      BY DEF JWKS, TypeOK, KeysTypeOK, Loaded
    <3>2. copy.keys \in SUBSET Files
      BY DEF TypeOK
    <3> QED BY <1>8, <3>1, <3>2 DEF FetchAnswered, FetchMisled
  <2>2. lookup[r] \in Lookup /\ UNCHANGED cache /\ lookup[r] # None
    BY <1>8 DEF FetchAnswered, FetchMisled, At, TypeOK
  <2>3. /\ [lookup[r] EXCEPT !.pc = "answered", !.doc = doc] \in Lookup
        /\ lookup'[r] = [lookup[r] EXCEPT !.pc = "answered", !.doc = doc]
        /\ lookup[r].age \in 0 .. FetchTime
    BY <2>1, <2>2 DEF Lookup, TypeOK
  <2>4. copy' \in [keys : SUBSET Files, age : 0 .. MaxAge]
    BY <2>1 DEF TypeOK
  <2>5. TypeOK'
    BY <1>2, <2>1, <2>2, <2>3, <2>4 DEF TypeOK, Horizon
  <2>6. Tells(doc, lookup[r].age + MaxAge)
    <3>1. CASE doc = copy.keys /\ copy.age < MaxAge
      BY <1>4, <2>3, <3>1 DEF CopyOK, Tells, TypeOK
    <3>2. CASE doc = JWKS
      BY <1>4, <2>3, <3>2 DEF ServedOK, Tells
    <3>3. CASE doc = {}
      BY <3>3 DEF Tells
    <3> QED BY <2>1, <3>1, <3>2, <3>3
  <2>7. CopyOK'
    BY <1>2, <2>1 DEF CopyOK, Tells, ServedOK
  <2>8. \A q \in Lookups : LookupOK(q)'
    <3> SUFFICES ASSUME NEW q \in Lookups PROVE LookupOK(q)'
      OBVIOUS
    <3>1. CASE q = r
      BY <1>2, <2>2, <2>3, <2>6, <3>1 DEF LookupOK, At, Lookup, Tells
    <3>2. CASE q # r
      <4>1. lookup'[q] = lookup[q]
        BY <2>1, <3>2 DEF TypeOK
      <4> QED BY <1>2, <2>2, <4>1 DEF LookupOK, At, Tells
    <3> QED BY <3>1, <3>2
  <2> QED BY <1>2, <2>2, <2>5, <2>7, <2>8 DEF CacheOK
<1>9. CASE Store(r)
  <2> DEFINE own == [lookup[r] EXCEPT !.pc = "stored", !.doc = {}, !.misled = lookup[r].doc = {}]
  <2>1. /\ At(r, "answered") /\ UNCHANGED copy
        /\ cache' = [keys |-> lookup[r].doc, age |-> 0]
        /\ lookup' = [q \in Lookups |->
               IF q = r THEN own
               ELSE IF At(q, "stored") /\ lookup[r].doc = {} THEN [lookup[q] EXCEPT !.misled = TRUE]
               ELSE lookup[q]]
    BY <1>9 DEF Store
  <2>2. /\ lookup[r] \in Lookup /\ lookup[r].doc \subseteq Files
        /\ lookup[r].age \in 0 .. FetchTime
    BY <2>1 DEF At, TypeOK, Lookup
  <2>3. ASSUME NEW q \in Lookups, lookup'[q] # None
        PROVE  /\ lookup[q] # None /\ lookup'[q] \in Lookup
               /\ lookup'[q].age = lookup[q].age /\ lookup'[q].age \in 0 .. FetchTime
               /\ q # r => /\ lookup'[q].pc = lookup[q].pc /\ lookup'[q].doc = lookup[q].doc
               /\ q = r => lookup'[q].pc = "stored"
               /\ At(q, "stored")' /\ lookup[r].doc = {} => lookup'[q].misled
    <3>1. CASE q = r
      <4>1. lookup'[q] = own
        BY <2>1, <3>1
      <4> QED BY <2>1, <2>2, <3>1, <4>1 DEF Lookup, At
    <3>2. CASE q # r
      <4>1. lookup[q] # None
        BY <2>1, <2>3, <3>2 DEF At
      <4>2. lookup[q] \in Lookup
        BY <4>1 DEF TypeOK
      <4>3. \/ /\ At(q, "stored") /\ lookup[r].doc = {}
               /\ lookup'[q] = [lookup[q] EXCEPT !.misled = TRUE]
            \/ /\ ~(At(q, "stored") /\ lookup[r].doc = {})
               /\ lookup'[q] = lookup[q]
        BY <2>1, <3>2
      <4> QED BY <3>2, <4>1, <4>2, <4>3 DEF Lookup, At
    <3> QED BY <3>1, <3>2
  <2>4. TypeOK'
    <3>1. lookup' \in [Lookups -> Lookup \cup {None}]
      BY <2>1, <2>3
    <3> HIDE DEF own
    <3>2. cache' \in [keys : SUBSET Files, age : 0 .. CacheTTL]
      <4>1. cache' = [keys |-> lookup[r].doc, age |-> 0]
        BY <2>1
      <4>2. lookup[r].doc \in SUBSET Files /\ 0 \in 0 .. CacheTTL
        BY <2>2
      <4> QED BY <4>1, <4>2
    <3> QED BY <1>2, <2>1, <3>1, <3>2 DEF TypeOK
  <2>5. Tells(lookup[r].doc, lookup[r].age + MaxAge)
    BY <2>1 DEF LookupOK
  <2>6. lookup[r].doc # {} =>
            \A f \in Files : IF f \in cache'.keys THEN unserved[f] <= FetchTime + MaxAge
                             ELSE served[f] <= FetchTime + MaxAge
    <3> SUFFICES ASSUME lookup[r].doc # {}, NEW f \in Files
                 PROVE  IF f \in lookup[r].doc THEN unserved[f] <= FetchTime + MaxAge
                        ELSE served[f] <= FetchTime + MaxAge
      BY <2>1
    <3>1. IF f \in lookup[r].doc THEN unserved[f] <= lookup[r].age + MaxAge
          ELSE served[f] <= lookup[r].age + MaxAge
      BY <2>5 DEF Tells
    <3> QED BY <1>4, <2>2, <3>1
  <2>7. ASSUME NEW q \in Lookups PROVE LookupOK(q)'
    <3> SUFFICES ASSUME lookup'[q] # None PROVE LookupOK(q)'
      BY DEF LookupOK, At
    <3>1. At(q, "stored")' => /\ cache'.age <= lookup'[q].age
                              /\ IF cache'.keys = {} THEN lookup'[q].misled
                                 ELSE \A f \in Files \ cache'.keys :
                                          served[f] <= FetchTime + MaxAge + lookup'[q].age
      <4>1. cache'.age = 0 /\ cache'.keys = lookup[r].doc
        BY <2>1
      <4>2. ASSUME lookup[r].doc # {}, NEW f \in Files \ cache'.keys
            PROVE  served[f] <= FetchTime + MaxAge + lookup'[q].age
        BY <1>4, <2>3, <2>6, <4>2, CacheTimes
      <4>3. At(q, "stored")' /\ lookup[r].doc = {} => lookup'[q].misled
        BY <2>3
      <4> QED BY <2>3, <4>1, <4>2, <4>3
    <3>2. At(q, "answered")' => Tells(lookup'[q].doc, lookup'[q].age + MaxAge)
      <4> SUFFICES ASSUME lookup'[q].pc = "answered"
                   PROVE  Tells(lookup'[q].doc, lookup'[q].age + MaxAge)
        BY DEF At
      <4>1. q # r
        BY <2>3
      <4> QED BY <2>3, <4>1 DEF LookupOK, At
    <3> QED BY <1>2, <3>1, <3>2 DEF LookupOK, Tells
  <2>8. CacheOK'
    <3> SUFFICES ASSUME NEW f \in Files, f \in cache'.keys
                 PROVE  unserved[f] <= FetchTime + MaxAge + cache'.age
      BY <1>2 DEF CacheOK
    <3>1. cache'.age = 0 /\ cache'.keys = lookup[r].doc
      BY <2>1
    <3> QED BY <1>4, <2>6, <3>1
  <2>9. CopyOK'
    BY <1>2, <2>1 DEF CopyOK, Tells
  <2> QED BY <1>2, <2>4, <2>7, <2>8, <2>9
<1> QED BY <1>6, <1>7, <1>8, <1>9 DEF LookupStep

LEMMA CacheNextInv == CacheInv /\ [Next]_vars => CacheInv'
<1> SUFFICES ASSUME CacheInv, [Next]_vars PROVE CacheInv'
  OBVIOUS
<1>1. CASE UNCHANGED vars
  BY <1>1 DEF vars, keyVars, cacheVars, history, CacheInv, TypeOK, KeysTypeOK, ServedOK,
     JWKS, CopyOK, Tells, LookupOK, At, CacheOK
<1> QED BY <1>1, ServerStepInv, LookupStepInv, TickInv DEF Next

LEMMA CacheInvariance == Spec => []CacheInv
BY CacheInitInv, CacheNextInv, PTL DEF Spec

-----------------------------------------------------------------------------
(* The theorems about the server and its relying party.                    *)

\* The key directory, both caches and all calls keep their types: in particular
\* a server that runs has a key that it can sign with.
THEOREM TypeCorrect == Spec => []TypeOK
<1>1. CacheInv => TypeOK
  BY DEF CacheInv
<1> QED BY <1>1, CacheInvariance, PTL

\* NoTokenIsStranded, next to lookups.
THEOREM TokensAreVerifiable ==
    ASSUME Wait >= TokenTTL
    PROVE  Spec => []TokensStayVerifiable
<1>1. KeysInv /\ [Next]_vars => KeysInv'
  <2> SUFFICES ASSUME KeysInv, [Next]_vars PROVE KeysInv'
    OBVIOUS
  <2>1. CASE UNCHANGED keyVars
    BY <2>1 DEF keyVars, KeysInv, KeysTypeOK, TokensStayVerifiable, JWKS, Stranded
  <2>2. CASE ServerStep
    BY <2>2, KeysStepInv DEF ServerStep
  <2>3. CASE Tick
    BY <2>3, KeysTickInv DEF Tick
  <2>4. CASE \E r \in Lookups : LookupStep(r)
    BY <2>1, <2>4 DEF LookupStep, GetKey, FetchAnswered, FetchMisled, FetchFails, Store, ReadAgain
  <2> QED BY <2>1, <2>2, <2>3, <2>4 DEF Next, vars
<1>2. Init => KeysInv
  BY KeysInitInv DEF Init
<1>3. KeysInv => TokensStayVerifiable
  BY DEF KeysInv
<1> QED BY <1>1, <1>2, <1>3, PTL DEF Spec

\* Whatever answers are stored in whatever order, a key is not used for longer
\* than the lives of both caches and a fetch after it was withdrawn, if calls are
\* shorter than the life of the cache.
THEOREM WithdrawnKeysAreForgotten ==
    ASSUME FetchTime < CacheTTL
    PROVE  Spec => []WithdrawnKeysLeave
<1>1. CacheInv => WithdrawnKeysLeave
  <2> SUFFICES ASSUME CacheInv, NEW f \in Files,
                      \/ Hit(f)
                      \/ \E r \in Lookups : At(r, "stored") /\ lookup[r].key = f /\ HitAgain(r)
               PROVE  unserved[f] < CacheTTL + FetchTime + MaxAge
    BY DEF WithdrawnKeysLeave
  <2>1. f \in cache.keys /\ cache.age < CacheTTL
    <3>1. CASE Hit(f)
      BY <3>1 DEF Hit, Fresh
    <3>2. CASE \E r \in Lookups : At(r, "stored") /\ lookup[r].key = f /\ HitAgain(r)
      <4>1. PICK r \in Lookups : At(r, "stored") /\ lookup[r].key = f /\ HitAgain(r)
        BY <3>2
      <4>2. cache.age <= lookup[r].age /\ lookup[r].age <= FetchTime
        BY <4>1, CacheTimes DEF CacheInv, LookupOK, TypeOK, At, Lookup
      <4>3. cache.age \in Int /\ lookup[r].age \in Int
        BY <4>1 DEF CacheInv, TypeOK, At, Lookup
      <4> QED BY <4>1, <4>2, <4>3, CacheTimes DEF HitAgain
    <3> QED BY <3>1, <3>2
  <2>2. unserved[f] <= FetchTime + MaxAge + cache.age
    BY <2>1 DEF CacheInv, CacheOK
  <2>3. unserved[f] \in Int /\ cache.age \in Int
    BY DEF CacheInv, TypeOK, Horizon
  <2> QED BY <2>1, <2>2, <2>3, CacheTimes
<1> QED BY <1>1, CacheInvariance, PTL

\* A key that has been published for two fetches and the life of the copy is in
\* every document that any overlapping call may have stored: it is found, unless an
\* error answer emptied the cache while the lookup was under way.
THEOREM PublishedKeysAreKnown == Spec => []PublishedKeysAreFound
<1>1. CacheInv => PublishedKeysAreFound
  <2> SUFFICES ASSUME CacheInv, NEW r \in Lookups, At(r, "stored"), ~HitAgain(r)
               PROVE  \/ served[lookup[r].key] <= 2 * FetchTime + MaxAge
                      \/ cache.keys = {} /\ lookup[r].misled
    BY DEF PublishedKeysAreFound
  <2>1. CASE cache.keys = {}
    BY <2>1 DEF CacheInv, LookupOK
  <2>2. CASE cache.keys # {}
    <3>1. /\ lookup[r].key \in Files \ cache.keys /\ lookup[r].age \in 0 .. FetchTime
          /\ served[lookup[r].key] \in Int
      BY CacheTimes DEF CacheInv, TypeOK, At, Lookup, HitAgain, Horizon
    <3>2. served[lookup[r].key] <= FetchTime + MaxAge + lookup[r].age
      BY <2>2, <3>1 DEF CacheInv, LookupOK
    <3> QED BY <3>1, <3>2, CacheTimes
  <2> QED BY <2>1, <2>2
<1> QED BY <1>1, CacheInvariance, PTL
=============================================================================

-------------------------- MODULE RateLimiter_proofs --------------------------
(***************************************************************************)
(* Proofs about RateLimiter, for any routes, addresses, chains of proxies, *)
(* limits and lengths of the window and for any number of requests: they   *)
(* are counted for their client, no eviction forgets a window that still   *)
(* matters, Retry-After suffices, and keys have fixed windows.             *)
(***************************************************************************)
EXTENDS RateLimiter, SequenceTheorems, FiniteSetTheorems, TLAPS

-----------------------------------------------------------------------------
(* The key of a request.                                                   *)

\* A non-empty set of positions has a last one: the smallest of its subsets without
\* one would lose it by losing an element.
LEMMA LastExists ==
    ASSUME NEW n \in Nat, NEW S \in SUBSET (1 .. n), S # {}
    PROVE  Max(S) \in S /\ \A y \in S : y <= Max(S)
<1> DEFINE HasMax(U) == \E x \in U : \A y \in U : x >= y
           Bad == {U \in FiniteSubsetsOf(S) : U # {} /\ ~HasMax(U)}
<1>1. IsFiniteSet(S)
  <2>1. IsFiniteSet(1 .. n)
    BY FS_Interval
  <2> QED BY <2>1, FS_Subset
<1>2. ASSUME Bad # {} PROVE FALSE
  <2>1. PICK U \in Bad : \A V \in Bad : ~(<<V, U>> \in StrictSubsetOrdering(S))
    <3> HIDE DEF Bad
    <3>1. Bad \subseteq FiniteSubsetsOf(S)
      BY DEF Bad
    <3> QED BY <1>1, <1>2, <3>1, FS_StrictSubsetOrderingWellFounded, WFMin
  <2>2. PICK x \in U : TRUE
    OBVIOUS
  <2> DEFINE V == U \ {x}
  <2>3. V \in FiniteSubsetsOf(S) /\ <<V, U>> \in StrictSubsetOrdering(S)
    BY <2>2, FS_Subset DEF FiniteSubsetsOf, StrictSubsetOrdering
  <2>4. V = {} \/ HasMax(V)
    BY <2>1, <2>3
  <2>5. U \subseteq 1 .. n
    BY DEF FiniteSubsetsOf
  <2> QED BY <2>2, <2>4, <2>5
<1>3. S \in FiniteSubsetsOf(S)
  BY <1>1 DEF FiniteSubsetsOf
<1>4. HasMax(S)
  BY <1>2, <1>3
<1> QED BY <1>4 DEF Max

\* The peer a request comes from, what its client sent, and what our first m proxies
\* wrote behind it.
Peer(c, hops) == IF hops = << >> THEN c ELSE hops[Len(hops)].proxy
Sent(forged) == IF forged = None THEN << >> ELSE forged.first \o forged.more
Entries(c, hops, m) == [i \in 1 .. m |-> Entry(c, hops, i)]
Joining(hops) == {i \in DOMAIN hops : hops[i].joins}

\* A chain of proxies is a sequence, and every proxy writes an address: that of the
\* client if it is the first, of one of ours or none that can be read if not.
LEMMA HopsTypes ==
    ASSUME NEW c \in Clients, NEW hops \in Routings
    PROVE  /\ Len(hops) \in Nat /\ DOMAIN hops = 1 .. Len(hops)
           /\ hops # << >> => Len(hops) # 0
           /\ \A i \in 1 .. Len(hops) :
                  /\ hops[i] \in Hop /\ Entry(c, hops, i) \in Addresses
                  /\ i = 1 /\ ~hops[1].port => Entry(c, hops, i) = c
                  /\ i # 1 => Entry(c, hops, i) \in Proxies \cup {Junk}
<1>1. hops \in Seq(Hop)
  BY AddressesDiffer
<1>2. Len(hops) \in Nat /\ DOMAIN hops = 1 .. Len(hops) /\ (hops # << >> => Len(hops) # 0)
  BY <1>1, LenProperties, EmptySeq
<1>3. \A i \in 1 .. Len(hops) : hops[i] \in Hop
  BY <1>1, ElementOfSeq
<1>4. ASSUME NEW i \in 1 .. Len(hops)
      PROVE  /\ Entry(c, hops, i) \in Addresses
             /\ i = 1 /\ ~hops[1].port => Entry(c, hops, i) = c
             /\ i # 1 => Entry(c, hops, i) \in Proxies \cup {Junk}
  <2>1. i # 1 => i - 1 \in 1 .. Len(hops)
    BY <1>2
  <2>2. i # 1 => hops[i - 1].proxy \in Proxies
    BY <1>3, <2>1 DEF Hop
  <2> QED BY <2>2 DEF Entry, Addresses
<1> QED BY <1>2, <1>3, <1>4

\* What the proxies wrote is a sequence of addresses.
LEMMA EntriesTypes ==
    ASSUME NEW c \in Clients, NEW hops \in Routings, NEW m \in 0 .. Len(hops)
    PROVE  /\ Entries(c, hops, m) \in Seq(Addresses)
           /\ Len(Entries(c, hops, m)) = m
           /\ \A i \in 1 .. m : Entries(c, hops, m)[i] = Entry(c, hops, i)
<1>1. m \in Nat /\ \A i \in 1 .. m : i \in 1 .. Len(hops)
  BY HopsTypes
<1>2. Entries(c, hops, m) \in [1 .. m -> Addresses]
  BY <1>1, HopsTypes DEF Entries
<1>3. Entries(c, hops, m) \in Seq(Addresses)
  BY <1>1, <1>2, SeqDef
<1>4. Len(Entries(c, hops, m)) = m
  <2>1. DOMAIN Entries(c, hops, m) = 1 .. m
    BY DEF Entries
  <2>2. /\ DOMAIN Entries(c, hops, m) = 1 .. Len(Entries(c, hops, m))
        /\ Len(Entries(c, hops, m)) \in Nat
    BY <1>3, LenProperties
  <2> QED BY <1>1, <2>1, <2>2
<1> QED BY <1>3, <1>4 DEF Entries

LEMMA SentTypes ==
    ASSUME NEW forged \in Forgeries
    PROVE  /\ Sent(forged) \in Seq(Addresses)
           /\ forged # None => forged.first \in Seq(Addresses)
<1>1. CASE forged = None
  BY <1>1, EmptySeq DEF Sent
<1>2. CASE forged # None
  <2>1. forged.first \in Seq(Addresses) /\ forged.more \in Seq(Addresses)
    BY <1>2, AddressesDiffer DEF Header
  <2> QED BY <1>2, <2>1, ConcatProperties DEF Sent
<1> QED BY <1>1, <1>2

\* The proxies behind the last one that joins have no part in the line that is read.
LEMMA FirstLineCases ==
    ASSUME NEW c \in Clients, NEW forged \in Forgeries, NEW hops \in Routings
    PROVE  \/ /\ Joining(hops) # {}
              /\ \E m \in 1 .. Len(hops) :
                     FirstLine(c, forged, hops) = Sent(forged) \o Entries(c, hops, m)
           \/ /\ Joining(hops) = {} /\ forged # None
              /\ FirstLine(c, forged, hops) = forged.first
           \/ /\ Joining(hops) = {} /\ forged = None /\ hops # << >>
              /\ FirstLine(c, forged, hops) = <<Entry(c, hops, 1)>>
           \/ hops = << >> /\ FirstLine(c, forged, hops) = << >>
<1>1. CASE Joining(hops) # {}
  <2>1. Joining(hops) \in SUBSET (1 .. Len(hops)) /\ Len(hops) \in Nat
    BY HopsTypes DEF Joining
  <2>2. Max(Joining(hops)) \in 1 .. Len(hops)
    BY <1>1, <2>1, LastExists
  <2> QED BY <1>1, <2>2 DEF FirstLine, Joining, Sent, Entries
<1>2. CASE Joining(hops) = {}
  BY <1>2 DEF FirstLine, Joining
<1> QED BY <1>1, <1>2

LEMMA FirstLineTypes ==
    ASSUME NEW c \in Clients, NEW forged \in Forgeries, NEW hops \in Routings
    PROVE  FirstLine(c, forged, hops) \in Seq(Addresses)
<1>1. ASSUME NEW m \in 1 .. Len(hops)
      PROVE  Sent(forged) \o Entries(c, hops, m) \in Seq(Addresses)
  <2>1. m \in 0 .. Len(hops)
    BY HopsTypes
  <2> QED BY <2>1, EntriesTypes, SentTypes, ConcatProperties
<1>2. hops # << >> => <<Entry(c, hops, 1)>> \in Seq(Addresses)
  <2> SUFFICES ASSUME hops # << >> PROVE <<Entry(c, hops, 1)>> \in Seq(Addresses)
    OBVIOUS
  <2>1. 1 \in 1 .. Len(hops)
    BY HopsTypes
  <2>2. Entry(c, hops, 1) \in Addresses
    BY <2>1, HopsTypes
  <2> QED BY <2>2
<1>3. << >> \in Seq(Addresses)
  BY EmptySeq
<1> QED BY <1>1, <1>2, <1>3, SentTypes, FirstLineCases

\* The walk ends at some entry of the line, or at the peer.
LEMMA WalkEndsAtAnAddress ==
    ASSUME NEW peer \in Addresses, NEW xff \in Seq(Addresses)
    PROVE  ClientIP(peer, xff) \in Addresses
<1> DEFINE outside == {i \in DOMAIN xff : xff[i] \notin Proxies \cup {Junk}}
<1>1. Len(xff) \in Nat /\ DOMAIN xff = 1 .. Len(xff) /\ (xff # << >> => Len(xff) # 0)
  BY LenProperties, EmptySeq
<1>2. \A i \in 1 .. Len(xff) : xff[i] \in Addresses
  BY ElementOfSeq
<1>3. outside # {} => Max(outside) \in 1 .. Len(xff)
  <2> SUFFICES ASSUME outside # {} PROVE Max(outside) \in 1 .. Len(xff)
    OBVIOUS
  <2>1. outside \in SUBSET (1 .. Len(xff))
    BY <1>1
  <2> HIDE DEF outside
  <2> QED BY <1>1, <2>1, LastExists
<1>4. xff # << >> => 1 \in 1 .. Len(xff)
  BY <1>1
<1>5. CASE peer \notin Proxies \/ xff = << >>
  BY <1>5 DEF ClientIP
<1>6. CASE ~(peer \notin Proxies \/ xff = << >>)
  <2>1. ClientIP(peer, xff) = IF outside = {} THEN xff[1] ELSE xff[Max(outside)]
    BY <1>6 DEF ClientIP
  <2> HIDE DEF outside
  <2> QED BY <1>2, <1>3, <1>4, <1>6, <2>1
<1> QED BY <1>5, <1>6

\* If an entry that is no proxy of ours is followed by none, the walk ends at it.
LEMMA WalkEndsAt ==
    ASSUME NEW peer \in Proxies, NEW xff \in Seq(Addresses), NEW at \in 1 .. Len(xff),
           xff[at] \notin Proxies \cup {Junk},
           \A i \in 1 .. Len(xff) : i > at => xff[i] \in Proxies \cup {Junk}
    PROVE  ClientIP(peer, xff) = xff[at]
<1> DEFINE outside == {i \in DOMAIN xff : xff[i] \notin Proxies \cup {Junk}}
<1>1. Len(xff) \in Nat /\ DOMAIN xff = 1 .. Len(xff) /\ xff # << >>
  BY LenProperties, EmptySeq
<1>2. outside \in SUBSET (1 .. Len(xff)) /\ at \in outside
  BY <1>1
<1>3. \A i \in outside : i <= at
  BY <1>1
<1>4. ClientIP(peer, xff) = xff[Max(outside)]
  BY <1>1, <1>2 DEF ClientIP
<1> HIDE DEF outside
<1>5. Max(outside) \in outside /\ at <= Max(outside)
  BY <1>1, <1>2, LastExists
<1>6. Max(outside) = at
  <2> DEFINE last == Max(outside)
  <2>1. last \in outside /\ last \in 1 .. Len(xff) /\ at <= last
    BY <1>2, <1>5
  <2> HIDE DEF last
  <2>2. last <= at
    BY <1>3, <2>1
  <2> QED BY <1>1, <2>1, <2>2 DEF last
<1> QED BY <1>4, <1>6

\* If the chain vouches for the client, what our first proxy wrote is in the line that
\* is read, and only proxies of ours come after it.
LEMMA ClientIsFound ==
    ASSUME NEW c \in Clients, NEW forged \in Forgeries, NEW hops \in Routings,
           Vouched(forged, hops)
    PROVE  ClientIP(Peer(c, hops), FirstLine(c, forged, hops)) = c
<1>1. c \notin Proxies \cup {Junk}
  BY AddressesDiffer
<1>2. CASE hops = << >>
  BY <1>1, <1>2 DEF ClientIP, Peer
<1>3. CASE hops # << >>
  <2>1. 1 \in 1 .. Len(hops) /\ Len(hops) \in 1 .. Len(hops)
    BY <1>3, HopsTypes
  <2>2. Peer(c, hops) \in Proxies
    BY <1>3, <2>1, HopsTypes DEF Peer, Hop
  <2>3. Entry(c, hops, 1) = c
    BY <1>3, <2>1, HopsTypes DEF Vouched
  <2>4. CASE Joining(hops) # {}
    <3>1. PICK m \in 1 .. Len(hops) :
              FirstLine(c, forged, hops) = Sent(forged) \o Entries(c, hops, m)
      BY <2>4, <1>3, FirstLineCases
    <3> DEFINE sent == Sent(forged)
               ours == Entries(c, hops, m)
               xff == sent \o ours
               at == Len(sent) + 1
    <3>2. m \in 0 .. Len(hops) /\ m \in Nat \ {0} /\ Len(hops) \in Nat
      BY HopsTypes
    <3>3. /\ ours \in Seq(Addresses) /\ Len(ours) = m
          /\ \A i \in 1 .. m : ours[i] = Entry(c, hops, i)
      BY <3>2, EntriesTypes
    <3>4. sent \in Seq(Addresses) /\ Len(sent) \in Nat
      BY SentTypes, LenProperties
    <3>5. ours[1] = c /\ \A i \in 1 .. m : i # 1 => ours[i] \in Proxies \cup {Junk}
      <4>1. \A i \in 1 .. m : i \in 1 .. Len(hops)
        BY <3>2
      <4>2. 1 \in 1 .. m
        BY <3>2
      <4> HIDE DEF ours
      <4> QED BY <2>3, <3>3, <4>1, <4>2, HopsTypes
    <3> HIDE DEF sent, ours
    <3>6. /\ xff \in Seq(Addresses) /\ Len(xff) = Len(sent) + m
          /\ \A i \in 1 .. Len(xff) : xff[i] = IF i <= Len(sent) THEN sent[i] ELSE ours[i - Len(sent)]
      BY <3>3, <3>4, ConcatProperties
    <3> HIDE DEF xff
    <3>7. at \in 1 .. Len(xff) /\ xff[at] = c
      <4>1. at \in 1 .. Len(xff) /\ ~(at <= Len(sent)) /\ at - Len(sent) = 1
        BY <3>2, <3>4, <3>6
      <4> HIDE DEF at
      <4> QED BY <3>5, <3>6, <4>1
    <3>8. ASSUME NEW i \in 1 .. Len(xff), i > at
          PROVE  xff[i] \in Proxies \cup {Junk}
      <4> DEFINE j == i - Len(sent)
      <4>1. j \in 1 .. m /\ j # 1 /\ ~(i <= Len(sent))
        BY <3>2, <3>4, <3>6, <3>8
      <4>2. xff[i] = ours[j]
        BY <3>6, <4>1
      <4> HIDE DEF j
      <4> QED BY <3>5, <4>1, <4>2
    <3> HIDE DEF at
    <3>9. ClientIP(Peer(c, hops), xff) = c
      BY <1>1, <2>2, <3>6, <3>7, <3>8, WalkEndsAt
    <3> QED BY <3>1, <3>9 DEF xff, sent, ours
  <2>5. CASE Joining(hops) = {}
    <3>1. forged = None
      BY <1>3, <2>5 DEF Vouched, Joining
    <3>2. FirstLine(c, forged, hops) = <<c>>
      BY <1>3, <2>3, <2>5, <3>1, FirstLineCases
    <3> DEFINE xff == <<c>>
    <3>3. xff \in Seq(Addresses) /\ Len(xff) = 1 /\ xff[1] = c
      BY DEF Addresses
    <3> HIDE DEF xff
    <3>4. ClientIP(Peer(c, hops), xff) = c
      BY <1>1, <2>2, <3>3, WalkEndsAt
    <3> QED BY <3>2, <3>4 DEF xff
  <2> QED BY <2>4, <2>5
<1> QED BY <1>2, <1>3

\* The key of a request is made of an address, or of the client id.
LEMMA KeyOfRequest ==
    ASSUME NEW route \in Routes, NEW id \in ClientIds \cup {None}, NEW ip \in Addresses
    PROVE  /\ LimitKey(route, id, ip) \in Keys
           /\ LimitKey(route, id, ip)[1] = route
           /\ LimitKey(route, id, ip)[2] = IF route = "token" /\ id # None THEN id ELSE ip
BY DEF LimitKey, TokenLimitKey, Keys

-----------------------------------------------------------------------------
(* Seconds.                                                                *)

\* Rounding up loses nothing: Retry-After covers what remains of the window.
LEMMA SecondsCover ==
    ASSUME NEW remain \in Int, remain > 0
    PROVE  RetryAfter(remain) * Second >= remain /\ RetryAfter(remain) \in Nat
<1>1. PICK s \in Nat \ {0} : s = Second
  BY SizesAreNaturals
<1> DEFINE q == remain \div s
           m == remain % s
<1>2. q \in Int /\ m \in 0 .. s - 1 /\ remain = s * q + m
  OBVIOUS
<1>3. q >= 0
  OBVIOUS
<1> HIDE DEF q, m
<1>4. q * s = s * q /\ (q + 1) * s = s * q + s
  BY <1>2
<1> QED BY <1>1, <1>2, <1>3, <1>4 DEF RetryAfter, q, m

-----------------------------------------------------------------------------
(* The invariant.                                                          *)

\* What is in the map is the last window that was started; what is not, or is old
\* enough to be restarted by any request, is told by OldWindow.  The time a bucket
\* has been idle exceeds the age of its window by a delay at most, and the earliest
\* Retry-After of a window ends with it or later.
KeyOK(k) ==
    /\ buckets[k] = None => seen[k].age = OldWindow
    /\ buckets[k] # None =>
           /\ seen[k].age = buckets[k].age /\ seen[k].count = buckets[k].count
           /\ seen[k].age = OldWindow \/ buckets[k].idle <= seen[k].age + MaxDelay
    /\ promise[k] # None =>
           seen[k].age = OldWindow \/ promise[k] + seen[k].age >= Window

Inv == TypeOK /\ CountedForItsClient /\ (\A k \in Keys : KeyOK(k))

LEMMA Sizes ==
    /\ Window \in Nat \ {0} /\ MaxDelay \in Nat
    /\ OldWindow = Window + MaxDelay /\ OldWindow \in Nat
    /\ EvictAfter \in Nat /\ LongIdle = EvictAfter + MaxDelay + 1 /\ LongIdle \in Nat
    /\ Window + 2 * MaxDelay <= EvictAfter
BY SizesAreNaturals, DelaysAreShort DEF OldWindow, LongIdle, EvictAfter

LEMMA NothingIsNone ==
    None \notin Bucket /\ None \notin Request
BY NoneIsNothing, Sizes DEF Bucket, Request

LEMMA InitInv == Init => Inv
<1> SUFFICES ASSUME Init PROVE Inv
  OBVIOUS
<1>1. [count |-> 0, age |-> OldWindow] \in SeenWindow
  BY Sizes DEF SeenWindow
<1>2. TypeOK
  BY <1>1, Sizes DEF Init, TypeOK
<1>3. \A k \in Keys : KeyOK(k)
  BY DEF Init, KeyOK
<1> QED BY <1>2, <1>3 DEF Init, Inv, CountedForItsClient

\* A request arrives.
LEMMA AskInv ==
    ASSUME Inv, NEW r \in Requests, NEW route \in Routes, NEW id \in ClientIds \cup {None},
           NEW c \in Clients, NEW forged \in Forgeries, NEW hops \in Routings,
           Ask(r, route, id, c, forged, hops)
    PROVE  Inv'
<1> DEFINE ip == ClientIP(Peer(c, hops), FirstLine(c, forged, hops))
           key == LimitKey(route, id, ip)
           new == [client |-> c, id |-> id, vouched |-> Vouched(forged, hops),
                   key |-> key, age |-> 0]
<1>1. /\ request' = [request EXCEPT ![r] = new]
      /\ UNCHANGED <<buckets, evictor, seen, promise, answer>>
  BY DEF Ask, Peer
<1>2. ip \in Addresses
  <2>1. Peer(c, hops) \in Addresses
    <3>1. hops # << >> => Len(hops) \in 1 .. Len(hops)
      BY HopsTypes
    <3>2. hops # << >> => hops[Len(hops)].proxy \in Proxies
      BY <3>1, HopsTypes DEF Hop
    <3> QED BY <3>2 DEF Peer, Addresses
  <2> QED BY <2>1, FirstLineTypes, WalkEndsAtAnAddress
<1>3. /\ Vouched(forged, hops) \in BOOLEAN
      /\ Vouched(forged, hops) => ip = c
  <2>1. Vouched(forged, hops) => ip = c
    BY ClientIsFound
  <2> QED BY <2>1 DEF Vouched
<1> HIDE DEF ip
<1>4. /\ key \in Keys /\ key[1] = route
      /\ key[2] = IF route = "token" /\ id # None THEN id ELSE ip
  BY <1>2, KeyOfRequest
<1> HIDE DEF key
<1>5. new \in Request
  BY <1>3, <1>4, Sizes DEF Request
<1>6. TypeOK'
  BY <1>1, <1>5 DEF Inv, TypeOK
<1>7. CountedForItsClient'
  <2> SUFFICES ASSUME NEW q \in Requests, request'[q] # None, request'[q].vouched
               PROVE  request'[q].key[2] =
                          IF request'[q].key[1] = "token" /\ request'[q].id # None
                          THEN request'[q].id ELSE request'[q].client
    BY DEF CountedForItsClient
  <2>1. CASE q = r
    <3>1. request'[q] = new
      BY <1>1, <2>1 DEF Inv, TypeOK
    <3>2. ip = c
      BY <1>3, <3>1
    <3> QED BY <1>4, <3>1, <3>2
  <2>2. CASE q # r
    <3>1. request'[q] = request[q]
      BY <1>1, <2>2 DEF Inv, TypeOK
    <3> QED BY <3>1 DEF Inv, CountedForItsClient
  <2> QED BY <2>1, <2>2
<1>8. \A k \in Keys : KeyOK(k)'
  BY <1>1 DEF Inv, KeyOK
<1> QED BY <1>6, <1>7, <1>8 DEF Inv

\* What all decisions have in common: one request leaves, and one key changes.
LEMMA DecideInv ==
    ASSUME Inv, NEW r \in Requests, request[r] # None, Leave(r),
           NEW k \in Keys, k = request[r].key,
           NEW b \in Bucket, buckets' = [buckets EXCEPT ![k] = b],
           NEW w \in SeenWindow, seen' = [seen EXCEPT ![k] = w],
           NEW p \in Int \cup {None}, promise' = [promise EXCEPT ![k] = p],
           NEW a \in {"yes", "no"}, answer' = [answer EXCEPT ![k] = a],
           UNCHANGED evictor,
           w.age = b.age, w.count = b.count, b.idle <= b.age + MaxDelay,
           p # None => w.age = OldWindow \/ p + w.age >= Window
    PROVE  Inv'
<1>1. request' \in [Requests -> Request \cup {None}]
  BY DEF Leave, Inv, TypeOK
<1>2. TypeOK'
  BY <1>1 DEF Inv, TypeOK
<1>3. CountedForItsClient'
  BY DEF Inv, TypeOK, CountedForItsClient, Leave
<1>4. ASSUME NEW j \in Keys PROVE KeyOK(j)'
  <2>1. CASE j = k
    BY <2>1, NothingIsNone DEF Inv, TypeOK, KeyOK
  <2>2. CASE j # k
    <3>1. /\ buckets'[j] = buckets[j] /\ seen'[j] = seen[j] /\ promise'[j] = promise[j]
      BY <2>2 DEF Inv, TypeOK
    <3> QED BY <3>1 DEF Inv, KeyOK
  <2> QED BY <2>1, <2>2
<1> QED BY <1>2, <1>3, <1>4 DEF Inv

LEMMA RequestTypes ==
    ASSUME Inv, NEW r \in Requests, request[r] # None
    PROVE  /\ request[r].key \in Keys /\ request[r].key[1] \in Routes
           /\ request[r].age \in 0 .. MaxDelay
           /\ seen[request[r].key] \in SeenWindow
           /\ buckets[request[r].key] # None => buckets[request[r].key] \in Bucket
<1>1. request[r] \in Request
  BY DEF Inv, TypeOK
<1>2. request[r].key \in Keys /\ request[r].age \in 0 .. MaxDelay
  BY <1>1 DEF Request
<1> QED BY <1>2 DEF Inv, TypeOK, Keys

LEMMA AllowFirstInv ==
    ASSUME Inv, NEW r \in Requests, AllowFirst(r)
    PROVE  Inv'
<1> DEFINE k == request[r].key
           s == request[r].age
           b == [count |-> 1, age |-> s, idle |-> s]
           w == [count |-> 1, age |-> s]
<1>1. /\ request[r] # None /\ Leave(r) /\ UNCHANGED evictor
      /\ buckets' = [buckets EXCEPT ![k] = b]
      /\ seen' = [seen EXCEPT ![k] = w]
      /\ promise' = [promise EXCEPT ![k] = None]
      /\ answer' = [answer EXCEPT ![k] = "yes"]
  BY DEF AllowFirst
<1>2. k \in Keys /\ s \in 0 .. MaxDelay
  BY <1>1, RequestTypes
<1>3. b \in Bucket /\ w \in SeenWindow
  BY <1>2, Sizes DEF Bucket, SeenWindow
<1>5. b.idle <= b.age + MaxDelay
  BY <1>2, Sizes
<1>6. w.age = b.age /\ w.count = b.count
  OBVIOUS
<1> HIDE DEF k, s, b, w
<1>7. k = request[r].key
  BY DEF k
<1> QED BY <1>1, <1>2, <1>3, <1>5, <1>6, <1>7, DecideInv

LEMMA AllowMoreInv ==
    ASSUME Inv, NEW r \in Requests, AllowMore(r)
    PROVE  Inv'
<1> DEFINE k == request[r].key
           s == request[r].age
           b == [buckets[k] EXCEPT !.count = @ + 1, !.idle = s]
           w == [seen[k] EXCEPT !.count = @ + 1]
<1>1. /\ request[r] # None /\ Leave(r) /\ UNCHANGED <<evictor, promise>>
      /\ buckets[k] # None
      /\ buckets' = [buckets EXCEPT ![k] = b]
      /\ seen' = [seen EXCEPT ![k] = w]
      /\ answer' = [answer EXCEPT ![k] = "yes"]
  BY DEF AllowMore, InWindow
<1>2. /\ k \in Keys /\ s \in 0 .. MaxDelay
      /\ buckets[k] \in Bucket /\ seen[k] \in SeenWindow
  BY <1>1, RequestTypes
<1>3. /\ b \in Bucket /\ w \in SeenWindow
      /\ b.age = buckets[k].age /\ b.count = buckets[k].count + 1 /\ b.idle = s
      /\ w.age = seen[k].age /\ w.count = seen[k].count + 1
  <2>1. s \in 0 .. LongIdle
    BY <1>2, Sizes
  <2> HIDE DEF k, s
  <2>2. /\ b \in Bucket /\ b.age = buckets[k].age
        /\ b.count = buckets[k].count + 1 /\ b.idle = s
    <3> DEFINE n == buckets[k].count + 1
    <3>1. n \in Nat /\ b = [buckets[k] EXCEPT !.count = n, !.idle = s]
      BY <1>2 DEF Bucket
    <3> HIDE DEF n, b
    <3>2. b \in Bucket /\ b.age = buckets[k].age /\ b.count = n /\ b.idle = s
      BY <1>2, <2>1, <3>1 DEF Bucket
    <3> QED BY <3>2 DEF n
  <2>3. w \in SeenWindow /\ w.age = seen[k].age /\ w.count = seen[k].count + 1
    BY <1>2 DEF SeenWindow
  <2> QED BY <2>2, <2>3
<1>5. b.idle <= b.age + MaxDelay
  <2>1. buckets[k].age \in Nat /\ s \in Int /\ s <= MaxDelay
    BY <1>2, Sizes DEF Bucket
  <2> HIDE DEF b, s
  <2> QED BY <1>3, <2>1, Sizes
<1>6. KeyOK(k)
  BY <1>2 DEF Inv
<1>7. w.age = b.age /\ w.count = b.count
  BY <1>1, <1>3, <1>6 DEF KeyOK
<1>8. /\ promise[k] \in Int \cup {None} /\ promise' = [promise EXCEPT ![k] = promise[k]]
      /\ promise[k] # None => w.age = OldWindow \/ promise[k] + w.age >= Window
  BY <1>1, <1>2, <1>3, <1>6 DEF Inv, TypeOK, KeyOK
<1> DEFINE p == promise[k]
<1> HIDE DEF k, s, b, w, p
<1>9. /\ k = request[r].key /\ evictor' = evictor
      /\ request[r] # None /\ Leave(r) /\ buckets' = [buckets EXCEPT ![k] = b]
      /\ seen' = [seen EXCEPT ![k] = w] /\ answer' = [answer EXCEPT ![k] = "yes"]
      /\ k \in Keys /\ b \in Bucket /\ w \in SeenWindow
  BY <1>1, <1>2, <1>3 DEF k
<1>10. /\ p \in Int \cup {None} /\ promise' = [promise EXCEPT ![k] = p]
       /\ p # None => w.age = OldWindow \/ p + w.age >= Window
  BY <1>8 DEF p
<1> QED BY <1>5, <1>7, <1>9, <1>10, DecideInv

LEMMA RefuseInv ==
    ASSUME Inv, NEW r \in Requests, Refuse(r)
    PROVE  Inv'
<1> DEFINE k == request[r].key
           s == request[r].age
           told == RetryAfter(Window - Elapsed(r)) * Second
           b == [buckets[k] EXCEPT !.idle = s]
           p == IF promise[k] # None /\ promise[k] < told - s THEN promise[k] ELSE told - s
<1>1. /\ request[r] # None /\ Leave(r) /\ UNCHANGED <<evictor, seen>>
      /\ InWindow(r)
      /\ buckets' = [buckets EXCEPT ![k] = b]
      /\ promise' = [promise EXCEPT ![k] = p]
      /\ answer' = [answer EXCEPT ![k] = "no"]
  BY DEF Refuse
<1>2. /\ k \in Keys /\ s \in 0 .. MaxDelay
      /\ buckets[k] \in Bucket /\ seen[k] \in SeenWindow /\ buckets[k] # None
  BY <1>1, RequestTypes DEF InWindow
<1>3. /\ b \in Bucket /\ b.idle = s
      /\ b.age = buckets[k].age /\ b.count = buckets[k].count
  BY <1>2, Sizes DEF Bucket
<1>4. KeyOK(k)
  BY <1>2 DEF Inv
<1>5. seen[k].age = b.age /\ seen[k].count = b.count
  BY <1>2, <1>3, <1>4 DEF KeyOK
<1>6. /\ told >= Window - (buckets[k].age - s) /\ told \in Int
      /\ buckets[k].age \in Int /\ s \in Int
  <2>1. Elapsed(r) = buckets[k].age - s /\ Elapsed(r) < Window /\ Elapsed(r) \in Int
    BY <1>1, <1>2, Sizes DEF Elapsed, InWindow, Bucket
  <2>2. Window - Elapsed(r) \in Int /\ Window - Elapsed(r) > 0
    BY <2>1, Sizes
  <2>3. /\ told >= Window - Elapsed(r)
        /\ RetryAfter(Window - Elapsed(r)) \in Nat /\ Second \in Nat
    BY <2>2, SecondsCover, SizesAreNaturals
  <2>4. told \in Int
    BY <2>3
  <2> HIDE DEF told
  <2> QED BY <1>2, <2>1, <2>3, <2>4, Sizes DEF Bucket
<1> HIDE DEF told
<1>7. p \in Int \cup {None} /\ (p # None => seen[k].age = OldWindow \/ p + seen[k].age >= Window)
  <2>1. promise[k] \in Int \cup {None}
    BY <1>2 DEF Inv, TypeOK
  <2>2. promise[k] # None => seen[k].age = OldWindow \/ promise[k] + seen[k].age >= Window
    BY <1>4 DEF KeyOK
  <2>3. told - s + seen[k].age >= Window /\ told - s \in Int
    BY <1>3, <1>5, <1>6, Sizes
  <2> HIDE DEF k, s
  <2> QED BY <2>1, <2>2, <2>3
<1>8. b.idle <= b.age + MaxDelay
  BY <1>2, <1>3, Sizes DEF Bucket
<1>9. seen' = [seen EXCEPT ![k] = seen[k]]
  BY <1>1 DEF Inv, TypeOK
<1> HIDE DEF k, s, b, p
<1>10. k = request[r].key
  BY DEF k
<1> QED BY <1>1, <1>2, <1>3, <1>5, <1>7, <1>8, <1>9, <1>10, DecideInv

\* A bucket that is evicted has an old window: KeyOK bounds its idle time.
LEMMA EvictInv ==
    ASSUME Inv, NEW lag \in 0 .. MaxDelay, Evict(lag)
    PROVE  Inv'
<1>1. /\ UNCHANGED <<evictor, request, seen, promise, answer>>
      /\ \A k \in Keys : \/ buckets'[k] = buckets[k]
                         \/ /\ buckets[k] # None /\ buckets[k].idle - lag > EvictAfter
                            /\ buckets'[k] = None
  BY DEF Evict
<1>2. buckets' \in [Keys -> Bucket \cup {None}]
  BY DEF Evict, Inv, TypeOK
<1>3. TypeOK'
  BY <1>1, <1>2 DEF Inv, TypeOK
<1>4. CountedForItsClient'
  BY <1>1 DEF Inv, CountedForItsClient
<1>5. ASSUME NEW k \in Keys PROVE KeyOK(k)'
  <2>1. CASE buckets'[k] = buckets[k]
    BY <1>1, <2>1 DEF Inv, KeyOK
  <2>2. CASE buckets[k] # None /\ buckets[k].idle - lag > EvictAfter /\ buckets'[k] = None
    <3>1. buckets[k] \in Bucket /\ seen[k] \in SeenWindow
      BY <2>2 DEF Inv, TypeOK
    <3>2. seen[k].age = OldWindow
      BY <2>2, <3>1, Sizes DEF Inv, KeyOK, Bucket, SeenWindow
    <3> QED BY <1>1, <2>2, <3>2 DEF Inv, KeyOK
  <2> QED BY <1>1, <2>1, <2>2
<1> QED BY <1>3, <1>4, <1>5 DEF Inv

LEMMA TickInv ==
    ASSUME Inv, Tick
    PROVE  Inv'
<1>1. ASSUME NEW k \in Keys
      PROVE  /\ buckets[k] = None => buckets'[k] = None
             /\ buckets[k] # None =>
                    /\ buckets'[k] \in Bucket
                    /\ buckets'[k].count = buckets[k].count
                    /\ buckets'[k].age = Older(buckets[k].age, OldWindow)
                    /\ buckets'[k].idle = Older(buckets[k].idle, LongIdle)
  <2>1. CASE buckets[k] = None
    BY <2>1 DEF Tick
  <2>2. CASE buckets[k] # None
    <3>1. buckets[k] \in Bucket
      BY <2>2 DEF Inv, TypeOK
    <3>2. buckets'[k] = [buckets[k] EXCEPT !.age = Older(@, OldWindow), !.idle = Older(@, LongIdle)]
      BY <2>2 DEF Tick
    <3> DEFINE a == Older(buckets[k].age, OldWindow)
               i == Older(buckets[k].idle, LongIdle)
    <3>3. a \in 0 .. OldWindow
      BY <3>1, Sizes DEF Bucket, Older
    <3>4. i \in 0 .. LongIdle
      BY <3>1, Sizes DEF Bucket, Older
    <3>5. buckets'[k] = [buckets[k] EXCEPT !.age = a, !.idle = i]
      BY <3>2
    <3> HIDE DEF a, i
    <3>6. /\ buckets'[k] \in Bucket /\ buckets'[k].count = buckets[k].count
          /\ buckets'[k].age = a /\ buckets'[k].idle = i
      BY <3>1, <3>3, <3>4, <3>5 DEF Bucket
    <3> QED BY <2>2, <3>6 DEF a, i
  <2> QED BY <2>1, <2>2
<1>2. ASSUME NEW r \in Requests
      PROVE  /\ request'[r] \in Request \cup {None}
             /\ request'[r] # None => /\ request[r] # None
                                      /\ request'[r].key = request[r].key
                                      /\ request'[r].client = request[r].client
                                      /\ request'[r].id = request[r].id
                                      /\ request'[r].vouched = request[r].vouched
  <2>1. CASE request[r] = None
    BY <2>1 DEF Tick
  <2>2. CASE request[r] # None
    <3>1. request[r] \in Request /\ request[r].age < MaxDelay
      BY <2>2 DEF Inv, TypeOK, Tick
    <3>2. request'[r] = [request[r] EXCEPT !.age = @ + 1]
      BY <2>2 DEF Tick
    <3> QED BY <2>2, <3>1, <3>2, Sizes DEF Request
  <2> QED BY <2>1, <2>2
<1>3. ASSUME NEW k \in Keys
      PROVE  /\ seen'[k] \in SeenWindow /\ seen'[k].count = seen[k].count
             /\ seen'[k].age = Older(seen[k].age, OldWindow)
  <2>1. seen[k] \in SeenWindow
    BY DEF Inv, TypeOK
  <2>2. seen'[k] = [seen[k] EXCEPT !.age = Older(@, OldWindow)]
    BY DEF Tick
  <2> QED BY <2>1, <2>2, Sizes DEF SeenWindow, Older
<1>4. ASSUME NEW k \in Keys
      PROVE  /\ promise'[k] \in Int \cup {None}
             /\ \/ promise'[k] = promise[k] /\ (promise[k] = None \/ promise[k] <= -MaxDelay)
                \/ promise'[k] = promise[k] - 1 /\ promise[k] # None
  <2>1. promise[k] \in Int \cup {None}
    BY DEF Inv, TypeOK
  <2>2. CASE promise[k] = None \/ promise[k] <= -MaxDelay
    BY <2>1, <2>2 DEF Tick
  <2>3. CASE ~(promise[k] = None \/ promise[k] <= -MaxDelay)
    <3>1. promise'[k] = promise[k] - 1
      BY <2>3 DEF Tick
    <3> QED BY <2>1, <2>3, <3>1
  <2> QED BY <2>2, <2>3
<1>6. TypeOK'
  <2>1. buckets' \in [Keys -> Bucket \cup {None}]
    BY <1>1 DEF Tick
  <2>2. request' \in [Requests -> Request \cup {None}]
    BY <1>2 DEF Tick
  <2>3. seen' \in [Keys -> SeenWindow] /\ promise' \in [Keys -> Int \cup {None}]
    BY <1>3, <1>4 DEF Tick
  <2> QED BY <2>1, <2>2, <2>3 DEF Inv, TypeOK, Tick
<1>7. CountedForItsClient'
  BY <1>2 DEF Inv, CountedForItsClient
<1>8. ASSUME NEW k \in Keys PROVE KeyOK(k)'
  <2>1. KeyOK(k) /\ seen[k] \in SeenWindow /\ seen[k].age \in 0 .. OldWindow
    BY DEF Inv, TypeOK, SeenWindow
  <2>2. buckets'[k] = None => seen'[k].age = OldWindow
    <3> SUFFICES ASSUME buckets'[k] = None PROVE seen'[k].age = OldWindow
      OBVIOUS
    <3>1. buckets[k] = None
      BY <1>1, NothingIsNone
    <3> QED BY <1>3, <2>1, <3>1 DEF KeyOK, Older
  <2>3. ASSUME buckets'[k] # None
        PROVE  /\ seen'[k].age = buckets'[k].age /\ seen'[k].count = buckets'[k].count
               /\ seen'[k].age = OldWindow \/ buckets'[k].idle <= seen'[k].age + MaxDelay
    <3>1. buckets[k] # None /\ buckets[k] \in Bucket
      BY <1>1, <2>3 DEF Inv, TypeOK
    <3>2. buckets[k].idle \in Int
      BY <3>1, Sizes DEF Bucket
    <3> QED BY <1>1, <1>3, <2>1, <3>1, <3>2, Sizes DEF KeyOK, Older
  <2>4. ASSUME promise'[k] # None
        PROVE  seen'[k].age = OldWindow \/ promise'[k] + seen'[k].age >= Window
    <3>1. promise[k] # None
      BY <1>4, <2>4
    <3>2. promise[k] \in Int
      BY <3>1 DEF Inv, TypeOK
    <3> QED BY <1>3, <1>4, <2>1, <3>1, <3>2, Sizes DEF KeyOK, Older
  <2> QED BY <2>2, <2>3, <2>4 DEF KeyOK
<1> QED BY <1>6, <1>7, <1>8 DEF Inv

LEMMA NextInv == Inv /\ [Next]_vars => Inv'
<1> SUFFICES ASSUME Inv, [Next]_vars PROVE Inv'
  OBVIOUS
<1>1. CASE Close \/ UNCHANGED vars
  BY <1>1 DEF Close, vars, Inv, TypeOK, CountedForItsClient, KeyOK
<1> QED BY <1>1, AskInv, AllowFirstInv, AllowMoreInv, RefuseInv, EvictInv, TickInv
        DEF Next, Decide

LEMMA Invariance == Spec => []Inv
BY InitInv, NextInv, PTL DEF Spec

-----------------------------------------------------------------------------
(* The theorems.                                                           *)

\* Buckets, windows, promises and stamps keep their types (Limiter.Allow).
THEOREM TypeCorrect == Spec => []TypeOK
BY Invariance, PTL DEF Inv

\* Whatever is forged into X-Forwarded-For, in whatever lines, a request is counted
\* for its client, or at the token endpoint for the client id it presents, if its
\* chain of proxies vouches for the client: the first of them writes an address without
\* a port, and either no header was sent or some proxy joins the lines (ClientIP).
THEOREM ClientsAreCounted == Spec => []CountedForItsClient
BY Invariance, PTL DEF Inv

\* The sweeper never drops a window that a request under way would still have been
\* counted in (evictLoop).
THEOREM EvictionIsHarmless == Spec => []EvictionForgetsNothing
<1>1. Inv => EvictionForgetsNothing
  <2> SUFFICES ASSUME Inv, NEW r \in Requests, request[r] # None, buckets[request[r].key] = None
               PROVE  seen[request[r].key].age - request[r].age >= Window
    BY DEF EvictionForgetsNothing
  <2> DEFINE k == request[r].key
  <2>1. k \in Keys /\ request[r].age \in 0 .. MaxDelay
    BY RequestTypes
  <2>2. seen[k].age = OldWindow
    BY <2>1 DEF Inv, KeyOK
  <2> QED BY <2>1, <2>2, Sizes
<1> QED BY <1>1, Invariance, PTL

\* Who waits for Retry-After finds the window over (Allow).
THEOREM RetryAfterIsEnough == Spec => []RetryAfterSuffices
<1>1. Inv => RetryAfterSuffices
  <2> SUFFICES ASSUME Inv, NEW r \in Requests, request[r] # None,
                      promise[request[r].key] # None,
                      promise[request[r].key] + request[r].age <= 0,
                      buckets[request[r].key] # None
               PROVE  ~(Elapsed(r) < Window)
    BY DEF RetryAfterSuffices, InWindow
  <2> DEFINE k == request[r].key
             s == request[r].age
  <2>1. k \in Keys /\ s \in Int /\ s <= MaxDelay /\ seen[k] \in SeenWindow
    BY RequestTypes, Sizes
  <2>2. /\ seen[k].age = buckets[k].age
        /\ seen[k].age = OldWindow \/ promise[k] + seen[k].age >= Window
    BY <2>1 DEF Inv, KeyOK
  <2>3. promise[k] \in Int /\ seen[k].age \in Int
    BY <2>1, Sizes DEF Inv, TypeOK, SeenWindow
  <2>4. Elapsed(r) = seen[k].age - s /\ promise[k] + s <= 0
    BY <2>2 DEF Elapsed
  <2> HIDE DEF k, s
  <2> QED BY <2>1, <2>2, <2>3, <2>4, Sizes
<1> QED BY <1>1, Invariance, PTL

-----------------------------------------------------------------------------
(* The limiter implements the fixed windows.                               *)

counts == [k \in Keys |-> seen[k].count]
ages == [k \in Keys |-> seen[k].age]

\* A step that leaves the history of the windows alone, or lets a tick pass.
LEMMA WindowsElapse ==
    ASSUME Inv, \/ UNCHANGED seen
                \/ Tick
    PROVE  \A k \in Keys : FW!Elapse(k)
<1> SUFFICES ASSUME NEW k \in Keys PROVE FW!Elapse(k)
  OBVIOUS
<1>1. seen[k] \in SeenWindow
  BY DEF Inv, TypeOK
<1>2. CASE UNCHANGED seen
  BY <1>2 DEF FW!Elapse
<1>3. CASE Tick
  <2>1. seen'[k] = [seen[k] EXCEPT !.age = Older(@, OldWindow)]
    BY <1>3 DEF Tick
  <2>2. seen'[k].count = seen[k].count /\ seen'[k].age = Older(seen[k].age, OldWindow)
    BY <1>1, <2>1 DEF SeenWindow
  <2>3. seen[k].age \in 0 .. OldWindow
    BY <1>1 DEF SeenWindow
  <2>4. Older(seen[k].age, OldWindow) \in {seen[k].age, seen[k].age + 1}
    BY <2>3, Sizes DEF Older
  <2> QED BY <2>2, <2>4 DEF FW!Elapse
<1> QED BY <1>2, <1>3

\* A decision concerns one key.
LEMMA OthersElapse ==
    ASSUME Inv, NEW k \in Keys, NEW w, seen' = [seen EXCEPT ![k] = w]
    PROVE  /\ seen'[k] = w
           /\ \A j \in Keys \ {k} : FW!Elapse(j)
BY DEF Inv, TypeOK, FW!Elapse

\* A window is started Window after the one before it at least, whether the map
\* still holds that one or not.
LEMMA FirstStartsWindow ==
    ASSUME Inv, NEW r \in Requests, AllowFirst(r)
    PROVE  FW!Next
<1> DEFINE k == request[r].key
           s == request[r].age
           w == [count |-> 1, age |-> s]
<1>1. request[r] # None /\ ~InWindow(r) /\ seen' = [seen EXCEPT ![k] = w]
  BY DEF AllowFirst
<1>2. /\ k \in Keys /\ s \in 0 .. MaxDelay /\ seen[k] \in SeenWindow
      /\ buckets[k] # None => buckets[k] \in Bucket
  BY <1>1, RequestTypes
<1>3. KeyOK(k) /\ seen[k].age \in Int
  BY <1>2, Sizes DEF Inv, SeenWindow
<1>4. seen[k].age - s >= Window
  <2>1. CASE buckets[k] = None
    BY <1>2, <1>3, <2>1, Sizes DEF KeyOK
  <2>2. CASE buckets[k] # None
    <3>1. ~(seen[k].age - s < Window)
      BY <1>1, <1>3, <2>2 DEF KeyOK, InWindow, Elapsed
    <3> QED BY <1>2, <1>3, <3>1, Sizes
  <2> QED BY <2>1, <2>2
<1>5. s \in 0 .. seen[k].age - Window
  BY <1>2, <1>3, <1>4, Sizes
<1>6. w.count = 1 /\ w.age = s
  OBVIOUS
<1> HIDE DEF k, s, w
<1>7. seen'[k] = w /\ \A j \in Keys \ {k} : FW!Elapse(j)
  BY <1>1, <1>2, OthersElapse
<1>8. FW!StartWindow(k)
  BY <1>2, <1>5, <1>6, <1>7 DEF FW!StartWindow
<1>9. ASSUME NEW j \in Keys PROVE FW!Elapse(j) \/ FW!StartWindow(j) \/ FW!Admit(j)
  <2>1. CASE j = k
    BY <1>8, <2>1 DEF FW!StartWindow
  <2>2. CASE j # k
    BY <1>7, <2>2
  <2> QED BY <2>1, <2>2
<1> QED BY <1>9 DEF FW!Next

\* A request is counted in a window below its limit: the window in the map is the
\* last one that was started.
LEMMA MoreAdmits ==
    ASSUME Inv, NEW r \in Requests, AllowMore(r)
    PROVE  FW!Next
<1> DEFINE k == request[r].key
           w == [seen[k] EXCEPT !.count = @ + 1]
<1>1. /\ request[r] # None /\ buckets[k] # None /\ buckets[k].count < Limit[k[1]]
      /\ seen' = [seen EXCEPT ![k] = w]
  BY DEF AllowMore, InWindow
<1>2. k \in Keys /\ seen[k] \in SeenWindow
  BY <1>1, RequestTypes
<1>3. seen[k].count < Limit[k[1]]
  BY <1>1, <1>2 DEF Inv, KeyOK
<1>4. w.count = seen[k].count + 1 /\ w.age = seen[k].age
  BY <1>2 DEF SeenWindow
<1> HIDE DEF k, w
<1>5. seen'[k] = w /\ \A j \in Keys \ {k} : FW!Elapse(j)
  BY <1>1, <1>2, OthersElapse
<1>6. FW!Admit(k)
  BY <1>2, <1>3, <1>4, <1>5 DEF FW!Admit
<1>7. ASSUME NEW j \in Keys PROVE FW!Elapse(j) \/ FW!StartWindow(j) \/ FW!Admit(j)
  <2>1. CASE j = k
    BY <1>6, <2>1 DEF FW!Admit
  <2>2. CASE j # k
    BY <1>5, <2>2
  <2> QED BY <2>1, <2>2
<1> QED BY <1>7 DEF FW!Next

\* Every step of the limiter is one of the fixed windows, or changes none of them.
LEMMA StepIsFixedWindow ==
    ASSUME Inv, [Next]_vars
    PROVE  FW!Next
<1>1. CASE UNCHANGED seen \/ Tick
  BY <1>1, WindowsElapse DEF FW!Next
<1>2. CASE \E r \in Requests : AllowFirst(r)
  BY <1>2, FirstStartsWindow
<1>3. CASE \E r \in Requests : AllowMore(r)
  BY <1>3, MoreAdmits
<1>4. UNCHANGED seen \/ Tick \/ \E r \in Requests : AllowFirst(r) \/ AllowMore(r)
  BY DEF Next, Decide, Ask, Refuse, Evict, Close, vars
<1> QED BY <1>1, <1>2, <1>3, <1>4

\* Keys have fixed windows and keep their limit in each of them, for any number of
\* requests, clients, routes and proxies (Allow, evictLoop).
THEOREM LimiterIsFixedWindow == Spec => KeysHaveFixedWindows
<1>1. Init => FW!Init
  <2> SUFFICES ASSUME Init PROVE FW!Init
    OBVIOUS
  <2>1. \A k \in Keys : seen[k].count = 0 /\ seen[k].age = OldWindow
    BY DEF Init
  <2> QED BY <2>1, Sizes DEF FW!Init
<1>2. Inv /\ [Next]_vars => [FW!Next]_<<counts, ages>>
  BY StepIsFixedWindow
<1> QED BY <1>1, <1>2, Invariance, PTL DEF Spec, KeysHaveFixedWindows, FW!Spec, counts, ages

\* No key ever gets more requests through in one window than its route allows: what
\* is counted here is every request that Allow answered with yes since the window
\* started, also when the bucket was evicted meanwhile and when requests got the
\* lock in another order than that of their stamps (Allow, evictLoop).
THEOREM LimitIsKept == Spec => [](\A k \in Keys : seen[k].count <= Limit[k[1]])
<1> DEFINE Kept == \A k \in Keys : seen[k].count <= Limit[k[1]]
<1>1. \A k \in Keys : Limit[k[1]] \in Nat \ {0}
  BY SizesAreNaturals DEF Keys
<1>2. Init => Kept
  BY <1>1 DEF Init
<1>3. ASSUME Inv, Kept, [Next]_vars, NEW k \in Keys PROVE seen'[k].count <= Limit[k[1]]
  <2>1. FW!Elapse(k) \/ FW!StartWindow(k) \/ FW!Admit(k)
    BY <1>3, StepIsFixedWindow DEF FW!Next
  <2>2. seen[k].count \in Nat
    BY <1>3 DEF Inv, TypeOK, SeenWindow
  <2>3. CASE FW!Elapse(k)
    BY <1>3, <2>3 DEF FW!Elapse
  <2>4. CASE FW!StartWindow(k)
    BY <1>1, <2>4 DEF FW!StartWindow
  <2>5. CASE FW!Admit(k)
    BY <1>1, <2>2, <2>5 DEF FW!Admit
  <2> QED BY <2>1, <2>3, <2>4, <2>5
<1>4. Inv /\ Kept /\ [Next]_vars => Kept'
  BY <1>3
<1> QED BY <1>2, <1>4, Invariance, PTL DEF Spec
=============================================================================

----------------------------- MODULE SigningKeys -----------------------------
(***************************************************************************)
(* The key that signs id_tokens and its rotation (internal/crypto/         *)
(* signing.go): rotate-key adds a file to the key directory, the server    *)
(* reads the directory when it starts, and the operator removes the oldest *)
(* file once the tokens it signed are gone (cmd/rotate-key).               *)
(*                                                                         *)
(* A file stands for the key in it, and no name is used again: rotate-key  *)
(* run twice within a second would write the same name, and is not         *)
(* modelled.  Files are numbered in the order of their names.  Times are   *)
(* ages, counted up to the bound where nothing compares them any more.     *)
(***************************************************************************)
EXTENDS Integers, FiniteSets, FiniteSetsExt

CONSTANTS
    Files,     \* names of key files, numbered in their order
    Tokens,    \* id_tokens
    TokenTTL,  \* longest life of an id_token (id_token_ttl of the clients)
    Wait,      \* how long the operator waits before deleting an old key
    None

Token == [key : Files, age : 0 .. TokenTTL - 1]
Loaded == [primary : Files, retiring : SUBSET Files]

ASSUME FilesAreOrdered == Files \subseteq Nat /\ IsFiniteSet(Files)
ASSUME TimesAreNaturals == TokenTTL \in Nat \ {0} /\ Wait \in Nat
ASSUME NoneIsNoKey == None \notin Token \cup Loaded

VARIABLES
    dir,     \* the files of the key directory: "absent" yet, a "key", "unreadable", "deleted"
    loaded,  \* the KeyManager; None: the server is down
    uptime,  \* time since the server started, counted up to Wait
    token    \* the id_tokens that have not expired

keyVars == <<dir, loaded, uptime, token>>

KeysTypeOK ==
    /\ dir \in [Files -> {"absent", "key", "unreadable", "deleted"}]
    /\ loaded \in Loaded \cup {None}
    /\ uptime \in 0 .. Wait
    /\ token \in [Tokens -> Token \cup {None}]

KeysInit ==
    /\ dir \in [Files -> {"absent", "key", "unreadable"}]
    /\ loaded = None
    /\ uptime = 0
    /\ token = [t \in Tokens |-> None]

Present == {f \in Files : dir[f] \in {"key", "unreadable"}}
Usable == {f \in Files : dir[f] = "key"}

\* The keys of /.well-known/jwks.json.
JWKS == IF loaded = None THEN {} ELSE {loaded.primary} \cup loaded.retiring

-----------------------------------------------------------------------------

\* Mutation: the server starts without a key.
StartAnyway ==
    /\ loaded = None
    /\ loaded' = IF Usable = {} THEN [primary |-> None, retiring |-> {}]
                 ELSE [primary |-> Max(Usable), retiring |-> Usable \ {Max(Usable)}]
    /\ uptime' = 0
    /\ UNCHANGED <<dir, token>>

\* Mutation: only the key that signs is published.
StartWithOneKey ==
    /\ loaded = None /\ Usable # {}
    /\ loaded' = [primary |-> Max(Usable), retiring |-> {}]
    /\ uptime' = 0
    /\ UNCHANGED <<dir, token>>

\* loadFromDir: the last usable file in the order of names signs, files that do
\* not parse are skipped, and without any the server does not start.
Start ==
    /\ loaded = None /\ Usable # {}
    /\ loaded' = [primary |-> Max(Usable), retiring |-> Usable \ {Max(Usable)}]
    /\ uptime' = 0
    /\ UNCHANGED <<dir, token>>

Stop ==
    /\ loaded # None /\ loaded' = None
    /\ UNCHANGED <<dir, uptime, token>>

Sign(t) ==
    /\ loaded # None /\ token[t] = None
    /\ token' = [token EXCEPT ![t] = [key |-> loaded.primary, age |-> 0]]
    /\ UNCHANGED <<dir, loaded, uptime>>

\* A token of a client with a shorter id_token_ttl.
ExpireEarly(t) ==
    /\ token[t] # None
    /\ token' = [token EXCEPT ![t] = None]
    /\ UNCHANGED <<dir, loaded, uptime>>

\* rotate-key names the new file after the current time, so that it sorts behind its
\* earlier ones; but a key may also be moved in under a name of its own, as its hints
\* tell (signing.pem sorts behind every timestamp): the new file comes anywhere in
\* the order.  The temporary file it is written to is no *.pem, so that the loader
\* never sees half a key.
Rotate(f) ==
    /\ dir[f] = "absent"
    /\ dir' = [dir EXCEPT ![f] = "key"]
    /\ UNCHANGED <<loaded, uptime, token>>

\* The operator deletes the oldest file, a while after the restart that made
\* another key the primary.
DeleteOldest(f) ==
    /\ loaded # None /\ uptime = Wait
    /\ f \in Present /\ f < loaded.primary
    /\ \A g \in Present : f <= g
    /\ dir' = [dir EXCEPT ![f] = "deleted"]
    /\ UNCHANGED <<loaded, uptime, token>>

\* Tokens that reach the end of their life are forgotten.
KeysTick ==
    /\ uptime' = IF uptime < Wait THEN uptime + 1 ELSE Wait
    /\ token' = [t \in Tokens |->
           IF token[t] = None \/ token[t].age + 1 = TokenTTL THEN None
           ELSE [token[t] EXCEPT !.age = @ + 1]]
    /\ UNCHANGED <<dir, loaded>>

KeysStep ==
    \/ Start \/ Stop
    \/ \E t \in Tokens : Sign(t) \/ ExpireEarly(t)
    \/ \E f \in Files : Rotate(f) \/ DeleteOldest(f)

KeysSpec == KeysInit /\ [][KeysStep \/ KeysTick]_keyVars

-----------------------------------------------------------------------------

\* While the server runs, every id_token that has not expired can be verified
\* with the keys it publishes: across rotations, restarts and deletions
\* (loadFromDir, JWKS).  It takes an operator who waits for TokenTTL.
TokensStayVerifiable ==
    \A t \in Tokens : token[t] # None /\ loaded # None => token[t].key \in JWKS
=============================================================================

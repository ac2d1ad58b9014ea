# Luso IAM: verification project

Luso IAM is an identity server: a Go program in front of PostgreSQL that logs
users in with a password, a second factor or an external identity provider, and
vouches for them to applications through CAS and through OAuth2 / OpenID
Connect. This directory holds TLA+ modules translated from its source, the TLC
configurations that check them on small instances, and proofs of their main
properties, checked by TLAPS for every instance.

Paths below are relative to the repository's root.

## 1. Inventory

All durable state is in PostgreSQL (`internal/store/postgres`, schema in
`internal/store/migrations`). HTTP handlers (`internal/api`) call services
(`internal/auth`, `internal/oidc`), which call store functions; nearly every
store function is one SQL statement and no handler opens a transaction. So the
unit of atomicity is the statement, handlers interleave between statements, and
what a handler has read may be stale when it writes. Several server processes
may share the database.

| Component | State | Operations | What makes it correct |
|---|---|---|---|
| OAuth2 / OIDC token service (`internal/oidc`, `internal/api/oidc`) | `oidc_clients`, `oidc_auth_codes`, `oidc_access_tokens`, `oidc_refresh_tokens` | authorize and consent, token (code, refresh, client credentials), revoke, introspect, userinfo | a grant has one holder; codes and refresh tokens are spent once; revocation is final; PKCE cannot be skipped; tokens stay with client, user and scopes |
| CAS tickets (`internal/auth/cas`, `internal/api/cas`) | `cas_services`, `cas_tickets` | login with a service, logout, validate, serviceValidate, p3 | a ticket is accepted once, for its URL, while its session lives; attributes follow the service's policy |
| Password login (`internal/auth/password`) | `user_credentials` | Authenticate, recordFailure | the lock-out bounds guessing; disabled users stay out |
| Password reset (`internal/auth/passwordreset`) | `password_reset_tokens` | Request, Verify, Reset | a link works once; old sessions end |
| Sessions (`internal/auth/session`) | `sessions` | Create, Get, Destroy, revoke all, sweep | a revoked or expired session is never used again |
| Administration (`internal/api/admin`) | `users`, `oidc_clients`, `cas_services` | list, create, edit, lock, unlock, delete, reset, revoke | locks and deletions end access; an administrator remains |
| Multi-factor (`internal/auth/mfa`, `internal/api/mfa`, `internal/api/admin/mfa.go`) | `user_mfa_methods`, `user_backup_codes`, a signed challenge cookie | enrol, confirm, remove, challenge, verify TOTP / WebAuthn / backup code | no session without the factor; a backup code works once |
| Signup and verification (`internal/auth/signup`) | `users`, `email_verification_tokens` | Register, Verify | an address has one account; it is marked verified only when it was |
| Federation (`internal/auth/federation`) | `user_identities`, a state cookie | start, callback (`LinkOrCreate`), unlink | a provider account is one user, who has a right to it; a user keeps a way in |
| Forward-auth proxy (`internal/api/proxy`) | none | verify | follows sessions and tokens |
| Administrators (`internal/api/admin/handler.go`, `users.go`, `cmd/seed-user`) | `users.is_admin`, `users.status` | the check in front of the admin API, the guards against hurting oneself, promotion | an administrator remains |
| Rate limiter (`internal/middleware/ratelimit.go`, `perRouteLimit` in `cmd/server/main.go`) | per key a counter, the start of its window and its last use, in memory; a goroutine that evicts idle keys | Allow, evict, Close; the key is a client id or what `ClientIP` finds in X-Forwarded-For | a key gets no more than its limit in a window, an eviction gives it no second one; a forged header gives no second key where the proxies join its lines and write bare addresses (the token endpoint counts by a client id that is not authenticated yet) |
| Keys (`internal/crypto/signing.go`, `jwt.go`, `cmd/rotate-key`) | key files, the `KeyManager` in memory, the `JWKSCache` of a relying party | load, sign, rotate, delete, look up, refresh | a token can be verified for as long as it lives, and a withdrawn key is forgotten |
| Clean-up goroutine (`cmd/server/main.go`) | the tables above | one DELETE per table and the audit partitions, every 30 minutes, under one two-minute deadline | nothing stops it for good; it deletes nothing that still counts |
| Audit (`internal/audit`, `audit_partitions.go`, `cmd/audit-prune`) | monthly partitions of `audit_log`, and a default one | Log, ensure partitions, prune | best effort: nothing waits for it; what is recent stays |
| Other command-line tools (`cmd/migrate`) | the schema | run once by an operator | not modelled |
| Mail, configuration, static pages, other middleware | – | – | not modelled |

How they interact: sessions are shared by all logins and read by CAS, OIDC and
the proxy; a CAS ticket and an authorization code reference a session row and
are deleted with it, an access or refresh token survives with `session_id`
NULL; users are soft-deleted, which foreign keys do not see; clients and
services are edited while requests that have read them are in flight.

What is hard: two requests spending one credential; a row read in one statement
and acted upon in a later one; a crash, a disconnect or a failing statement in
the middle of a handler (nothing is rolled back); the order of "change" and
"revoke"; counters and locks read long before they are written; a clock read
before a lock is taken; two caches in a row, filled while keys are rotated; the
sweeps, and what a sweep that fails half way leaves for the next.
`PROJECT.json` lists each hazard with its line and the properties that cover it.

## 2. Modules

| Module | What it is |
|---|---|
| `OIDCTokens` | authorization, token endpoint, revocation, sessions, clean-up: one action per statement |
| `GrantCustody` | abstract: who may continue a grant; `OIDCTokens` implements it |
| `MCOIDCTokens`, `OIDCTokenClaims` | instances for TLC; what a document promises and the code does not do |
| `OIDCTokens_proofs` | proofs, the refinement of `GrantCustody` among them |
| `AccountAccess` | one account: password login, lock-out, second-factor gate, reset links, administrator's handlers |
| `MCAccountAccess`, `AccountAccess_proofs` | likewise |
| `CASTickets` | tickets: issue, validate, sweep, the service registry |
| `MCCASTickets`, `CASTickets_proofs` | likewise, the refinement of `OneTimeCredential` among the proofs |
| `OneTimeCredential` | abstract: what may be used once; `CASTickets` and `SecondFactor` implement it |
| `SecondFactor` | one user's second factors: the gate of a login, challenges, enrolment, backup codes, removal |
| `MCSecondFactor`, `SecondFactor_proofs` | likewise, the refinement of `OneTimeCredential` among the proofs |
| `Identities` | accounts, addresses and provider accounts: signup, confirmation, first login through a provider, the administrator's edits and unlinks |
| `MCIdentities`, `Identities_proofs` | likewise |
| `Administrators` | who may use the admin API, and what overlapping calls of it do to the last administrator |
| `MCAdministrators` | likewise |
| `RateLimiter` | the limiter's keys, windows, lock and evictor |
| `FixedWindow` | abstract: a counter per key and window; `RateLimiter` implements it |
| `MCRateLimiter`, `RateLimiter_proofs` | likewise, the refinement proved |
| `SigningKeys` | the key directory, the server that loads it, the operator who rotates |
| `JWKSCache` | composed with `SigningKeys`: a relying party's cache of the keys that are published |
| `MCJWKSCache`, `JWKSCache_proofs` | likewise |
| `Housekeeping` | sweeps under a deadline, partitions of the audit log, crash and restart |
| `MCHousekeeping`, `HousekeepingClaims` | likewise |
| `Operations_proofs` | proofs about `Administrators` and `Housekeeping` |

Conventions. A row that was inserted is never forgotten: deletion is a value of
its `status`, so properties can speak of rows that are gone. Identifiers are
random in the code and fresh in the model. What a handler has read lives in its
record (`req`, `authz`, `login`, `change`, `issue`, `validation`). Every handler
can be abandoned between statements: that action stands for error answers,
disconnects and crashes. Where only the order of events matters, time is a step
that may happen at any moment (a row expires, a lock lapses), which covers every
choice of lifetimes. Where durations are compared with each other (`RateLimiter`,
`SigningKeys`, `JWKSCache`), times are ages, a `Tick` makes everything older at
once, and an age stops at the value beyond which nothing compares it. Operators
marked "Mutation" are plausible bugs used to show that each property can fail;
no specification uses them.

### OIDCTokens

`ValidateAuthRequest` and `ValidateRedirectURI` (two queries), `LoadSession` and
`InsertCode` are GET /oauth2/authorize. Where consent is asked for, it ends with a
page; what the form then posts is a request of its own, `AllowConsent`, with any
client, redirect URI, scopes and challenge, since the handler validates none of them
again. What tokens may do is therefore related to the code's row, not to what the
client is allowed. `ExchangeCode`, `RefreshGrant`,
`ClientCredentials` begin a token request with the client's settings as read by
`authenticateClient`; `ConsumeCode` is the UPDATE ... RETURNING and the checks
that follow it; `GetRefreshToken`, `LoadUser`, `RotateRefreshToken`,
`InsertAccessToken`, `InsertRefreshToken` are the statements of RefreshTokens
and issueTokensWithRotation in their order. `Revoke` is the revocation endpoint
with each hint. `SweepSessions` carries the foreign keys' effect: codes go,
tokens lose their session. `grant` and `origin` record which code and which
token a row stems from; the first is history, the second is `previous_id`.

`GrantCustody` knows only that a grant is held by a code, a request in flight,
a refresh token, or nobody, and that it is handed from one to the next.
`GrantIsHandedOver` states that OIDCTokens implements it under the refinement
mapping defined at the end of that module.

### AccountAccess

No statement of these handlers touches another user's rows, so the module has
one account. A login is `FindUser`, `ReadCredential` (the row, the lock check
and the hash on one snapshot), then either `CountFailure` and `SetLockout`, or
`ZeroFailures`, `MFAGate` and `CreateSession`. A handler that changes the
account is a list of statements still to run (`todo`), in the code's order:
`Reset`, `ResetUserPassword`, `LockUser`, `UnlockUser`, `DeleteUser` and
`RevokeUserSessions` open one of the lists `ResetStatements`,
`AdminResetStatements`, `LockStatements`, `UnlockStatements`, `DeleteStatements`
and <<"revoke">>; `RunUpsert`, `RunDisable`, `RunEnable`, `RunZero`,
`RunRevoke`, `RunMark` and `RunPurge` run the statements, and interleave with
logins and with other handlers. `SkipStatement` is an ignored or logged error.
`cred.version` numbers the password hashes; `guesses`, `lost`, `purged`, `barred` and a record's `version`, `overtaken` and `revoked` are
history.

### CASTickets

`ResolveService` and `IssueServiceTicket` are the two statements of a login
with a service; `ConsumeTicket`, `CheckSession`, `CheckUser`, `Answer` are
Validate and the p3 answer. `Normalize` is a constant: any idempotent function
on URLs. `Covers` and `PatternLength` stand for LIKE and the ORDER BY, which
does not break ties; which pattern a service has is a column, and edited like the
others.

`OneTimeCredential` says what a ticket promises: it is issued, one taker at most
gets it, that taker opens one thing with it or loses it, and whatever was taken
or has lapsed is never valid again. `TicketsAreOneTime` states that CASTickets
implements it; the taker and what it opens are both the validation (`Holder`,
`OpenedBy`).

### SecondFactor

`BeginLogin`, `IssueChallenge`, `PassGate` and `CreateSession` are the gate as
both logins have it: `Challenged` is the condition, which differs between
`loginPOST` and the callback of an identity provider. An answer to a challenge
is `ReadChallenge`, then `VerifyTOTP`, `FinishWebAuthnLogin` or the two steps
`ListUnusedBackupCodes` and `MarkBackupCodeUsed` with the slow comparison
between them, then `FinishChallenge`. A challenge is a cookie the server does
not remember, so it can be answered again until it expires. `GenerateBackupCodes`
and `DeleteAllUserMFA` share the record `change`: the loop over the methods
(`DeleteListed`, `SkipListed` for an error, which is ignored), then the one
transaction of this program, `DeleteOldCodes` with the snapshot its DELETE sees
under READ COMMITTED, and `CommitCodes`. `cleared`, `guarded`, `listed` and
`whole` are history.

`BackupCodesAreOneTime` states that the backup codes implement the same
`OneTimeCredential` as CAS tickets: the taker is the request that marked the row,
what it opens is a session. A new set is issued, and the old one goes, in the one
step `CommitCodes`; a code that was marked between the snapshot of the DELETE and
the COMMIT stays with its request.

### Identities

`flow` holds the handlers that may create an account: `Register`, `createUser`
(`AdminCreate`) and `LinkOrCreate` (`SignInUnknown`). All look an address up
first (`Register`, `AdminCreate`, `LookUpAddress`) and share `CreateUser`, the
insert that the unique index guards (`MayHold`). Then signup goes on with
`StoreCredential`, `CreateEmailVerificationToken` and `SendMail`; an
administrator's with `StoreCredential` and `SetFlags`, or `CredentialFails` and
`Undo`; a provider's with `CreateIdentity`. A login whose verified address has
an account takes `AutoLink` or `AutoLinkFails`. `AbandonFlow` is every other
error, the refusal by a unique index among them, and leaves behind what was
inserted. `verify` is Verify: the token's row (`Verify`), the account and the
comparison of addresses (`GetUserByID`), and three statements. `unlink` is
`unlinkUserFederation` with its three reads and its DELETE. PATCH, the deletion
and the new password are one statement each; `SetPassword` may hit an account
deleted since the handler read it.

`password` stands for the row of `user_credentials`. `citext` makes addresses
model values. Left out: the status and the sessions of an account
(AccountAccess has them), usernames, the cached profile of a link. `home`,
`stranded`, a user's `held`, `born`, `checked`, `moved` and a link's `proof`
are history. The first read of a handler is merged with its start, where
nothing but the read happens.

What the properties exempt, because the code does it: a login that goes ahead
although its link could not be stored adds nothing to `home` (`AutoLinkFails`);
an account whose creation broke off is `stranded` until somebody gives it a way
in; an address edited after it was marked verified, or between a check and the
mark that follows, is `moved`, because PATCH leaves `email_verified_at` alone.

### Administrators

`Receive` and `LoadActor` are the two reads of `protected`; the rights they saw
are not looked at again. `HurtsItself` is the four guards of the handlers, which
compare the caller with the target. `UpdateUser` is the statement of PATCH, lock
and unlock, `DeleteUser` that of a deletion, and `RevokeSessions` what follows
the latter and a lock; `InsertUser`, `UndoInsert` and `SetFlags` are createUser;
`SeedUser` and `Promote` are the tool that makes the first administrator.
`EndCall` is every refusal and failure.

Two administrators can remove each other: each call passes the check before the
other's statement runs. `overtaken` marks that a call took somebody's rights
although its own caller had just lost its own; the property exempts it, and says
that there is no other way to be left without an administrator.

### RateLimiter

A request is `Ask`: the key is computed as the code does it, from the route, the
OAuth2 client id if the token endpoint is asked (`LimitKey`), and the address
`ClientIP` finds when it walks X-Forwarded-For from the right past our proxies
and past entries that are no addresses. `Ask` also reads the clock. The rest
happens under the mutex, later and in any order: `AllowFirst` (no bucket or a
window that is over), `AllowMore`, `Refuse`. `Evict(lag)` is one round of the
goroutine, with the tick it received `lag` old; `Close` ends it.

X-Forwarded-For may come in several lines, and `Header.Get` returns the first
(`FirstLine`). A client sends no header, or a first line and more (`Header`). A proxy
(`Hop`, external) joins the lines it receives and appends to them, or adds a line of
its own; and it writes a bare address or `ip:port`, which `net.ParseIP` does not
read. So there are chains through which a client chooses its key: a first proxy that
writes ports, or no proxy that joins, with a header the client has sent. `Vouched`
says which chains are not of that kind, and `CountedForItsClient` promises its key to
requests that come through those; without that condition the same run finds the
property violated. A proxy that overwrites the header is one that received none. At
the token endpoint the key is a client id that nobody has authenticated yet: the
property says that it is the id that was presented, and no more.

Windows and stamps are ages, and the code's `now.Sub(windowStart)` is the
difference of two ages (`Elapsed`), negative when requests overtake each other.
The bound `MaxDelay` is the longest wait for the mutex. `seen`, `promise` and
`answer` are history: the last window of a key whether its bucket was evicted or
not, the earliest end of a Retry-After told in it, the last answer.

`FixedWindow` has a counter and an age for each key; `KeysHaveFixedWindows` says
that the limiter implements it with `seen` for its state: evictions and the order
of the lock change nothing. A fixed window lets through up to twice its limit
around the seam of two windows, which both modules allow, as the code does.

### SigningKeys and JWKSCache

The directory holds keys, and files that do not parse (`dir`). `Start` loads it:
the last usable name signs, the others are still published. `Rotate` adds a file,
anywhere in the order of names: rotate-key's own names sort last, those of a key moved
in by hand need not. `DeleteOldest` is the operator who waited for `Wait` since the
last restart; no name is used twice.
`JWKSCache` adds a relying party: `GetKey` (a miss on the fast path),
`FetchAnswered` (by the server, or by a copy on the way that is younger than the
`max-age` the endpoint sends), `FetchMisled` or `FetchFails`, `Store` under the write
lock, `ReadAgain`. Lookups overlap between those steps, so that an older answer may
replace a newer one. `FetchMisled` is an error answer with a JSON body, from the
provider or whatever is in front of it: `refresh` does not look at the status, the
body decodes to no keys, and `Store` empties the cache with it. `FetchTime` bounds a
lookup. `unserved` and `served` are history: since when a key is not, or is,
published; so is `misled`: an empty answer was stored by the lookup, or by another
after the lookup had stored its own.
`PublishedKeysAreFound` allows a key that has long been published to be missed in that
case only, and only while the cache is empty; the lookups that come after it ask again.

A server whose `id_token_ttl` exceeds the wait strands tokens: the hypothesis
`Wait >= TokenTTL` of `TokensAreVerifiable` is what the operator has to keep.

### Housekeeping

A sweep (`StartSweep`) goes through `SweepOrder`; `DeleteExpired` is the DELETE of
the table it is at, `DeleteFails` an error, after which the token tables are
skipped together (`AfterError`: they share one function that returns at the
first error) and any other table alone. `TimeOut` is the deadline all statements
of a sweep share. Its last part, like the start of the server, ensures the
partitions of the audit log (`SweepPartitions`, `Start`, `CreatePartition`,
`EnsureFails`); at the start a failure ends the process. `LogEvent` is any
handler's event, `ListPartitions`, `DropPartition`, `EndPrune` are audit-prune (any
month may be its cut-off, also one that has not come; `PartitionsStayAhead` then waits
until it has), `NextMonth` the calendar, and `Crash` may come in the middle of all of it.

What PostgreSQL does is external and taken from its documentation and the use
the code makes of it: an event without a partition of its month goes to the
default one (`overflow`), and a partition is refused while the default one holds
rows of its month (`Refused`). `ensured`, `logged` and `cutoff` are history.

## 3. Runs

| Run | Shows | Bounds |
|---|---|---|
| `rotation` | one holder per grant, nothing redeemed twice, revocation final, GrantCustody implemented | 1 client, 1 code, 2 concurrent requests, 3 access and 3 refresh tokens |
| `binding` | tokens stay with client, user, scopes; PKCE not skipped across edits of the client | 2 clients with 3 settings each, 2 users, 2 sessions, 1 code, 1 request, chain of 2, every consent form |
| `accounts` | the lock-out's bound on wrong passwords; password changes and locks end sessions | 2 logins, threshold 2, 2 change handlers, 1 link, 2 sessions, 2 new passwords, counter up to 3, 1 lost failure; one of two stories (`OneStory`) |
| `cas_tickets` | tickets accepted once, not after logout; OneTimeCredential implemented | 2 tickets, 2 validations, 1 session, 1 service with 2 patterns to choose from, 2 spellings of its URL |
| `second_factor` | backup codes work once and implement OneTimeCredential; a factor guards every login; removed factors stay out | 1 TOTP method, 1 key, 2 sets of codes with 1 code each, 1 login, 1 challenge, 2 answers, 2 changes, 3 sessions; changes overlap only where both generate codes, and codes meet the TOTP method (`FollowTheCodes`) |
| `identities` | addresses and provider accounts have one account, links are earned, marks are for the address, a way in remains | 2 users, 2 addresses, 2 provider accounts, 2 links, 2 handlers that create accounts, 1 confirmation, 1 removal; one change to accounts per behaviour (`FollowOneStory`) |
| `administrators` | the last administrator is lost only to two who remove each other | 3 users, 2 calls, 6 requests; until two have removed each other (`NobodyOvertaken`) |
| `limiter` | keys are the client's, windows are fixed, Retry-After is enough, nobody is shut out, idle keys leave | 3 requests, 2 clients, 1 client id, 1 proxy of each kind and chains of two that differ, 2 forged headers or none, limit 2, window 3, 2 ticks a second, stamps up to 2 old; windows of one key (`FollowOneKey`) |
| `keys` | tokens stay verifiable, withdrawn keys leave both caches, published keys are found | 3 files, 1 token of life 2, wait 2, 2 lookups, cache 2, copy 1, fetch 1; a token or lookups (`TokensOrLookups`) |
| `housekeeping` | recent events stay, partitions stay ahead, expired rows go, the server serves again | 3 tables, 2 of them token tables, 2 months ahead, 2 months pass, 2 faults |

Why these bounds are enough. A grant is duplicated by two requests that act on
one token; a third adds no new pair, and a chain of three has a first, a middle
and a last token. Guesses exceed the threshold only when logins overlap between
the check of the lock and the count, for which two logins and a threshold of two
suffice: one is before the threshold and one straddles it. `OneStory` keeps the
behaviours in which passwords are guessed apart from those in which a slow login
overlaps with two handlers; neither uses what the other does, and the theorems of
`AccountAccess_proofs` have no such limit. A backup code is fought over by two answers; a
second set of codes comes between the two steps of either, installed by a change
that may overlap with the one that installed the first; two kinds of methods are
needed for one to replace the other under a login. A session outlives a change through one slow login
and the order of the statements of one handler; the second handler is there to
undo or repeat the first. A validation race needs two validations, the second
ticket shows that they are kept apart. An address or a provider account is
fought over by two creations, with one more account or address to be moved to.
`FollowOneStory` keeps apart the behaviours in which accounts sign up from those
in which they come through a provider, and lets one account be deleted or edited
or one link be removed; the theorems of `Identities_proofs` have no such limit.

The third user is the one who is promoted, created or left when two others fight.
The limiter's third request is refused while two others hold stamps from before
and after the end of a window; the window is longer than the delay and no
multiple of a second, so that rounding and overtaking both show. The evictor
waits for ten windows, and all ages up to that are reached. The run has the route
whose key has all the cases. Its keys are all computed and checked, and since keys
share no state its windows are followed for one of them (`FollowOneKey`); the theorems
of `RateLimiter_proofs` have no such limit. `TokensOrLookups` keeps apart the
behaviours in which tokens are signed from those in which a relying party looks keys
up, which do not touch each other. Three files are one key that is withdrawn, one
that signs and one that comes next. Two token tables and a third show both paths
after an error; two faults are a failed sweep and a crash, or two failures in a
row, and two months let the partitions run out.

Names of bounds: `VersionBound`, `CountBound`, `LostBound` in `AccountAccess`,
`MaxDelay` in `RateLimiter`, `FetchTime` and `Horizon` in `JWKSCache`, `MaxMonth`
and `MaxFaults` in `Housekeeping`; in the others the finite sets of identifiers
are the bounds. Bounding faults is what "from some point on nothing fails" means
for the liveness properties; without it they are false, rightly.

State constraints (`FollowTheGrant` and the like, in the MC modules) stop a run
where the story has ended for its properties: each says why. Symmetry permutes
only model values no definition tells apart; no run with symmetry checks
liveness. One run has a constraint and liveness properties, the limiter's: where a
request arrives under another key, the behaviour is cut. What is left are the fair
behaviours in which all requests have one key, and for a key that is asked for, what
other keys do makes no difference. The OIDC runs and those on second factors and identities turn the
deadlock check off: when all identifiers are used up and all requests are done,
the instance stops. So does the run on administrators, when all are gone and no
session is left. The others check it.

Runs whose names begin with `claim_` state what a comment or a document says
and TLC refutes it; the findings in `PROJECT.json` quote the lines:

- a rotated refresh token that is presented again does not revoke its family;
- an event logged in a month without a partition goes to the default partition,
  and no later run can create the partition of that month; a start of the server
  in that month fails with it.

Other disagreements, which the modules show but no run is spent on:

- revoking a refresh token without a hint, or with a wrong one, does nothing to it
  (`Revoke`), where the comment in `internal/oidc/service.go` says that both kinds
  are tried: the first attempt reports no error when it finds nothing;
- one reset link can replace the password twice, by two requests that read it
  before either marks it (`Reset`, `RunMark`), where `internal/store/README.md`
  says that it is single-use (section 4 has the case without overlap, of this and of
  the next two and the two administrators below);
- two links of an account without a password, removed at the same time, leave it
  without a way in (`DeleteUserIdentity`), where the comment in `admin/federation.go` says
  that at least one other identity remains;
- two sets of backup codes generated at the same time are both valid
  (`DeleteOldCodes`, `CommitCodes`), where the comment of `ReplaceBackupCodes` says
  that the transaction prevents it;
- `rotate-key` says to wait for the longest life of an access token before an old
  key is deleted, and what the key signs lives for `id_token_ttl`, which is set
  apart from it (`DeleteOldest`, `Wait`);
- `SYSTEM.md` wants keys rotated without a restart, and describes a rotation in
  which the new key is published before it signs; a restart after `rotate-key` makes it
  sign at once (`Start`), while caches may hold the old document for the hour `max-age` grants
  (`PublishedKeysAreFound` says for how long it may be missed);
- `tokenLimitKey` reads the client id from the basic header and the query string,
  where `internal/README.md` names the form: a client that posts its id in the
  form is counted by its address;
- `ClientIP` says that "we trust only entries appended by our own proxies"; it reads the
  first line of X-Forwarded-For only, and skips entries it cannot read, so that behind
  a proxy that adds a line of its own, or writes `ip:port`, the entry it trusts is the
  client's (`FirstLine`, `Vouched`);
- `GetKey` reports a key as "not found in JWKS after refresh" when the refresh was
  answered with an error whose body is JSON: `refresh` stores it as a document without
  keys (`FetchMisled`, `Store`), where it reports other failed fetches as errors;
- `SYSTEM.md` (section 8) says that a login through a provider whose address matches a
  user is prompted to link the accounts; `LinkOrCreate` links them without a question
  if the provider calls the address verified (`AutoLink`);
- `session/service.go` speaks of a sliding expiry, and only `last_seen_at` moves;
- the CHECK constraint of `users.status` and `internal/store/README.md` know a
  status `locked`, which the code never stores: a lock stores `disabled`;
- two administrators can remove each other (`Administrators`, `overtaken`);
- revoking a rotated refresh token leaves its successor usable, where the
  comment of `RevokeOIDCRefreshToken` speaks of descendants (`Revoke`);
- a login that verified the old password before `resetUserPassword` revoked the
  sessions creates its session afterwards (`CreateSession`; `overtaken` marks
  it), where the comment there says that any session that might have been opened
  with the old password is now stale;
- a CAS ticket whose URL normalization changes (an upper-case host, a fragment,
  unsorted parameters) is never accepted: it is stored as received and compared
  with the normalized form of what is presented (`ConsumeTicket`), where the
  comment of `Validate` speaks of "a different service";
- an account just unlocked can be locked again by a failure counted before
  (`CountFailure`, `RunEnable`, `RunZero`, `SetLockout`), where `unlockUser`
  means to prevent it;
- revoking a session does not remove its CAS tickets, where
  `internal/store/README.md` says so (`EndSession`); validation refuses them;
- `internal/store/README.md` says of `failed_attempts` that rate limiting is the
  only defence today, and the code locks accounts;
- a CAS service with an empty attribute list is sent every attribute
  (`Releases`), where `internal/store/README.md` and `0003_cas.up.sql` say that
  it is sent the username only;
- under `FORCE_MFA` the callback of an identity provider challenges users who
  have no factor (`Challenged`), where the comment of `ForceMFA` says they are
  sent to enrol; and the password login gives them a session first
  (`PassGate`, `CreateSession`), where it says they cannot complete it;
- `deleteAllUserMFA` says that it "does its job atomically"; it is a loop of
  statements that ignores errors (`DeleteListed`, `SkipListed`);
- `LinkOrCreate` says "roll back the user row" where the link of a new account
  could not be stored, and leaves the row (`AbandonFlow`, `stranded`). The same
  happens at every login of a provider account whose linked user was deleted:
  `GetUserByProviderSub` does not see that user and the unique index still sees
  the link. With a verified address the next login enters the stranded account
  by its address (`AutoLinkFails`), and storing the link never succeeds, where
  the comment says "we'll retry next time";
- `Verify` says that a token for an old address "must not mark the new one
  verified"; an edit between its check and `MarkUserEmailVerified` does that,
  and an edit after it keeps the mark (`ChangeEmail`, `moved`);
- the signup mail says that no account is activated without confirmation; no
  login reads `email_verified_at`, and the password works at once
  (`StoreCredential`);
- PATCH accepts the status `pending`, which the CHECK constraint of `users`
  refuses; and a PATCH that disables an account leaves its sessions alive,
  unlike the lock endpoint (`UpdateUser`).

Fairness. Handlers of requests get none: a client may leave, a process may die,
anywhere. What the code keeps going by itself is fair in two modules. `LiveSpec` of
`RateLimiter`: a goroutine that waits for the mutex gets it (Go's mutexes do not
starve waiters), the evictor's ticker fires, and the clock runs. `LiveSpec` of
`Housekeeping`: the ticker fires and every statement comes to an end, by
success, by an error or by the deadline of its context; and a server that is down
is started by somebody, which is the operator's or the orchestrator's part. From
it follow `NobodyShutOut`, `IdleKeysLeave`, `ExpiredRowsGo` and `ServesAgain`.
`ServesAgain` exempts the state `claim_audit_missed_run` leads to, in which the
server cannot start until somebody moves rows by hand. All other properties are
safety properties.

## 4. Proofs

Each theorem holds for all values of the constants that satisfy the module's
assumptions.

`OIDCTokens_proofs`: `TypeCorrect`, `GrantsHaveOneHolder`,
`CodesAndTokensAreRedeemedOnce`, `RevocationIsFinal`, `TokensStayInGrant`,
`PKCEIsEnforced`, `GrantsAreHandedOver`, `LostGrantsStayLost`. The first four rest on one inductive
invariant, `TypeOK /\ GrantInv`. OneHolderPerGrant is not inductive: it must be known that
a row's grant is the grant of its origin, that a spent code or rotated token has
left its "issued" or "active" status for good, and that a request past its
consuming statement is the only one to carry its origin. `BoundInv` adds, for
tokens and PKCE, that what a request has loaded and what a row says of client,
user, scopes and challenge is bound to the grant, and that no statement changes
those columns. `GrantsAreHandedOver` is the refinement of `GrantCustody`: under
the invariant the cases of the refinement mapping `Holder` exclude each other, and
each statement either takes a grant into a request, gives it to a new row, opens a
new grant, lets it fade, or leaves its holder alone. `LostGrantsStayLost` follows from
it, since no step of `GrantCustody` finds a lost grant; and a request that inserts
a token carries the grant, which is not lost then. Assumptions: identifiers of
codes and refresh tokens differ from each other and from the words the mapping
uses, None is no row.

`AccountAccess_proofs`: `TypeCorrect`, `ChangesEndOldSessions`,
`DisabledAccountsAreOut`, `GuessesAreBounded`, `LinksUsedOneByOneWorkOnce`. Typing needs `Progressing` (a
handler in flight has a statement left, runs none that bars logins after it has
revoked the sessions, and knows no credential newer than the row's). The two
session properties need `LoginsAreCurrent`: a login that no revocation overtook began while the account was enabled and has checked a
password no completed change has replaced. The bound on guesses needs
`BudgetInv`: every wrong password is in the counter, on its way to it, or lost;
and while the account is unlocked, those beyond the threshold are on their way
to lock it. Its proof counts the logins in `Counting` and `Locking`, so it
assumes that `Logins` is finite.

`CASTickets_proofs`: `TypeCorrect`, `TicketsAreAcceptedOnce`,
`LoggedOutTicketsFail`, `TicketsAreOneTimeCredentials`, from `TicketInv`: what was taken
cannot be taken again and had one taker; a session that a ticket belongs to
exists; a session that was not live when its ticket was taken is not live later.
The last theorem is the refinement of `OneTimeCredential`, one lemma for each kind
of step. Assumption: validations are none of the words its mapping uses.

`SecondFactor_proofs`: `TypeCorrect`, `BackupCodesAreSpentOnce`,
`FactorsGuardLogins`, `RemovedFactorsStayOut`, `BackupCodesAreOneTimeCredentials`,
`ReplacingOneByOneLeavesOneSet`, from `FactorInv`. That a code
opens one session needs to know of the requests that have marked a row and have
no session yet: such a code is spent, and a request or a session, one of them
only, has it. A guarded login is always at the gate while some method is
confirmed. A removal that has not failed has deleted what it no longer has to
do, and nothing brings a deleted method back. The refinement of
`OneTimeCredential` needs two more facts: the codes a transaction is about to delete
exist (`DoomedCodesExist`), and those of the set it installs do not, so that the
COMMIT neither issues a code twice nor takes one from the request that marked it.
Assumptions: methods, codes and None are different; answers are none of the words
the mapping uses.

`Identities_proofs`: `TypeCorrect`, `AddressesAreUnique`,
`ProviderAccountsHaveOneHome`, `OnlyProvenAddressesLink`,
`MarksAreForTheAddress`, from `TypeOK /\ IdentityInv`. The properties lean on
what the handlers in flight know: the account a handler has found or made exists
and was born for its provider account or has had its address
(`FlowsKnowTheirUsers`); a provider account has one link (`OneLinkPerSub`), and
whoever it opened is that link's user (`HomesAreLinked`); an address that was
checked and not edited is still the account's (`ChecksAreCurrent`).
`UnlinkingOneByOneIsSafe` assumes that one removal is in flight at most
(`\A m, n \in Unlinks : m = n`) and adds `AnotherWayInRemains`: when a removal is
about to delete, a password or another link is there. Assumption on the
constants: None is no value of the others.

`Operations_proofs` has two parts. `TypeCorrect`, `SomebodyAdministers` and
`CallsOneByOneKeepAnAdministrator` are about `Administrators`. The invariant adds to
the property what is known of a call (`CallOK`): its caller has an account, and the
flags are set on the account it created, not on its caller's. A statement that
takes the rights of the last administrator was made for that administrator, which
the guards refuse, or for somebody who is none any more.

`HousekeepingTypeCorrect`, `RecentEventsAreKept`, `PartitionsAreAhead` and
`MissedRunsAreCaughtInTime` are about `Housekeeping`. An event is where it was put
unless its partition is dropped, so the first property needs to know that what
audit-prune listed is before its cut-off, also when the month changes or a
partition is made meanwhile (`PrunesBelowCutoff`). The second needs to know how far a
call has come: the months it has been through have their partitions unless they
are over or before some cut-off (`CreatedSoFar`), and so have all months of a call that went through
(`MonthsCovered`). That the months of a call have a last one is proved by
well-founded induction, as for the keys below.

`RateLimiter_proofs`: `TypeCorrect`, `ClientsAreCounted`, `EvictionIsHarmless`,
`RetryAfterIsEnough`, `LimiterIsFixedWindow`, `LimitIsKept`. The invariant adds to the types, for
every key, that a bucket agrees with the last window of its key (`seen`), that a
window is over when its bucket was evicted, and that a promise lasts to the end of
its window at least (`KeyOK`). For a chain that
vouches for its client, the address is in the first line because the first proxy wrote
it there, behind everything that was forged, and only our proxies come after it
(`ClientIsFound`); that a chain with a joining proxy has a last one is proved by
well-founded induction (`LastExists`). Assumption: the mutex is not waited for so long
that an eviction could tell (`Window + 2 * MaxDelay <= EvictAfter`, ten windows in
the code). That no window exceeds its limit follows from the refinement: every
step of the limiter is one of `FixedWindow`. `TypeOK` and `EvictionForgetsNothing` are
proved and not repeated in the run, where `KeysHaveFixedWindows` implies the
latter's effect; the same goes for the `TypeOK` of `CASTickets` and `SecondFactor`.

`JWKSCache_proofs`: `TypeCorrect`, `TokensAreVerifiable` (if `Wait >= TokenTTL`),
`WithdrawnKeysAreForgotten` (if a fetch is shorter than the life of the cache),
`PublishedKeysAreKnown`. `KeysInv` says that a valid token's key has its file, and
that a token of an older key than the one that signs is at least as old as the
uptime. `CacheInv` says of the copy, of every answer under way and of the cache
what they tell: a key that is in one of them was published a bounded time ago, one
that is not has been published for a bounded time. The second half exempts answers
without keys (`Tells`), and for as long as a cache emptied by one is what a lookup
will read, the lookup is known to be `misled`. That a finite set of files has a last one
is proved by well-founded induction on its subsets.

What the documents promise, proved where it holds. Several of the disagreements
of section 3 are promises that the code keeps as long as handlers do not overlap,
and breaks when two do. The theorems below state the first half: each assumes that at most one such handler is in flight (`\A g, h \in
Changes : g = h`; logins, answers and everything else overlap freely, and any
statement may fail), or that the operator keeps up.

| Promise | Holds when | Theorem |
|---|---|---|
| at least one other identity remains (`admin/federation.go`) | removals of links do not overlap | `UnlinkingOneByOneIsSafe` |
| codes of two sets are never valid at once (`ReplaceBackupCodes`) | handlers that change factors do not overlap | `ReplacingOneByOneLeavesOneSet` |
| a reset link is single-use (`internal/store/README.md`) | handlers that change the account do not overlap | `LinksUsedOneByOneWorkOnce` |
| an administrator remains (the guards of `admin/users.go`) | calls of the admin API do not overlap | `CallsOneByOneKeepAnAdministrator` |
| a missed run is caught by the next one (`audit_partitions.go`) | some call goes through before the months the last one covered run out, and no month is pruned before it is over | `MissedRunsAreCaughtInTime` |

`LinksUsedOneByOneWorkOnce` speaks of links that are marked: the handler ignores a
failure of that statement, and a link it could not mark works again.
Their invariants are small: a removal that is about to delete knows of another way in;
a transaction about to commit deletes every code that can be used
(`OneSetAtATime`); a handler that is about to replace the password for a link holds
one that nobody has used (`LinksAreFresh`); a caller whose rights were checked still
has them (`CallersAreCurrent`). They have no run: the instances of section 3 keep
the handlers that overlap.

Every invariant and every refinement the runs check is proved, for all values of the
constants. Only model-checked: liveness (`NobodyShutOut`, `IdleKeysLeave`,
`ExpiredRowsGo`, `ServesAgain`), which is out of TLAPS's reach, as are ENABLED and
induction over data; and the violations of the two `claim_` runs.

## 5. Not modelled

- The forward-auth proxy, introspection and userinfo read sessions, tokens and users
  and change nothing; what they may read is what the modules of those rows allow.
- CSRF protection and the other middleware keep no state between requests.
- Password hashing, PKCE's hash, signatures and cookies are pure functions over byte
  strings; the modules assume what they promise: fresh identifiers, distinct
  challenges, unforgeable cookies.
- Identity providers, mail delivery, migrations, configuration and static pages are
  I/O, or run once; what a provider or a mailbox may answer is a choice of the
  environment in `Identities` and `AccountAccess`.
- The response formats of CAS and OIDC, the contents of an id_token, of an audit event
  and of a mail, display names, listings and cached profiles: nothing here depends
  on them.
- The rotation of a client's secret: a token request sees the client as one row that
  is edited between statements, and which secret it was is not a part of it.
- The step from a logout to access and refresh tokens: the code takes none, and each
  of `OIDCTokens`, `CASTickets` and `AccountAccess` has sessions that end at any time,
  so that a module which composes them would show nothing more.

Of the hazards in `PROJECT.json` three have no property, because the code does what
they fear and no document says otherwise: a logout leaves access and refresh tokens
alive, a CAS service is looked up again after its ticket was spent, and a TOTP code
can be accepted twice within its time.

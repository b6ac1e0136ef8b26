# Authgear server: specifications, model checks and proofs

Authgear is an authentication server: it signs users in (authentication flows, one-time
passwords, passkeys, MFA), keeps their sessions (IdP sessions and OAuth offline grants),
issues and rotates tokens, protects itself (rate limits, lockout, quotas), and tells the
outside world what happened (events, hooks, background tasks). Its state lives in
PostgreSQL (per request transactions) and in Redis (sessions, codes, counters, queues);
a request is a goroutine, and many server processes share both stores. Most of what is hard
in it is therefore the same question asked again and again: what do other requests do
between two of my Redis commands, or between my transaction and my Redis commands?

## 1. Inventory

| Part (source) | State it keeps | Operations | What is hard |
| --- | --- | --- | --- |
| IdP session store (`pkg/lib/session/idpsession`, `session/access`) | Redis: key per session with a TTL, hash per user (session list), mutex per session, stream of access events | create, get, access, reauthenticate, add SAML participant, list (with clean-up), delete, terminate all | the commands of one operation are not atomic; list and delete take no mutex; TTL and expiry; crashed owners of a mutex |
| Offline grant store (`pkg/lib/oauth/redis/store.go`, `oauth/grant_offline*.go`) | Redis: key per grant holding its refresh tokens, hash per user, mutex per grant; access grants and codes as keys with TTL | create, add / rotate / remove refresh tokens, access, housekeeping, list, delete | two refreshes with one token, housekeeping against authorisation removal, stale copies after unlock |
| Session management (`pkg/lib/session/manager.go`, `oauth/session_manager.go`, `oauth/resolver.go`) | none of its own | list, logout, revoke, terminate all, resolve a request | SSO groups span both stores and the steps between them are visible |
| Token endpoint (`pkg/lib/oauth/handler`) | authorization codes, refresh tokens, app session tokens, pre-authenticated URL tokens | code exchange, refresh, revoke, issue | GET then DEL of one-time codes; revoked grants in the middle of an exchange |
| Rate limits (`pkg/lib/ratelimit`) | Redis: theoretical arrival time per bucket | reserve, cancel, time to act | rounding, burst edge, cancellation |
| Account lockout (`pkg/lib/lockout`) | Redis: attempts per contributor, lock with expiry | make attempts, clear attempts | exponential back-off, clearing while locked |
| One-time passwords (`pkg/lib/authn/otp`) | Redis: code, failed attempts, lookup key | generate, verify, consume, asynchronous delivery | non-atomic read and write of the code, late delivery results |
| Authentication flow engine (`pkg/lib/authenticationflow`; the older `workflow`, `interaction`) | Redis: session, flow, state token; effects run in a database transaction | create, get, feed input, switch, rewrite, finish | two inputs on one flow, finish and delete not atomic |
| Events and transactions (`pkg/lib/event`, `pkg/lib/infra/db`) | per request: pending payloads, transaction hooks | dispatch, commit, rollback | hooks registered once but run per transaction |
| Background queue (`pkg/lib/infra/redisqueue`, `pkg/redisqueue`) | Redis: list of task IDs, key per task | enqueue, dequeue, execute, complete, shut down | crash between two commands, at-most-once execution |
| Usage limits and fraud protection (`pkg/lib/usage`, `pkg/lib/fraudprotection`) | Redis counters and leaky buckets | reserve, cancel, alert | period boundaries, cancellation |
| MFA (`pkg/lib/authn/mfa`) | recovery codes (SQL), device tokens (Redis) | generate, consume, invalidate | two consumptions of one code |
| Account status and scheduling (`pkg/lib/authn/user/account_status.go`, `feature/accountdeletion`, `accountanonymization`, `accountstatus`) | columns of the user row, background runnables | disable, re-enable, schedule, anonymise, delete | combinations of conditions and times; a background run against an API call |
| App configuration source (`pkg/lib/config/configsource`) | in-memory cache per process | load, refresh, invalidate through PostgreSQL notification | stale cache after a lost notification |
| Verification, forgot password, passkey, challenge, nonce, DPoP, app2app, SAML, account management, anonymous promotion | mostly one-time keys in Redis and SQL rows | create, consume | GET then DEL |
| Identities, authenticators, rolesgroups, resource scopes, custom attributes (`pkg/lib/authn`, `rolesgroups`, `resourcescope`) | SQL rows, one transaction per request | CRUD | uniqueness left to SQL constraints |
| User import / export, search re-indexing, audit log | tasks and external stores | batch jobs | mostly I/O |
| Portal, site admin, Admin GraphQL API (`pkg/portal`, `pkg/siteadmin`, `pkg/admin`) | SQL rows | CRUD, billing | pure request/response over SQL and Stripe |
| UI, templates, CLI, deployment (`authui`, `portal`, `resources`, `cmd`, `hack`) | none | | not modelled |

## 2. Plan

Modules, in the order in which they are written.

| Step | Modules | State |
| --- | --- | --- |
| 1 | `SessionLifecycle` (abstract), `IDPSessionStore` (the store and its callers, one Redis command per step), `IDPSessionStore_proofs` | done |
| 2 | `RefreshTokenLedger` (abstract), `OfflineGrantStore` (the store, the token endpoint's refresh, issue and revocation), `OfflineGrantStore_proofs` | done |
| 3 | `SessionGroups`: both stores under the session manager, the token endpoint's code exchange and the resolver; `SessionGroups_proofs` | done |
| 4 | `LeakyBucket` (abstract), `RateLimit`, `Lockout`, and `AuthenticationAttempts`, which composes them around a guess; `LeakyBucket_proofs`, `SumTheorems`, `AuthenticationAttempts_proofs` | done |
| 5 | `OneTimePasswords`: codes read, compared and written back, with late deliveries; `OneTimePasswords_proofs` | done |
| 6, 7 | `TaskQueue` and `UserReindexing`: the queue, and what follows a commit through it; `UserReindexing_proofs` | done; several transactions of one request, and blocking hooks, are left |
| 8 | authentication flow engine: two inputs with one state token | left |
| 9 | usage limits and fraud protection | left |

What is left of steps 1 to 7 is listed in section 7. Every invariant and action property of the
passing runs is proved (section 6). Theorems worth proving after those: what survives in the
offline grant store when a lease ends under its running owner (section 3 assumes that it
does not), and a refinement of `SessionGroups` to what each store is believed to be.

## 3. What the modules model

A *request* is a goroutine that serves one HTTP request in one of any number of processes.
Several run at once, each takes one step at a time, and a step is (at most) one command
sent to Redis: what a request has read from Redis lives in its local variables until it
writes it back, and everybody else may act in between. This is the granularity at which
the code is atomic, and the whole interest of the models. One user is enough: the keys of
two users are disjoint, and no command touches two.

### IDPSessionStore: sessions of one user (`pkg/lib/session/idpsession`)

| Variable | In the code |
| --- | --- |
| `stored`, `value` | the string key of a session (`store_redis.go`), with the fields that change; its TTL is `ExpireAt(value)` because every write computes it from what it writes |
| `list` | the fields of the user's hash of sessions |
| `mutex` | the redsync mutex of a session (`infra/redis/handle.go`); `Abandoned` when its owner died |
| `endless` | access-event streams between XADD and EXPIREAT (`session/access/event_store_redis.go`) |
| `pc`, `op`, `sid`, `ses`, `event`, `provider`, `todo`, `found`, `doomed` | where a request is, and its local variables |
| `expected`, `issued`, `born`, `missed`, `wiped` | history, read by properties (and `issued`, `born` by the assumption that a UUID is new and that a caller knows only IDs of sessions that have existed) |

Operations: creation (`BeginCreate`, `CreateSetNX`, `AppendEvent...`), access by token and
by ID, reauthentication, SAML participants (`BeginUpdate`, `GetByToken`, `LockContext`,
`LockGivesUp`, `UpdateGet`, `UpdateHSet`, `UpdateSetXX`, `UnlockContext`), List with its
clean-up (`BeginList`, `ListGet`, `ListHDel`), deletion by invalidation and by
termination (`DeleteDel`, `DeleteHDel`, `AllDeleted`), deletion with the user
(`CleanUpForDeletingUserID`). The environment: crashes (`Crash`), the end of a lease
(`LeaseExpires`), the clock with Redis' expiry (`Tick`).

`LeaseMayExpire` says whether the 5 seconds of a lease may pass while its owner runs. The
code does not exclude it; what the mutex protects (`NoLostUpdate`, `ImplementsLifecycle`)
holds if they do not, everything else is checked and proved without that assumption.

go-redis reports a `SET XX` that met a missing key either as `Nil` or as FALSE without an
error; the code tests for the former. `UpdateSetXX` allows both, so nothing rests on it.

The parts of a session that no property tells apart are left out: attributes, token hash,
access information other than its time. `MaxTime`, `MaxCrashes` are bounds of the model.

`SessionLifecycle` is what the rest of the server believes of the store: a session is
created once, updated atomically and ended once. `Lifecycle!Spec` is a property of
`IDPSessionStore` under the mapping `unborn` (never stored), `live` (stored), `ended`.

### OfflineGrantStore: grants and refresh tokens of one user (`pkg/lib/oauth`)

| Variable | In the code |
| --- | --- |
| `stored`, `value`, `ttl` | the string key of a grant with its refresh tokens (`oauth/redis/store.go`), and its TTL: here it is an argument of the update and need not fit the value |
| `list`, `mutex` | as above |
| `authorizations` | rows of the authorization table (SQL), deleted last by a revocation |
| `flow`, `op` | the request, and the update function it is in |
| `token`, `version` | the refresh token presented; the hash a rotation has generated |
| `session`, `expireAt` | `ExpireAtForResolvedSession` of the grant first read; the argument of the update |
| `mem`, `remove`, `todo`, `seen`, `copy` | the grant in memory, tokens to remove, progress of a List |
| `doomed`, `issued`, `born`, `appended`, `rotations`, `applied`, `missed` | history (`issued`, `appended` and `rotations` also bound the model) |

A refresh token is a number, in the order of addition to the grant; the hash in force is a
version, 0 for the initial one and `v` for the one the `v`-th rotation generated. The
requests (`flow`) are: creation of a grant (`BeginCreate`); the refresh of
`handler_token.go` (`BeginRefresh`: device secret, then re-read and rotation and
housekeeping, then the client check, the access and the device info); the resolver with a
cookie and with a bearer token (`BeginResolve`; an access token may outlive the refresh token
it came with); a further token for the same grant,
short-lived for a pre-authenticated URL (`BeginIssue`); reauthentication (`BeginReauth`: the time
of authentication, then device secret and app2app device key); SAML participants (`BeginSAML`);
revocation of an authorization (`BeginList` with "revoke", `RevokeTokens`, `DeleteAuthorization`); termination
(`TerminateDel`, `Terminated`). `After` is the order in which a request makes its updates.

Two reductions make the instance smaller without hiding an interleaving: the acquisition of
the mutex is one step with the GET under it, and `SET` one step with the unlocking. Other
owners of the mutex do nothing in between; a command that takes no mutex (`DEL`, `HDEL`, a
List) commutes with one half of the pair. The first GET of a request and its checks are
its `Begin` action: before it the request has read nothing. A List may read its keys in any
order (the code sorts what it has found afterwards).

Here `LeaseExpires` is the end of a dead owner's lease only: that a running update takes less
than the 5 seconds of its lease is an assumption of this module (`IDPSessionStore` shows
what is left without it).

`RefreshTokenLedger` is what the token endpoint believes of the store: a token is added
once, removed once and never comes back, and a rotation puts in force a hash that never
was.

Not in this module: the part of `GetOfflineGrant` that looks at the IdP session of an SSO
grant (it is in `SessionGroups`), the access-event streams of grants (as for IdP sessions), a
change of the client configuration while a grant lives, checks of the user's account
status, DPoP, what is done with an access token.

### SessionGroups: both stores, the manager and the code exchange

An operation of a store (get, list, update, delete) is one step here, and the creation of a
session two, because the interval between its list entry and its key is where a List drops it;
the modules above take the operations apart into commands and show what of that is justified.
What is left is the interplay of steps of different operations on different keys.

| Variable | In the code |
| --- | --- |
| `stored` | keys of IdP sessions, authorization codes and offline grants |
| `list` | fields of the user's two hashes of sessions, which is what every List reads |
| `born`, `data`, `origin`, `joined` | keys that have been; what a code carries into the exchange; the code a grant was issued for; grants that have been given a token of the client with one session |
| `pc`, `who`, `held`, `offline`, `queue`, `idps`, `todo`, `found` | where a request is, and its local variables: the session it is about, the code it exchanges, whether the exchange asks for a refresh token, grants of the client to revoke, sessions listed and to delete, whether `Logout` met its session |
| `goal`, `dead`, `signedOut`, `accepted`, `late`, `unseen`, `dropped`, `shared` | history; `dropped` are sessions whose entry a List has removed before their key was set |

Operations:

- `Logout`, `RevokeWithEvent`, `RevokeWithoutEvent` (`invalidate`: list both stores, delete the
  grants of the group and then its IdP session; `Logout` panics if it has not met its session),
  `TerminateAllExcept`, and a list for a page of settings (`List`). Each List removes the entries
  whose key it does not find.
- A login (`BeginLogin`, `CreateSession`), which may revoke the previous session; the access with an
  IdP session (`AccessSession`, which sets the list entry again).
- The authorization endpoint (`CreateCodeGrant`): codes authenticated by an IdP session with
  `sso_enabled`, by an offline grant, or by anything else the exchange does not look at.
- The exchange of a code (GET; then by `Branch` a token added to the grant the user was authenticated
  by, `AddRefreshToken`; or, for a client with `x_max_concurrent_session` that asks for a refresh
  token, the revocation of its other grants one by one and a new grant; or a new grant without
  revocation; or, without `offline_access` and with an `id_token_hint`, none, `IssueNothing`; then DEL
  of the code).
- A refresh and the resolver's access with a grant (GET of the grant, of its IdP session, update).

Every key may expire; a request may crash between two steps, and a step of the exchange may fail.

Abstractions. A List is one step, so its late HDEL takes effect with the GET that missed the key; an
entry that comes back by an update after that is still `dropped` for the properties, whose exception is a
little wider than need be. The entry of a session that has expired goes
at once: nobody finds the session either way. Whether an exchange asks for a refresh token is chosen
freely, although it follows from the scopes of the code. The deletion of the whole list with the
user (`coordinator.go:1002`) is in `IDPSessionStore` only. Permissions, cookies and events are left out.

### RateLimit, Lockout, AuthenticationAttempts: guesses at one user's credential

`RateLimit` and `Lockout` translate the Lua scripts, which Redis runs as one command each.
`AuthenticationAttempts` is `VerifyOneWithSpec` around them: reserve from each limit in turn,
look at the lock (an error there gives the tokens back), compare, then count the attempt or give the
tokens back; a wrong guess with a method that takes no part in the lockout keeps its tokens and
counts for the rate only (`CompareExempt`). A login that finishes later clears the attempts made
from the address of the request that finishes it.

| Variable | In the code |
| --- | --- |
| `tat` | key of each bucket (`ratelimit/gcra.go`): theoretical arrival time |
| `record`, `lock` | hash of failed attempts, and lock keys (`lockout/record.go`) |
| `config` | which limits are enabled, the lockout type, where requests come from; never changes |
| `pc`, `ip`, `halves`, `at`, `verdict` | the request and its local variables |
| `since`, `net`, `guesses`, `promise`, `tries` | history: a window of observation opened at any time, what was answered about a bucket, guesses since a lock |

Weights are counted in halves of a token, so that `math.ceil` rounds something; the unit of
time is that of the emission interval for limits, and a second for locks. `LeakyBucket` is what
a rate limit promises: a bucket that leaks one unit per unit of time. It is refined with
level = arrival time minus clock. The limits of `VerifyRecoveryCode` run the same way;
device tokens have a limit and no lockout. A lock of a fractional number of seconds makes EXPIREAT
fail after the SET; `LockDuration` rounds it up, and the difference is in the TTL of the key only,
because the script decides by the value (the error the caller gets is that of a failed
`MakeAttempt`).

### OneTimePasswords: a code and its counter

| Variable | In the code |
| --- | --- |
| `code` | the key of the code (`code_store_redis.go`), rewritten as a whole with its old expiry |
| `attempts`, `countEnds` | the counter of failed attempts and its TTL (`attempt_tracker_redis.go`) |
| `pc`, `op`, `mem` | per process (a request, or the goroutine that learns how a WhatsApp message fared): next command, operation, the copy it has read |
| `generated`, `delivered` | codes generated; messages whose result has arrived |
| `wrong`, `used`, `reused`, `overlapped` | history |

Operations: generation with the reset of the counter (which may fail: logged only),
verification with and without consuming, also of a submitted code, `ConsumeCode`,
`SetSubmittedCode`, `InspectState`, delivery results. Every command is a step, a process
may crash at each. What rate limits answer is left open. The key that leads from a link's code to its
target, written after the code, is left out, and so is the rounding of a TTL below one second to one
second in `Update`: a code rewritten in its last second may live for a fraction of a second longer,
which is below the unit of time of the module.

### TaskQueue and UserReindexing: what follows a commit

| Variable | In the code |
| --- | --- |
| `task`, `queue` | task keys and the list of items (`lib/infra/redisqueue`) |
| `pc`, `holds`, `shutdown` | the loop of a consumer (`redisqueue/consumer.go`), its item, `Stop` |
| `kind`, `stage`, `mark` | a request that changes the user, up to the enqueuing of its task; the time an import has marked the user with before its commit |
| `committed`, `required`, `indexed` | the user in the database: content, `require_reindex_after`, `last_indexed_at` |
| `index` | the user in the search index |
| `step`, `startedAt`, `source` | the execution of a task (`search/reindex/reindexer.go`) |
| `lost`, `reached`, `raced` | history |

The content of the user is the set of changes it shows. An update or a deletion commits, then the sink
marks the user in a transaction of its own and enqueues a task (SETNX, LPUSH); an
import marks the user in its own transaction and holds the lock of the row until it
commits. An execution reads the row, may skip, reads the user, writes the index and stamps
the row. Task keys may expire, announcements and executions may fail or crash, a process may
be shut down at any step and is followed by another one. There may be several consumers,
one per process.

The columns of the row are NULL (0) until they are written, and then no execution may skip. A result
that cannot be written (`consumer.go:324`) leaves what a crash before the completion leaves: the item
gone and the task pending. An import enqueues its task even if its transaction has failed
(`userimport/service.go:203`); the task then copies an unchanged user, and is left out.

Left out: the rate limiter's answer and the back-off (a consumer is let through after some
time), what makes an execution fail, who else writes the row.

## 4. Runs

| Run | Question | Instance |
| --- | --- | --- |
| `idp_sessions` | Do the commands amount to atomic operations? Are streams given a TTL? | 2 requests, 1 session, 3 times, 1 crash |
| `idp_sessions_two` | With two sessions and leases that end under their owners: is the list complete, is a termination, does a session come back? | 2 requests, 2 sessions, time 0 |
| `grants` | Refresh with rotation, issue, revocation, termination: is every token accounted for? | 2 requests, 1 grant, 2 authorizations, 2 tokens, 2 rotations |
| `grants_time` | Does housekeeping or an access end a grant before its time, and do housekeeping's removals and a revocation leave one without a token, or lose one? | 2 requests, 1 grant, 1 authorization, 2 tokens (one short-lived), 3 times |
| `grants_live` | Is every mutex released, over all update functions, with a crash? | 2 requests, 1 grant, fairness |
| `session_groups` | Is a group that was signed out gone and of no use? What may go wrong only by an overlap? | 2 requests; sessions, codes, grants and failures 1, 1, 2, 0 or 0, 2, 2, 0 or 1, 1, 1, 1 or 2, 0, 0, 1 (`SmallBounds`) |
| `attempts` | How many guesses get through limits and lockout? Do the limits leak like buckets? | 2 requests; 2 limits and one address, or no limit and 2 addresses with one lock or two; time 3, 1 failure |
| `otp` | How often can a code be guessed, used, brought back, prolonged? | 2 processes; time 2; 2 codes, the counter of the first ending while the second lives, or 1 code and a failure; 1 attempt permitted |
| `reindexing` | Is a task lost, is the mark honest, does the index catch up? | 2 consumers, 2 changes, 2 failures or shutdowns, time 3, fairness |
| `idp_terminate_race`, `grants_idle`, `grants_panic` | disagreements, section 5 | as small as they show |

Why these bounds are enough. All interference is between one request that reads and later
writes and another that writes in between: two requests show it, and a request that has
returned may begin again as any other, so long histories by many callers are covered one
overlap at a time. One session (or grant) is enough where keys do not interact; lists,
terminations and groups are where they do, and there a second one is given. Two tokens are
what housekeeping and revocation need: a root and another. `Lifetime` and `IdleTimeout`
are chosen so that within `MaxTime` the idle timeout ends before the lifetime in
`idp_sessions`, and a short-lived token before its grant in `grants_time`.
In `attempts` the second limit is narrower than the first, so that a first reservation is
left behind by a second that is refused; the back-off of 3/2 reaches the maximum of a lock
after two steps. In `session_groups` and `otp` the bounds are alternatives
(`SmallBounds`): every pair of hazards meets in one of them, not all of them at once.
A grant that was given a token of the client, and is then replaced by an exchange of that client,
takes three codes and more than one grant: that part of `NewGrantReplacesOld` rests on the proof.
A second code that adds a token to a grant with an IdP session (1, 2, 1, 0; 1.4 million states) was
checked apart, to keep the run short.
Symmetry is among requests (and sessions, codes, grants), in runs of safety only.

Fairness (`FairSpec`). In `grants_live`: every request takes its next step
eventually (Go schedules every goroutine; a Redis command returns or fails), and the lease
of a mutex without an owner ends. Nothing is assumed of new requests, of crashes or of the
clock. A request that waits for a mutex may always give up (`WithTries(5)`), so no
strong fairness is needed. In `reindexing`: a request goes on to the end of its announcement,
and a consumer with its loop, which includes that a process is started after one was shut
down; nothing is assumed of new changes, and failures, crashes and shutdowns are finitely many
(`MaxFailures`), each of which is an excuse only if it has met a task (`lost`).
Deadlock is checked in every passing run.

## 5. Where the code and its documents disagree

Shown by runs that end in a counterexample:

- `grants_idle`: the TTL of a grant is that of the access before the last
  (`oauth/resolver.go:233`); with an idle timeout a grant can expire although it was
  accessed in time, against `docs/specs/sessions.md:66`.
- `grants_panic`: `oauth/resolver.go:211` looks a refresh token up a second time, under the
  comment that it cannot fail; a revocation between the two makes it panic.
- `idp_terminate_race`: `idpsession/store_redis.go:230` drops a session half-way through its
  creation from the list, and a later termination of all sessions does not see it, against
  `docs/specs/event.md:620`.

An import is lost to the search index. `userimport/service.go:165` marks the user
(`require_reindex_after` = now) inside the importing transaction. Suppose an execution for an
earlier change starts after that mark and reads the user before the import commits. Its stamp
(`last_indexed_at` = its start) waits for the row's lock, is written after the commit, and is later
than the mark: the import's own task then finds "Already latest state, skip the update"
(`reindexer.go:75`) and the index stays without the import, until something else changes the user. One
consumer is enough (`UserReindexing`, 22 steps, if `OvertakesImport` is taken out of `raced`).
The sink, which marks after the commit, does not have the problem. The
properties of `reindexing` are stated up to `raced`, which this sets.

With two consumers the slower of two executions may overwrite the index with the older copy it has
read, or bring a deleted user back into it. This sets `raced`, too; nothing orders the two.

Seen while modelling, modelled as the code behaves, and not stated as a property because no
document promises otherwise (or because it does no harm):

- Third-party refresh tokens do not survive `TerminateAllExcept` (`oauth/session_manager.go:76`):
  the filter compares the empty deprecated authorization ID with client IDs.
- The device key of app2app is checked on one copy and written to another
  (`handler_token.go:552`): two first bindings at once both succeed.
- "Never remove the root token": housekeeping goes by position in a stale copy
  (`grant_offline_service.go:312`); after a revocation of the root in between it may remove
  what has become the root, and the grant with it. The service that called it then
  dereferences a nil grant (`service_token.go:230`).
- The client of a refresh is compared after the rotation (`handler_token.go:735`): a
  request that fails there has superseded the token its client holds.
- Two refreshes with one hash both succeed, the hash of the first being superseded at once
  (`service_token.go:313`).
- The last access of a session may go back by the time an access has waited for the mutex
  (`idpsession/provider.go:189`).
- `coordinator.go:1002` deletes the list of a user's sessions: a creation in flight keeps
  its key and has no entry. (This is the `wiped` of `UnlistedOnlyByRace`.)

Session groups:

- A session dropped from the list during its creation survives every sign-out and termination, cannot
  be listed, and makes the `Logout` of its own owner panic (`session/manager.go:156`), until an update
  sets its entry again. This is `dropped`, the exception of `SignOutIsComplete`,
  `LogoutPanicsOnlyIfGone`, `OrphanOnlyByRace` and `NewGrantReplacesOld`; run `idp_terminate_race` shows
  how it comes about.
- With `x_max_concurrent_session` = 1, "all refresh tokens of the client will be revoked when a new one
  is requested" (`docs/specs/oidc.md:26`). Only one branch of the exchange does so. A code that was
  authenticated by an offline grant has its token added to that grant
  (`handler_token.go:1818`): nothing is revoked, and two refresh tokens of the client are in force. A
  confidential client without `offline_access` gets a grant (`handler_token.go:1894`) without
  revocation. `NewGrantReplacesOld` is therefore about the branch that revokes.
- A code stays exchangeable after its IdP session was signed out and after a termination of all
  sessions. With `sso_enabled` the grant is of no use (`SignedOutGroupIsDead`); without it, it lives.
- `Logout` of a session that is gone by the time it lists panics, too; the server recovers.
- The deletion of a code that fails is only logged (`handler_token.go:657`); a failing
  `PrepareUserAccessGrant` leaves grant and code behind.
- `revokeClientOfflineGrants` revokes whole grants of the client, where `docs/specs/oidc.md:26`
  speaks of refresh tokens.
- App session tokens and pre-authenticated URL tokens are read and then deleted like codes
  (`oauth/redis/store.go:799`).

Rate limits and lockout:

- When a second limit refuses, or an error ends the loop of `RateLimits.Reserve`, the tokens taken
  from the first are not given back, although `docs/specs/rate-limit.md:23` speaks of failed
  attempts only.
- A cancellation that comes after its token has leaked gives back another reservation's: this is
  the term for each request in `GuessRateIsBounded`, absent from `RateIsBounded`.
- With a burst above the period in milliseconds the emission interval is 0 and the limit has no effect.
- EXPIREAT (seconds) is given milliseconds: keys of rate limits never expire (`gcra.go:46`). A lock
  with a fractional duration makes EXPIREAT fail after its SET.

One-time passwords:

- Two verifications at once may both succeed, and a late delivery result or submission may
  un-consume a used code or overwrite a new code with an old one (`UsedTwiceOnlyByOverlap`,
  `OlderCodeOnlyByOverlap`). The delivery result of one message may be recorded on the next code.
- A check that has read the counter before its reset may delete the code generated since.
- "This ensures the number of failed attempts outlives the OTP" (`attempt_tracker_redis.go:57`) holds
  but for a moment: a new code is in its key before the counter of the earlier one is reset
  (`service.go:265`, `269`), and INCR comes before EXPIRE. That counter may end in between,
  and the wrong guess of the new code it has just counted is forgotten. Everybody who has passed
  the check by then may guess again: this is why `WrongGuessesAreBounded` allows for the other
  processes twice.
- A verification with `SkipConsume` may be repeated.

Queue and events:

- A task that fails is completed with `IsSuccess` false and never tried again. Its key lives 20 minutes
  from SETNX, whatever the length of the queue; after that its item is dropped ("task item not
  found") and the reservation kept.
- A failing sink is only logged. `Stop` waits for a running task longer than its context allows.
- `getSourceWithAction` dereferences a nil user on any error but "not found"; `process` recovers.
- `event/service.go:67` registers its hook once per service, hooks live per transaction: events
  dispatched in a second transaction of one request, or in a read-only one, are not delivered, and
  events of a transaction that was rolled back stay pending.

## 6. Proofs

TLC answers for the instances above. The theorems hold for any sets of requests, sessions,
service providers, grants and authorizations, any lifetimes and any bounds; in particular for
any number of requests at work at once. They state every invariant and every action property
that the passing runs check.

### IdP sessions: `IDPSessionStore_proofs`

From the assumptions `RequestAssumption` and `TimeAssumption` of the module only:

| Theorem | Says | Assumes |
| --- | --- | --- |
| `TypeCorrect` | `[]TypeOK` | |
| `UnlistedOnlyByRaceThm` | a stored session is in the list, or a List met its creation half-way, or the list was deleted with the user | |
| `TerminationIsCompleteThm` | what a termination could see is gone when it returns | |
| `NoResurrectionThm` | a session that ended stays ended | |
| `ImplementsLifecycleThm` | the store implements `SessionLifecycle` | `~LeaseMayExpire` |
| `NoLostUpdateThm` | no update undoes another | `~LeaseMayExpire` |
| `EndlessOnlyInFlightThm` | only a crash leaves a stream of events without a TTL | |

None of the properties is inductive by itself. `SafetyInv` strengthens them: what is stored
has been born and what is born was issued (`BornInv`); a request that creates a session is
the only one that knows it, and it is in the list or a List has met it (`CreatingInv`); a
request about to remove a field from the list has seen, or has made, the session go
(`HDelInv`), so the HDEL does no harm; a termination still has every session it owes among
those it has to read, has found or has deleted (`SweepInv`). `LockInv` adds, for leases
that outlast their owners, that a request between its GET and its SET holds the mutex
(`MutexInv`), that the copy it holds is what is stored, up to its own change (`ValueInv`),
and that sessions that are not stored are blank (`UpdateInv`). Each is proved one action at
a time; `LifecycleStep` then maps every action to an action of `SessionLifecycle` or to a
stutter, and `NoLostUpdate` is a consequence of the abstract specification.
`EndlessOnlyInFlight` is inductive with the types: what a step adds to `endless` it adds
on its way to EXPIREAT, and a request leaves that step only by EXPIREAT or a crash.

### Offline grants: `OfflineGrantStore_proofs`

From `GrantAssumption` (finitely many requests, at least one authorization, mutex states that
are not requests) and `BoundAssumption` (positive lifetimes, bounds that are numbers):

| Theorem | Says |
| --- | --- |
| `TypeCorrect` | `[]TypeOK`; no update runs out of token numbers |
| `GrantHasTokenThm` | a stored grant has a refresh token |
| `ReturnedTokenWasInForceThm` | a rotated token that was handed out was in force, unless the grant is gone |
| `RevocationIsCompleteThm` | when a revocation or a termination returns, what it was about is gone |
| `ImplementsLedgerThm` | the store implements `RefreshTokenLedger` |
| `NotExpiredBeforeTimeoutThm` | without an idle timeout (`~IdleTimeoutEnabled`), the clock ends no grant before its lifetime is over |

The actions of the module let a lease end only when its owner is dead; the theorems hold
under this assumption, crashes and expiring keys included.

`IndInv` is the inductive invariant. TLC has checked its conjuncts before they were proved.
`ControlInv` says which update a request may be at in which flow; `CountInv`, that the
additions under way fit into the bound on tokens. `BornInv` and `ListInv` relate keys, list
and creations as for IdP sessions. `MutexInv` gives a request between its GET and its SET
the mutex, and with it `MemInv`: what SET XX is about to write differs from what is
stored by what the request was asked for and by nothing else (`Changed`). `MemInv` is the
heart of the argument, because the code writes back a whole JSON document: without it, an update
could undo another one. `TokenInv` numbers the tokens and says that the hash of a token that
is gone has been forgotten. `VersionInv` says that a hash is generated for one request, and
follows it to the SET that puts it in force or to the failure of the request. `SweepInv`
says of each token that a revocation owes (`Owed`) how it is going to reach it (`Pursued`):
its grant has not been read yet, or is in memory with the token in it, or is about
to be written without it.

`StoreStepThm` reduces all actions to four: nothing stored changes, keys disappear, a grant
is created, or a grant is written by a request that has its mutex. The invariants about
tokens are proved against these four, and `LedgerStep` maps them to the actions of
`RefreshTokenLedger`.

`LifetimeInv` is about the TTL. An update writes an expiry that was computed earlier: from the
grant the request was resolved with, from a copy of a List, or by housekeeping from what the
update before has returned. All of them are right because no update changes the time of
creation (`MutatedBirth`), so that a grant that is still stored was created when all these
copies say (`BirthKept`). With an idle timeout the last access counts as well, an access
changes it, and run `grants_idle` shows what comes of that: the hypothesis of the theorem
is where the code is right, not a convenience.

### Session groups: `SessionGroups_proofs`

From `GroupAssumption` (finite sets of keys, which are disjoint):

| Theorem | Says |
| --- | --- |
| `TypeCorrect` | `[]TypeOK` |
| `SignOutCorrect` | what a sign-out was about is gone for good when it returns, but for sessions dropped from the list |
| `SignedOutGroupCorrect` | no later request accepts a grant of a group that was signed out, or adds a token to it |
| `OrphanCorrect` | a grant without its IdP session was issued during or after the sign-out, or was dropped, or the session expired or was terminated |
| `LogoutPanicCorrect` | a logout fails only for a session that is gone or was dropped |
| `NewGrantReplacesOldCorrect` | when an exchange for a refresh token writes a grant of a client with one session, every other grant with a token of the client is gone, was issued behind its back, or was dropped |
| `CodeUseCorrect` | a code yields two grants only by an overlap or a failure |

`GroupInv` is inductive. `Entries` says how a stored session can be missing from the list: a List has
dropped it during its creation (`BornOf` follows the entry of what is being created up to its key).
With it, what a List shows is all that is stored and not dropped, and the rest says of each request
what it has left to do: what is stored of its `goal` is still to be listed or deleted (`SignOutOf`);
what it has not found is gone or dropped (`FoundOf`); a use of a dead grant does not get past the
missing session (`DeadOf`); a sign-out has every grant of the group that is stored among those it
deletes, or the grant is `late` or dropped (`GroupOf`: with "grants first" this is why a crash leaves
no orphan); an exchange has every other grant of the client in its queue, or that is `unseen` or
dropped (`SingleOf`). `CodeIsUsedOnce`: a code that has its grant is gone or in the hands of the one
request that issued it. What cannot be strengthened away are the exceptions: run
`idp_terminate_race` shows the first of them.

### Guesses: `LeakyBucket_proofs`, `AuthenticationAttempts_proofs`

From `LimitAssumption`, `LockoutAssumption` and `FiniteAssumption`: any limits, weights, configurations
and back-off, any finite sets of contributors and of requests, of which there is one at least
(the bounds say "the other requests").

| Theorem | Says |
| --- | --- |
| `LeakyBucketIsBounded` | a leaky bucket receives in any window at most its capacity plus what leaks |
| `TypeCorrect` | `[]TypeOK` |
| `RefinementCorrect` | the limits, with reservations and late cancellations, implement `LeakyBucket` |
| `RateCorrect` | the bound of `LeakyBucketIsBounded` for the limits, through the refinement |
| `TimeToActCorrect` | who waits as long as it was told is not refused |
| `LockCorrect` | a lock is neither lifted nor moved before its time |
| `GuessRateCorrect` | wrong guesses keep to the rate, up to one token per request |
| `TotalCorrect` | the total of the failed attempts is the sum of its parts |
| `GuessesPerLockCorrect` | between two locks wrong guesses are bounded by the threshold, twice the other requests, and failures |

The refinement needs the arithmetic of `gcra.go`, done once in lemmas: increments are whole and
have the sign of the weight, the tolerance is what the burst weighs, and a call conforms exactly
if the level and its increment fit into it. The bound of the abstract bucket follows from `level
>= net - (now - since)`. `TimeToActIsHonest` follows because the arrival time only grows by calls
that renew the promise.

The other three are about sums over contributors or over requests. `SumTheorems` proves what
`SumFunctionOnSet` of the community modules computes, for every finite set: that the fold
behind it is defined, that the order does not matter, and what a change of one term does. The
library's induction theorems cannot be instantiated here, so the induction over sets is done by
hand, from the well-foundedness of strict inclusion.

- `TotalIsSumOfParts` is inductive: an attempt adds the same to both, a clear-out takes the part
  of one contributor away, an expiry everything.
- `GuessRateIsBounded` is not, because a guess takes its token before it is compared.
  `DebtIsBounded` counts beside the guesses the tokens that requests hold (`Held`) and may still
  guess with or give back: together they exceed what the bucket has netted by one token per
  request, which is what each may hold when a window is opened. The theorem follows with
  `RateCorrect`.
- `GuessesPerLockAreBounded` needs to know where a guess is accounted for (`GuessesAccountedFor`).
  While a lock is on, guesses since it began and comparisons under way are no more than the other
  requests. Without a lock, guesses are in the record, about to be counted, lost by a failure, or
  left over from the last lock. This is said of every subset of those who share a lock,
  because a success clears one contributor only.

### One-time passwords: `OneTimePasswords_proofs`

From `OTPAssumption` (finitely many processes, one at least, and a permitted attempt);
`TypeInv`, `CopyInv` and `GuessInv` are inductive.

| Theorem | Says |
| --- | --- |
| `TypeCorrect` | `[]TypeOK` |
| `SingleUseCorrect` | a code is used twice only if a copy was written that was no longer current |
| `LatestCodeCorrect` | an older code is in the key only by such a write |
| `ExpiryCorrect` | no write prolongs a code |
| `WrongGuessesCorrect` | wrong guesses of a code are bounded by those permitted, twice the other processes, and failures |

`CopyInv`: codes are known only once generated (`Known`); the copies of a code and the code
itself expire together (`SameEnd`); a code that was used is consumed in the key, or has been
overlapped, and who is about to consume has a copy that is not consumed (`UsedIsConsumed`).

`GuessInv` accounts for wrong guesses. As long as the counter ends no earlier than a code, or has
no end, the wrong guesses of that code are at most those counted, those still to be counted, those
lost by failures, and the other processes (`CountedUntil`). If the counter ends before the code,
nobody has extended it since the code was generated: then every guess so far is by a process
between its comparison and EXPIRE, or was lost, and one process is still to reset the counter or
has failed to. Once the counter is full, only who had passed its check before may guess
(`CheckedFirst`). This is said of the code in the key and of every copy that may be written back
(`Copies`). The bound the project first stated, with the other processes once, holds for two
processes and is false for three, where the counter of an earlier code ends in between: the
invariant could not be proved, and TLC has the behaviour.

### Re-indexing: `UserReindexing_proofs`

From `QueueAssumption` and `ChangeAssumption`: any number of consumers and changes.

| Theorem | Says |
| --- | --- |
| `TypeCorrect` | `[]TypeOK`; no task is in the queue twice |
| `TaskLossCorrect` | a pending task is in the queue or with a running consumer, unless a failure has met it |
| `UpToDateMarkCorrect` | when an execution may skip, every committed change is in the index, or is about to be marked, or something failed or was overtaken |
| `CompletedTaskCorrect` | a completed task has brought its change to the index |

`ReindexInv` is inductive. `UnreadOf` is the reason why the mark is honest: a change that an
execution has not read is still to be marked, or is marked with a time not before its start, or failed,
or is an import; the last case is the bug of section 5. `PastOf` (no time is ahead of the clock) and
`LockIsHeld` (an import holds the row, so nothing was marked since it looked at the clock) support
it, and `ExecutionOf` follows a task from its reading to its completion. `Grows` says once
what every step adds and never takes back; the proofs about executions use it instead of the actions.

### Only model-checked

The liveness of `grants_live` (`GrantMutexIsReleased`) and of `reindexing` (`IndexCatchesUp`):
fairness is out of the prover's reach. `NotExpiredBeforeTimeout` with an idle timeout,
`ResolvedTokenIsStillThere` and `AllSessionsAreTerminated` are false, and their runs show it. No
theorem is about a recursive operator; sums over sets are folds, and `SumTheorems` says what they
are.

## 7. Not modelled

- The authentication flow engine (`authenticationflow/service.go`, `store.go`, `accept.go`), next in
  the plan. To be shown: two inputs with one state token may both reach the end and commit the
  effects twice; a slow `CreateFlow` writes the flow's key again after `DeleteFlow`, of no use because
  the session is gone and `UpdateSession` is a SETXX; a `DeleteSession` that fails after the commit
  lets a retry finish again; a session document is read and written back whole, so concurrent
  inputs lose counts of each other; delayed functions (sending a code) run although the accept
  then fails. What intents and nodes do is given by the configuration and stays out.
- Usage limits and fraud protection: one Lua script per decision; next after the flow engine.
- Several transactions of one request, blocking hooks and the other sinks of events (section 5
  says what was seen).
- App session tokens, pre-authenticated URL tokens and access grants of the token endpoint: single
  keys read and then deleted, with the hazard that `CodeUsedTwiceOnlyByOverlap` shows for codes.
- Identities, authenticators, roles, account status, Admin API, portal: rows written in one
  SQL transaction per request. What can go wrong between two requests is decided by the isolation of
  PostgreSQL and by its constraints; a model would be one of PostgreSQL.
- The configuration source, import and export formats, audit log, templates, user interface, command
  line: input and output, or constants of the other models. Generated code (`wire_gen.go` and the
  like), which is a large part of the repository's lines, only connects constructors.
- The older `workflow` and `interaction` engines, which the flow engine replaces.
- SAML, passkeys, DPoP, app2app and nonces: cryptographic checks of one request; what they write to
  sessions is in the session modules.

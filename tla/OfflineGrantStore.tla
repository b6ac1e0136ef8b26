-------------------------- MODULE OfflineGrantStore --------------------------
(***************************************************************************)
(* Offline grants of one user, as pkg/lib/oauth keeps them in Redis, and    *)
(* the requests that work on them: token refresh with rotation and          *)
(* housekeeping, session resolution, issue of further refresh tokens,       *)
(* revocation of an authorization, termination of sessions.                 *)
(*                                                                          *)
(* A step is one Redis command of one request, with two exceptions: taking  *)
(* a grant's mutex goes together with the GET that follows it, and a SET    *)
(* with the unlocking that follows it.  Nobody else does anything under the *)
(* mutex in between, and a command that does not take the mutex (DEL, HDEL, *)
(* a List) may as well come before the one pair or after the other.         *)
(***************************************************************************)
EXTENDS Naturals, FiniteSets

CONSTANTS
    Request,            \* goroutines that serve requests
    Grant,              \* the UUIDs that uuid.New may return
    Authorization,      \* rows of the authorization table at the start
    Flow,               \* what the requests of an instance are for
    Free, Abandoned,    \* states of a mutex without a running owner
    Lifetime,           \* OAuthClientConfig.RefreshTokenLifetime
    IdleTimeout,        \* OAuthClientConfig.RefreshTokenIdleTimeout
    IdleTimeoutEnabled, \* OAuthClientConfig.RefreshTokenIdleTimeoutEnabled
    ShortLifetime,      \* lifetime of the tokens of pre-authenticated URLs
    RotationEnabled,    \* OAuthClientConfig.RefreshTokenRotationEnabled
    MaxTokens,          \* bound: tokens a grant may have in its life
    MaxRotations,       \* bound: rotated hashes generated
    MaxTime,            \* bound: the clock stops here
    MaxCrashes          \* bound: requests that die half-way

Flows == {"create", "refresh", "cookie", "bearer", "issue", "reauth", "saml",
          "revoke", "terminate"}

ASSUME GrantAssumption ==
    /\ Free \notin Request /\ Abandoned \notin Request /\ Free # Abandoned
    /\ Flow \subseteq Flows /\ Authorization # {} /\ IsFiniteSet(Request)
ASSUME BoundAssumption ==
    /\ Lifetime \in Nat \ {0} /\ IdleTimeout \in Nat \ {0} /\ ShortLifetime \in Nat \ {0}
    /\ IdleTimeoutEnabled \in BOOLEAN /\ RotationEnabled \in BOOLEAN
    /\ MaxTokens \in Nat \ {0} /\ MaxRotations \in Nat
    /\ MaxTime \in Nat /\ MaxCrashes \in Nat

VARIABLES
    now,
    stored,         \* grants whose string key exists in Redis
    value, ttl,     \* per grant: what the key holds, and when Redis removes it
    list,           \* fields of the session-list hash
    mutex,          \* Redis mutex of each grant
    authorizations, \* rows of the authorization table (SQL)
    pc, flow, op,   \* per request: next step, request, update being made
    gid,            \* per request: the grant it is about
    token, version, \* per request: the refresh token and the hash presented or generated
    az,             \* per request: the authorization it is about
    event,          \* per request: timestamp of its access.Event
    session,        \* per request: ExpireAtForResolvedSession of the grant it resolved
    expireAt,       \* per request: expireAt argument of the update
    mem,            \* per request: the grant in memory
    remove,         \* per request: tokens to remove
    todo, seen,     \* per request: HGETALL's keys not read yet, grants read
    copy,           \* per request: the grants List returned
    doomed,         \* history: tokens a revocation should remove, by grant
    issued,         \* history: UUIDs handed out
    born,           \* history: grants whose key has existed
    appended,       \* history: per grant, how many tokens it has ever had
    rotations,      \* history: hashes generated by rotations
    applied,        \* history: those put in force
    missed,         \* history: grants a List did not see because SETNX came later
    crashes

redis   == <<stored, value, ttl, list, mutex>>
locals  == <<flow, op, gid, token, version, az, event, session, expireAt, mem, remove,
             todo, seen, copy>>
history == <<doomed, issued, born, appended, rotations, applied, missed>>
vars    == <<now, redis, authorizations, pc, locals, history, crashes>>

Time    == 0 .. MaxTime
Expiry  == 0 .. (MaxTime + Lifetime)
TokenId == 1 .. MaxTokens     \* refresh tokens of a grant, in the order of their addition
Version == 0 .. MaxRotations  \* 0: the initial hash of a token, v: the v-th rotated one

\* type OfflineGrantRefreshToken; expireAt is 0 for nil (a token that is not short-lived)
TokenData ==
    [authorization: Authorization, current: Version, createdAt: Time, lastAccess: Time,
     expireAt: 0 .. (MaxTime + ShortLifetime)]

\* type OfflineGrant; deviceKey holds the requests whose key the grant was given
GrantData ==
    [createdAt: Time, lastAccess: Time, deviceKey: SUBSET Request,
     tokens: SUBSET TokenId, info: [TokenId -> TokenData]]

SomeAuthorization == CHOOSE a \in Authorization : TRUE
NoToken == [authorization |-> SomeAuthorization, current |-> 0, createdAt |-> 0,
            lastAccess |-> 0, expireAt |-> 0]
NoGrant == [createdAt |-> 0, lastAccess |-> 0, deviceKey |-> {}, tokens |-> {},
            info |-> [t \in TokenId |-> NoToken]]

\* (mutant: both timeouts are added)
ExpiryOfSum(x) == x.createdAt + Lifetime + IdleTimeout

\* computeRefreshTokenExpiryWithClient, the same for a grant and for one of its tokens
ExpiryOf(x) ==
    LET end  == x.createdAt + Lifetime
        idle == x.lastAccess + IdleTimeout
    IN  IF IdleTimeoutEnabled /\ idle < end THEN idle ELSE end

Root(g) == CHOOSE t \in g.tokens : \A u \in g.tokens : t <= u

Init ==
    /\ now = 0 /\ crashes = 0
    /\ stored = {} /\ list = {}
    /\ value = [g \in Grant |-> NoGrant]
    /\ ttl = [g \in Grant |-> 0]
    /\ mutex = [g \in Grant |-> Free]
    /\ authorizations = Authorization
    /\ pc = [r \in Request |-> "idle"]
    /\ flow = [r \in Request |-> "terminate"] /\ op = [r \in Request |-> "none"]
    /\ gid \in {[r \in Request |-> g] : g \in Grant}
    /\ token = [r \in Request |-> 1] /\ version = [r \in Request |-> 0]
    /\ az = [r \in Request |-> SomeAuthorization]
    /\ event = [r \in Request |-> 0]
    /\ session = [r \in Request |-> 0] /\ expireAt = [r \in Request |-> 0]
    /\ mem = [r \in Request |-> NoGrant]
    /\ remove = [r \in Request |-> {}]
    /\ todo = [r \in Request |-> {}] /\ seen = [r \in Request |-> {}]
    /\ copy = [r \in Request |-> [g \in Grant |-> NoGrant]]
    /\ doomed = [r \in Request |-> {}]
    /\ issued = {} /\ born = {} /\ missed = {} /\ applied = {} /\ rotations = 0
    /\ appended = [g \in Grant |-> 0]

\* Keys disappear, by DEL or because their TTL has passed.
Gone(G) ==
    /\ stored' = stored \ G
    /\ value' = [g \in Grant |-> IF g \in G THEN NoGrant ELSE value[g]]
    /\ ttl' = [g \in Grant |-> IF g \in G THEN 0 ELSE ttl[g]]

Goto(r, from, to) == pc[r] = from /\ pc' = [pc EXCEPT ![r] = to]

----------------------------------------------------------------------------
(* Requests arriving.  One that fails its first checks changes nothing and   *)
(* is not modelled: the guards below are those checks.                       *)

\* OfflineGrantService.GetOfflineGrant, for a grant without SSO
GetOfflineGrant(g) == g \in stored /\ now <= ExpiryOf(value[g])

\* A request goes on to a step of update o of grant g, with the grant as it is now.
Resolved(r, f, g, t, step, o) ==
    /\ f \in Flow
    /\ GetOfflineGrant(g)
    /\ Goto(r, "idle", step)
    /\ flow' = [flow EXCEPT ![r] = f] /\ op' = [op EXCEPT ![r] = o]
    /\ gid' = [gid EXCEPT ![r] = g] /\ token' = [token EXCEPT ![r] = t]
    /\ event' = [event EXCEPT ![r] = now]
    /\ session' = [session EXCEPT ![r] = ExpiryOf(value[g])]
    /\ expireAt' = [expireAt EXCEPT ![r] = ExpiryOf(value[g])]
    /\ UNCHANGED <<now, redis, authorizations, mem, remove, todo, seen, copy, doomed,
                   issued, born, appended, applied, missed, crashes>>

\* TokenService.IssueOfflineGrant, then CreateOfflineGrant up to its HSET
BeginCreate(r, g, a) ==
    /\ "create" \in Flow /\ g \notin issued /\ a \in authorizations
    /\ Goto(r, "idle", "create.setnx")
    /\ flow' = [flow EXCEPT ![r] = "create"]
    /\ gid' = [gid EXCEPT ![r] = g]
    /\ mem' = [mem EXCEPT ![r] =
                 [createdAt |-> now, lastAccess |-> now, deviceKey |-> {}, tokens |-> {1},
                  info |-> [t \in TokenId |->
                      IF t = 1 THEN [authorization |-> a, current |-> 0, createdAt |-> now,
                                     lastAccess |-> now, expireAt |-> 0]
                      ELSE NoToken]]]
    /\ issued' = issued \cup {g}
    /\ list' = list \cup {g}
    /\ UNCHANGED <<now, stored, value, ttl, mutex, authorizations, op, token, version, az,
                   event, session, expireAt, remove, todo, seen, copy, doomed, born,
                   appended, rotations, applied, missed, crashes>>

\* PrepareUserAccessGrantByRefreshToken comes after the device secret
Preparation == IF RotationEnabled THEN <<"reread", "rotate">> ELSE <<"client", "access">>

\* handleRefreshToken up to ParseRefreshToken: the client presents the hash in force.
\* The device secret is rotated when the token has the scope for it.  The new refresh
\* token is a random number: when it is generated does not matter.
BeginRefresh(r, g, t) ==
    /\ t \in value[g].tokens
    /\ value[g].info[t].authorization \in authorizations
    /\ RotationEnabled => rotations < MaxRotations
    /\ \/ Resolved(r, "refresh", g, t, "lock", "deviceSecret")
       \/ Resolved(r, "refresh", g, t, Preparation[1], Preparation[2])
    /\ rotations' = IF RotationEnabled THEN rotations + 1 ELSE rotations
    /\ version' = [version EXCEPT ![r] = rotations']
    /\ UNCHANGED az

\* resolveAppSessionCookie and resolveAccessToken up to accessOfflineGrant.  An access token
\* outlives the refresh token it was issued with: whether that is still there is looked at
\* after the access.
BeginResolve(r, f, g, t) ==
    /\ f \in {"cookie", "bearer"} /\ t <= appended[g]
    /\ t \notin value[g].tokens => f = "bearer"
    /\ t \in value[g].tokens => value[g].info[t].authorization \in authorizations
    /\ Resolved(r, f, g, t, "lock", "access")
    /\ UNCHANGED <<version, az, rotations>>

\* IssueRefreshTokenForOfflineGrant and PreAuthenticatedURLTokenService's
\* ExchangeForAccessToken (a short-lived token), up to AddOfflineGrantRefreshToken
BeginIssue(r, g, a, o) ==
    /\ a \in authorizations /\ o \in {"add", "addShortLived"}
    /\ appended[g] + Cardinality({q \in Request : flow[q] = "issue"}) < MaxTokens
    /\ Resolved(r, "issue", g, token[r], "lock", o)
    /\ az' = [az EXCEPT ![r] = a]
    /\ UNCHANGED <<version, rotations>>

\* doIssueTokensForAuthorizationCode with an id_token_hint: updates of the time of
\* authentication and of the device secret, each if need be, then of the app2app device key
\* (app2appUpdateDeviceKeyIfNeeded)
BeginReauth(r, g, o) ==
    /\ o \in {"authTime", "deviceSecret"} \/ (o = "deviceKey" /\ value[g].deviceKey = {})
    /\ Resolved(r, "reauth", g, token[r], "lock", o)
    /\ UNCHANGED <<version, az, rotations>>

\* OfflineGrantService.AddSAMLServiceProviderParticipant of a session just resolved
BeginSAML(r, g) ==
    /\ Resolved(r, "saml", g, token[r], "lock", "participant")
    /\ UNCHANGED <<version, az, rotations>>

\* HGETALL, for AuthorizationService.Delete (of authorization a) or for the callers that
\* delete grants: SessionManager.TerminateAllExcept and Manager.invalidate
BeginList(r, f, a) ==
    /\ f \in Flow
    /\ Goto(r, "idle", "list.get")
    /\ flow' = [flow EXCEPT ![r] = f] /\ az' = [az EXCEPT ![r] = a]
    /\ todo' = [todo EXCEPT ![r] = list]
    /\ doomed' = [doomed EXCEPT ![r] =
                    {x \in stored \X TokenId :
                        /\ x[2] \in value[x[1]].tokens
                        /\ f = "terminate" \/ value[x[1]].info[x[2]].authorization = a}]
    /\ UNCHANGED <<now, redis, authorizations, op, gid, token, version, event, session,
                   expireAt, mem, remove, seen, copy, issued, born, appended, rotations,
                   applied, missed, crashes>>

----------------------------------------------------------------------------
(* The updates of Store: mutex, GET, mutation, HSET, SET XX *)

CreateSetNX(r) ==
    /\ IF ExpiryOf(mem[r]) > now
       THEN /\ Goto(r, "create.setnx", "done")
            /\ stored' = stored \cup {gid[r]}
            /\ value' = [value EXCEPT ![gid[r]] = mem[r]]
            /\ ttl' = [ttl EXCEPT ![gid[r]] = ExpiryOf(mem[r])]
            /\ born' = born \cup {gid[r]}
            /\ appended' = [appended EXCEPT ![gid[r]] = 1]
       ELSE /\ Goto(r, "create.setnx", "failed")
            /\ UNCHANGED <<stored, value, ttl, born, appended>>
    /\ UNCHANGED <<now, list, mutex, authorizations, locals, doomed, issued, rotations,
                   applied, missed, crashes>>

\* (mutant: no mutual exclusion)
LockIgnored(r) ==
    LET g == gid[r]
        found == g \in stored /\ (op[r] = "rotate" => token[r] \in value[g].tokens)
    IN  /\ IF found
           THEN /\ Goto(r, "lock", "hset")
                /\ mutex' = [mutex EXCEPT ![g] = r]
                /\ mem' = [mem EXCEPT ![r] = value[g]]
           ELSE Goto(r, "lock", "failed") /\ UNCHANGED <<mutex, mem>>
        /\ UNCHANGED <<now, stored, value, ttl, list, authorizations, flow, op, gid, token,
                       version, az, event, session, expireAt, remove, todo, seen, copy,
                       history, crashes>>

\* (mutant: ErrGrantNotFound is not an error for the caller)
LockAndGetSwallowsError(r) ==
    LET g == gid[r]
        found == g \in stored /\ (op[r] = "rotate" => token[r] \in value[g].tokens)
    IN  /\ mutex[g] = Free
        /\ IF found
           THEN /\ Goto(r, "lock", "hset")
                /\ mutex' = [mutex EXCEPT ![g] = r]
                /\ mem' = [mem EXCEPT ![r] = value[g]]
           ELSE Goto(r, "lock", "done") /\ UNCHANGED <<mutex, mem>>
        /\ UNCHANGED <<now, stored, value, ttl, list, authorizations, flow, op, gid, token,
                       version, az, event, session, expireAt, remove, todo, seen, copy,
                       history, crashes>>

\* The mutex is taken and the grant read, unless it is not there or
\* (RotateOfflineGrantRefreshToken) no longer has the token: the mutex is free again.
LockAndGet(r) ==
    LET g == gid[r]
        found == g \in stored /\ (op[r] = "rotate" => token[r] \in value[g].tokens)
    IN  /\ mutex[g] = Free
        /\ IF found
           THEN /\ Goto(r, "lock", "hset")
                /\ mutex' = [mutex EXCEPT ![g] = r]
                /\ mem' = [mem EXCEPT ![r] = value[g]]
           ELSE Goto(r, "lock", "failed") /\ UNCHANGED <<mutex, mem>>
        /\ UNCHANGED <<now, stored, value, ttl, list, authorizations, flow, op, gid, token,
                       version, az, event, session, expireAt, remove, todo, seen, copy,
                       history, crashes>>

\* redsync.WithTries(5)
LockGivesUp(r) ==
    /\ mutex[gid[r]] # Free
    /\ Goto(r, "lock", "failed")
    /\ UNCHANGED <<now, redis, authorizations, locals, history, crashes>>

WithoutTokens(g, T) ==
    [g EXCEPT !.tokens = @ \ T,
              !.info = [t \in TokenId |-> IF t \in T THEN NoToken ELSE @[t]]]

\* AccessOfflineGrant's mutator: a token that is gone is not accessed
Accessed(g, t, at) ==
    [g EXCEPT !.lastAccess = at,
              !.info[t].lastAccess = IF t \in g.tokens THEN at ELSE @]

\* What the update functions change in the grant they have read.  Updates of the device
\* secret, of the device info, of the time of authentication and of the SAML
\* participants write back a grant in which nothing that is modelled has changed.
Mutated(r) ==
    LET g == mem[r] IN
    CASE op[r] \in {"add", "addShortLived"} ->
            [g EXCEPT !.tokens = @ \cup {appended[gid[r]] + 1},
                      !.info[appended[gid[r]] + 1] =
                          [authorization |-> az[r], current |-> 0, createdAt |-> now,
                           lastAccess |-> event[r],
                           expireAt |-> IF op[r] = "add" THEN 0
                                        ELSE event[r] + ShortLifetime]]
      [] op[r] = "rotate"              -> [g EXCEPT !.info[token[r]].current = version[r]]
      [] op[r] \in {"trim", "revoke"}  -> WithoutTokens(g, remove[r])
      [] op[r] = "access"              -> Accessed(g, token[r], event[r])
      [] op[r] = "deviceKey"           -> [g EXCEPT !.deviceKey = {r}]
      [] OTHER                         -> g

\* (mutant: a grant without tokens is written back)
UpdateHSetEmpty(r) ==
    /\ Goto(r, "hset", "set")
    /\ mem' = [mem EXCEPT ![r] = Mutated(r)]
    /\ list' = list \cup {gid[r]}
    /\ UNCHANGED <<now, stored, value, ttl, mutex, authorizations, flow, op, gid, token,
                   version, az, event, session, expireAt, remove, todo, seen, copy,
                   history, crashes>>

UpdateHSet(r) ==
    /\ Mutated(r).tokens # {}
    /\ Goto(r, "hset", "set")
    /\ mem' = [mem EXCEPT ![r] = Mutated(r)]
    /\ list' = list \cup {gid[r]}
    /\ UNCHANGED <<now, stored, value, ttl, mutex, authorizations, flow, op, gid, token,
                   version, az, event, session, expireAt, remove, todo, seen, copy,
                   history, crashes>>

\* Where a request is when its update has returned: the next step and its update.
After(r) ==
    CASE op[r] \in {"add", "addShortLived", "rotate"}  -> <<"housekeep", "trim">>
      [] flow[r] = "refresh" /\ op[r] = "deviceSecret" -> Preparation
      [] flow[r] = "refresh" /\ op[r] = "trim"         -> <<"client", "access">>
      [] flow[r] = "refresh" /\ op[r] = "access"       -> <<"lock", "deviceInfo">>
      [] flow[r] = "issue" /\ op[r] = "trim" ->
            <<IF mem[r] = NoGrant THEN "panic" ELSE "done", "none">>
      [] flow[r] = "reauth" /\ op[r] = "authTime"     -> <<"lock", "deviceSecret">>
      [] flow[r] = "reauth" /\ op[r] = "deviceSecret" /\ mem[r].deviceKey = {} ->
            <<"lock", "deviceKey">>
      [] flow[r] = "cookie" -> <<IF token[r] \in mem[r].tokens THEN "done" ELSE "panic", "none">>
      [] flow[r] = "bearer" -> <<IF token[r] \in mem[r].tokens THEN "done" ELSE "failed", "none">>
      [] flow[r] = "revoke" -> <<"list.get", "none">>
      [] OTHER              -> <<"done", "none">>

Continue(r, step) ==
    /\ pc' = [pc EXCEPT ![r] = step[1]]
    /\ op' = [op EXCEPT ![r] = step[2]]
    /\ remove' = [remove EXCEPT ![r] = {}]

\* (mutant: SET without XX)
UpdateSet(r) ==
    LET g == gid[r]
        written == expireAt[r] > now
    IN  /\ pc[r] = "set"
        /\ \/ expireAt[r] > now /\ Continue(r, After(r))
           \/ ~written /\ Continue(r, <<"failed", op[r]>>)
        /\ mutex' = [mutex EXCEPT ![g] = IF @ = r THEN Free ELSE @]
        /\ IF written
           THEN /\ stored' = stored \cup {g}
                /\ value' = [value EXCEPT ![g] = mem[r]]
                /\ ttl' = [ttl EXCEPT ![g] = expireAt[r]]
                /\ appended' = IF op[r] \in {"add", "addShortLived"}
                               THEN [appended EXCEPT ![g] = @ + 1] ELSE appended
                /\ applied' = IF op[r] = "rotate" THEN applied \cup {version[r]} ELSE applied
           ELSE UNCHANGED <<stored, value, ttl, appended, applied>>
        /\ UNCHANGED <<now, list, authorizations, flow, gid, token, version, az,
                       event, session, expireAt, mem, todo, seen, copy, doomed, issued, born,
                       rotations, missed, crashes>>

\* SET XX writes only over a key that is still there, and Redis refuses a TTL that is
\* already past; as for IdP sessions, a missing key may or may not be noticed.
UpdateSetXX(r) ==
    LET g == gid[r]
        written == g \in stored /\ expireAt[r] > now
    IN  /\ pc[r] = "set"
        /\ \/ expireAt[r] > now /\ Continue(r, After(r))
           \/ ~written /\ Continue(r, <<"failed", op[r]>>)
        /\ mutex' = [mutex EXCEPT ![g] = IF @ = r THEN Free ELSE @]
        /\ IF written
           THEN /\ value' = [value EXCEPT ![g] = mem[r]]
                /\ ttl' = [ttl EXCEPT ![g] = expireAt[r]]
                /\ appended' = IF op[r] \in {"add", "addShortLived"}
                               THEN [appended EXCEPT ![g] = @ + 1] ELSE appended
                /\ applied' = IF op[r] = "rotate" THEN applied \cup {version[r]} ELSE applied
           ELSE UNCHANGED <<value, ttl, appended, applied>>
        /\ UNCHANGED <<now, stored, list, authorizations, flow, gid, token, version, az,
                       event, session, expireAt, mem, todo, seen, copy, doomed, issued, born,
                       rotations, missed, crashes>>

\* RemoveOfflineGrantRefreshTokens deletes a grant that has no token left and returns
\* nil for it: DEL, then HDEL and the unlocking.
RemoveDel(r) ==
    /\ Mutated(r).tokens = {}
    /\ Goto(r, "hset", "hdel")
    /\ mem' = [mem EXCEPT ![r] = NoGrant]
    /\ Gone({gid[r]})
    /\ UNCHANGED <<now, list, mutex, authorizations, flow, op, gid, token, version, az,
                   event, session, expireAt, remove, todo, seen, copy, history, crashes>>

\* (mutant: the mutex stays locked)
RemoveHDelLeaksMutex(r) ==
    /\ pc[r] = "hdel"
    /\ Continue(r, After(r))
    /\ list' = list \ {gid[r]}
    /\ UNCHANGED <<now, stored, value, ttl, mutex, authorizations, flow, gid, token, version, az,
                   event, session, expireAt, mem, todo, seen, copy, history, crashes>>

RemoveHDel(r) ==
    /\ pc[r] = "hdel"
    /\ Continue(r, After(r))
    /\ list' = list \ {gid[r]}
    /\ mutex' = [mutex EXCEPT ![gid[r]] = IF @ = r THEN Free ELSE @]
    /\ UNCHANGED <<now, stored, value, ttl, authorizations, flow, gid, token, version, az,
                   event, session, expireAt, mem, todo, seen, copy, history, crashes>>

----------------------------------------------------------------------------
(* What the callers do between their updates *)

\* RotateRefreshToken is given the grant as PrepareUserAccessGrantByRefreshToken reads it.
Reread(r) ==
    /\ IF GetOfflineGrant(gid[r])
       THEN /\ Goto(r, "reread", "lock")
            /\ expireAt' = [expireAt EXCEPT ![r] = ExpiryOf(value[gid[r]])]
       ELSE Goto(r, "reread", "failed") /\ UNCHANGED expireAt
    /\ UNCHANGED <<now, redis, authorizations, flow, op, gid, token, version, az, event,
                   session, mem, remove, todo, seen, copy, history, crashes>>

\* (mutant: the expiry of a short-lived token becomes that of the grant)
HousekeepWithTokenExpiry(r) ==
    /\ Goto(r, "housekeep", "lock")
    /\ remove' = [remove EXCEPT ![r] =
           {t \in mem[r].tokens \ {Root(mem[r])} :
               \/ now > ExpiryOf(mem[r].info[t])
               \/ 0 < mem[r].info[t].expireAt /\ mem[r].info[t].expireAt < now}]
    /\ expireAt' = [expireAt EXCEPT ![r] =
           IF \E t \in mem[r].tokens : mem[r].info[t].expireAt > 0
           THEN CHOOSE e \in Expiry : \E t \in mem[r].tokens : mem[r].info[t].expireAt = e /\ e > 0
           ELSE ExpiryOf(mem[r])]
    /\ UNCHANGED <<now, redis, authorizations, flow, op, gid, token, version, az, event,
                   session, mem, todo, seen, copy, history, crashes>>

\* housekeepOfflineGrant, on the grant that the update before has returned
HousekeepOfflineGrant(r) ==
    /\ Goto(r, "housekeep", "lock")
    /\ remove' = [remove EXCEPT ![r] =
           {t \in mem[r].tokens \ {Root(mem[r])} :
               \/ now > ExpiryOf(mem[r].info[t])
               \/ 0 < mem[r].info[t].expireAt /\ mem[r].info[t].expireAt < now}]
    /\ expireAt' = [expireAt EXCEPT ![r] = ExpiryOf(mem[r])]
    /\ UNCHANGED <<now, redis, authorizations, flow, op, gid, token, version, az, event,
                   session, mem, todo, seen, copy, history, crashes>>

\* handleRefreshToken: "client id doesn't match the refresh token" fails the request
\* after the rotation
ClientCheck(r) ==
    /\ \/ Goto(r, "client", "lock") /\ expireAt' = [expireAt EXCEPT ![r] = session[r]]
       \/ Goto(r, "client", "failed") /\ UNCHANGED expireAt
    /\ UNCHANGED <<now, redis, authorizations, flow, op, gid, token, version, az, event,
                   session, mem, remove, todo, seen, copy, history, crashes>>

----------------------------------------------------------------------------
(* ListOfflineGrants and its callers *)

ListGet(r, g) ==
    /\ g \in todo[r]
    /\ todo' = [todo EXCEPT ![r] = @ \ {g}]
    /\ IF g \in stored
       THEN /\ Goto(r, "list.get", "list.get")
            /\ seen' = [seen EXCEPT ![r] = @ \cup {g}]
            /\ copy' = [copy EXCEPT ![r][g] = value[g]]
            /\ UNCHANGED <<gid, missed>>
       ELSE /\ Goto(r, "list.get", "list.hdel")
            /\ gid' = [gid EXCEPT ![r] = g]
            /\ missed' = IF g \in born THEN missed ELSE missed \cup {g}
            /\ UNCHANGED <<seen, copy>>
    /\ UNCHANGED <<now, redis, authorizations, flow, op, token, version, az, event, session,
                   expireAt, mem, remove, doomed, issued, born, appended, rotations,
                   applied, crashes>>

ListHDel(r) ==
    /\ Goto(r, "list.hdel", "list.get")
    /\ list' = list \ {gid[r]}
    /\ UNCHANGED <<now, stored, value, ttl, mutex, authorizations, locals, history, crashes>>

\* (mutant: only the root token is looked at)
RemovableRoot(g, a) ==
    {t \in g.tokens : t = Root(g) /\ g.info[t].authorization = a}

\* GetRemovableInitialTokenHashesByAuthorizationID
Removable(g, a) == {t \in g.tokens : g.info[t].authorization = a}

Listed(r, g) == pc[r] = "list.get" /\ todo[r] = {} /\ g \in seen[r]
Handled(r, g) ==
    /\ gid' = [gid EXCEPT ![r] = g]
    /\ seen' = [seen EXCEPT ![r] = @ \ {g}]
    /\ copy' = [copy EXCEPT ![r][g] = NoGrant]

\* AuthorizationService.Delete: the tokens of the authorization in the grant it has
\* listed.  (The grants of today have no deprecated authorization ID, so that
\* shouldRemoveOfflineGrant is false.)
RevokeTokens(r, g) ==
    LET removable == Removable(copy[r][g], az[r])
    IN  /\ flow[r] = "revoke" /\ Listed(r, g)
        /\ Handled(r, g)
        /\ IF removable = {}
           THEN UNCHANGED <<pc, op, expireAt, remove>>
           ELSE /\ Goto(r, "list.get", "lock")
                /\ op' = [op EXCEPT ![r] = "revoke"]
                /\ expireAt' = [expireAt EXCEPT ![r] = ExpiryOf(copy[r][g])]
                /\ remove' = [remove EXCEPT ![r] = removable]
        /\ UNCHANGED <<now, redis, authorizations, flow, token, version, az, event, session,
                       mem, todo, history, crashes>>

\* The row is deleted last, in the transaction of the request.
DeleteAuthorization(r) ==
    /\ flow[r] = "revoke" /\ todo[r] = {} /\ seen[r] = {}
    /\ Goto(r, "list.get", "done")
    /\ authorizations' = authorizations \ {az[r]}
    /\ UNCHANGED <<now, redis, locals, history, crashes>>

\* DeleteOfflineGrant, without the mutex.  TerminateAllExcept means to keep the tokens of
\* third-party clients, but GetAllRemovableInitialTokenHashesExcludeClientIDs looks up
\* the (empty) deprecated authorization ID among the client IDs: every grant goes.
TerminateDel(r, g) ==
    /\ flow[r] = "terminate" /\ Listed(r, g)
    /\ Goto(r, "list.get", "list.hdel")
    /\ Handled(r, g)
    /\ Gone({g})
    /\ UNCHANGED <<now, list, mutex, authorizations, flow, op, token, version, az, event,
                   session, expireAt, mem, remove, todo, history, crashes>>

Terminated(r) ==
    /\ flow[r] = "terminate" /\ todo[r] = {} /\ seen[r] = {}
    /\ Goto(r, "list.get", "done")
    /\ UNCHANGED <<now, redis, authorizations, locals, history, crashes>>

----------------------------------------------------------------------------
(* The end of a request, and the environment *)

\* Local variables go out of scope.
Forget(r) ==
    /\ pc' = [pc EXCEPT ![r] = "idle"]
    /\ flow' = [flow EXCEPT ![r] = "terminate"] /\ op' = [op EXCEPT ![r] = "none"]
    /\ token' = [token EXCEPT ![r] = 1] /\ version' = [version EXCEPT ![r] = 0]
    /\ az' = [az EXCEPT ![r] = SomeAuthorization]
    /\ event' = [event EXCEPT ![r] = 0]
    /\ session' = [session EXCEPT ![r] = 0] /\ expireAt' = [expireAt EXCEPT ![r] = 0]
    /\ mem' = [mem EXCEPT ![r] = NoGrant]
    /\ remove' = [remove EXCEPT ![r] = {}]
    /\ todo' = [todo EXCEPT ![r] = {}] /\ seen' = [seen EXCEPT ![r] = {}]
    /\ copy' = [copy EXCEPT ![r] = [g \in Grant |-> NoGrant]]
    /\ doomed' = [doomed EXCEPT ![r] = {}]
    /\ UNCHANGED <<now, stored, value, ttl, list, authorizations, gid, issued, born,
                   appended, rotations, applied, missed>>

\* A panic is recovered by the HTTP server; deferred functions have unlocked the mutex.
Return(r) ==
    /\ pc[r] \in {"done", "failed", "panic"}
    /\ Forget(r)
    /\ UNCHANGED <<mutex, crashes>>

\* The process dies: what it has written stays, its mutex is not released, and its
\* transaction is rolled back.
Crash(r) ==
    /\ crashes < MaxCrashes /\ pc[r] \notin {"idle", "done", "failed", "panic"}
    /\ crashes' = crashes + 1
    /\ Forget(r)
    /\ mutex' = [g \in Grant |-> IF mutex[g] = r THEN Abandoned ELSE mutex[g]]

\* redsync.WithExpiry(5 seconds); running owners are assumed to be faster
LeaseExpires(g) ==
    /\ mutex[g] = Abandoned
    /\ mutex' = [mutex EXCEPT ![g] = Free]
    /\ UNCHANGED <<now, stored, value, ttl, list, authorizations, pc, locals, history,
                   crashes>>

\* Redis removes the keys whose TTL has passed.
Tick ==
    /\ now < MaxTime
    /\ now' = now + 1
    /\ Gone({g \in stored : ttl[g] <= now + 1})
    /\ UNCHANGED <<list, mutex, authorizations, pc, locals, history, crashes>>

Begin(r) ==
    \/ \E g \in Grant, a \in Authorization :
          \/ BeginCreate(r, g, a)
          \/ \E o \in {"add", "addShortLived"} : BeginIssue(r, g, a, o)
    \/ \E g \in Grant, t \in TokenId :
          \/ BeginRefresh(r, g, t)
          \/ \E f \in {"cookie", "bearer"} : BeginResolve(r, f, g, t)
    \/ \E g \in Grant : \/ \E o \in {"authTime", "deviceSecret", "deviceKey"} : BeginReauth(r, g, o)
                        \/ BeginSAML(r, g)
    \/ \E a \in authorizations : BeginList(r, "revoke", a)
    \/ BeginList(r, "terminate", az[r])

Step(r) ==
    \/ CreateSetNX(r)
    \/ LockAndGet(r) \/ LockGivesUp(r) \/ UpdateHSet(r) \/ UpdateSetXX(r)
    \/ RemoveDel(r) \/ RemoveHDel(r)
    \/ Reread(r) \/ HousekeepOfflineGrant(r) \/ ClientCheck(r)
    \/ (\E g \in Grant : ListGet(r, g) \/ RevokeTokens(r, g) \/ TerminateDel(r, g))
    \/ ListHDel(r) \/ DeleteAuthorization(r) \/ Terminated(r)
    \/ Return(r)

Next ==
    \/ \E r \in Request : Begin(r) \/ Step(r) \/ Crash(r)
    \/ \E g \in Grant : LeaseExpires(g)
    \/ Tick

Spec == Init /\ [][Next]_vars

\* Go schedules every goroutine, and Redis ends every lease.
FairSpec ==
    /\ Spec
    /\ \A r \in Request : WF_vars(Step(r))
    /\ \A g \in Grant : WF_vars(LeaseExpires(g))

----------------------------------------------------------------------------
(* Properties *)

Steps == {"idle", "done", "failed", "panic", "create.setnx", "lock", "hset", "set", "hdel",
          "reread", "housekeep", "client", "list.get", "list.hdel"}
Operations == {"none", "add", "addShortLived", "rotate", "trim", "revoke", "access",
               "authTime", "deviceSecret", "deviceInfo", "deviceKey", "participant"}
\* Every variable has the type the comments above give it.
TypeOK ==
    /\ now \in Time /\ crashes \in 0 .. MaxCrashes
    /\ stored \subseteq Grant /\ list \subseteq Grant
    /\ value \in [Grant -> GrantData] /\ ttl \in [Grant -> Expiry]
    /\ mutex \in [Grant -> Request \cup {Free, Abandoned}]
    /\ authorizations \subseteq Authorization
    /\ pc \in [Request -> Steps] /\ flow \in [Request -> Flows]
    /\ op \in [Request -> Operations]
    /\ gid \in [Request -> Grant] /\ token \in [Request -> TokenId]
    /\ version \in [Request -> Version] /\ az \in [Request -> Authorization]
    /\ event \in [Request -> Time]
    /\ session \in [Request -> Expiry] /\ expireAt \in [Request -> Expiry]
    /\ mem \in [Request -> GrantData] /\ remove \in [Request -> SUBSET TokenId]
    /\ todo \in [Request -> SUBSET Grant] /\ seen \in [Request -> SUBSET Grant]
    /\ copy \in [Request -> [Grant -> GrantData]]
    /\ doomed \in [Request -> SUBSET (Grant \X TokenId)]
    /\ issued \subseteq Grant /\ born \subseteq Grant /\ missed \subseteq Grant
    /\ appended \in [Grant -> 0 .. MaxTokens]
    /\ rotations \in Version /\ applied \subseteq 1 .. MaxRotations

\* The store implements RefreshTokenLedger although every update writes back the whole
\* grant it has read: a token that was removed (by a revocation or by housekeeping) never
\* returns, a token that was added is lost only by a removal that names it, and a hash
\* that was superseded is never in force again.
Ledger == INSTANCE RefreshTokenLedger WITH
    phase    <- [g \in Grant |-> IF g \in stored THEN "live"
                                 ELSE IF g \in born THEN "ended" ELSE "unborn"],
    tokens   <- [g \in Grant |-> value[g].tokens],
    current  <- [g \in Grant |-> [t \in TokenId |-> value[g].info[t].current]]

ImplementsLedger == Ledger!Spec

\* When AuthorizationService.Delete or a termination returns, the tokens it was about
\* and that existed when it began are gone (or in a grant hidden by a creation's race
\* with a List).  Tokens may be added, rotated and trimmed meanwhile.
RevocationIsComplete ==
    \A r \in Request : pc[r] = "done" =>
        \A x \in doomed[r] : x[1] \in stored \ missed => x[2] \notin value[x[1]].tokens

\* A stored grant always has a refresh token: "Remove the offline grant if it has no valid
\* tokens" (redis/store.go:585) works on the grant as it is under the mutex.
GrantHasToken == \A g \in stored : value[g].tokens # {}

\* The refresh token that a successful rotation hands to the client has been in force,
\* unless the grant is gone: RotateOfflineGrantRefreshToken fails if the token has been
\* removed between the two reads before it, and nothing after it fails silently.
ReturnedTokenWasInForce ==
    \A r \in Request : pc[r] = "done" /\ flow[r] = "refresh" /\ version[r] > 0 =>
        version[r] \in applied \/ gid[r] \notin stored

\* The mutex of a grant does not stay locked: every path of the update functions unlocks
\* it (also when the grant is deleted under it), and the lease of a dead owner ends.
GrantMutexIsReleased == \A g \in Grant : mutex[g] # Free ~> mutex[g] = Free

\* docs/specs/sessions.md:66 of an offline grant: "The session must be accessed before the
\* timeout, or the session is expired."  One that was accessed in time is not: the
\* clock alone removes a grant only when its lifetime or its idle timeout is over.
NotExpiredBeforeTimeout ==
    [][now' # now => \A g \in stored \ stored' : ExpiryOf(value[g]) <= now']_vars

\* resolver.go:210 of the refresh token of an app session, looked up again after the
\* access: "This should never fail as it was a success above, so it is a panic"
ResolvedTokenIsStillThere == \A r \in Request : flow[r] = "cookie" => pc[r] # "panic"
=============================================================================

--------------------------- MODULE IDPSessionStore ---------------------------
(***************************************************************************)
(* IdP sessions of one user, as pkg/lib/session/idpsession keeps them in    *)
(* Redis: a string key per session and a hash per user (the session list). *)
(* A request is a goroutine that sends ONE Redis command per step, so the   *)
(* commands of concurrent requests interleave.  Keys of different users are *)
(* disjoint and no command touches two users, so one user is enough.        *)
(***************************************************************************)
EXTENDS Naturals, FiniteSets

CONSTANTS
    Request,            \* goroutines that serve requests
    Session,            \* the UUIDs that uuid.New may return
    SAMLProvider,       \* SAML service provider IDs
    Free, Abandoned,    \* states of a mutex without a running owner
    Lifetime,           \* SessionConfig.Lifetime
    IdleTimeout,        \* SessionConfig.IdleTimeout
    IdleTimeoutEnabled, \* SessionConfig.IdleTimeoutEnabled
    LeaseMayExpire,     \* may a redsync lease end while its owner still runs?
    MaxTime,            \* bound: the clock stops here
    MaxCrashes          \* bound: requests that die half-way

ASSUME RequestAssumption ==
    /\ Free \notin Request /\ Abandoned \notin Request /\ Free # Abandoned
ASSUME TimeAssumption ==
    /\ Lifetime \in Nat \ {0} /\ IdleTimeout \in Nat \ {0}
    /\ IdleTimeoutEnabled \in BOOLEAN /\ LeaseMayExpire \in BOOLEAN
    /\ MaxTime \in Nat /\ MaxCrashes \in Nat

VARIABLES
    now,       \* the clock
    stored,    \* sessions whose string key exists in Redis
    value,     \* what the string key of a session holds (if it exists)
    list,      \* fields of the session-list hash
    mutex,     \* Redis mutex of each session
    endless,   \* sessions whose access-event stream exists without a TTL
    pc, op,    \* per request: next command, operation being served
    sid,       \* per request: the session the next command is about
    ses,       \* per request: the *IDPSession in memory
    event,     \* per request: timestamp of the access.Event
    provider,  \* per request: serviceProviderID argument
    todo,      \* per request: keys of HGETALL not read yet
    found,     \* per request: sessions List has collected
    doomed,    \* per request: which of them the caller will delete
    expected,  \* history: doomed sessions that existed when the call began
    issued,    \* history: UUIDs handed out
    born,      \* history: sessions whose string key has existed
    missed,    \* history: sessions a List did not see because SETNX came later
    wiped,     \* history: sessions that were in the list when it was deleted
    crashes

redis   == <<stored, value, list, mutex, endless>>
locals  == <<op, sid, ses, event, provider, todo, found, doomed>>
history == <<expected, issued, born, missed, wiped>>
vars    == <<now, redis, pc, locals, history, crashes>>

Time == 0 .. MaxTime

\* type IDPSession: the fields that change after creation, and CreatedAt
SessionData ==
    [createdAt: Time, authenticatedAt: Time, lastAccess: Time,
     participants: SUBSET SAMLProvider]

Operation == {"create", "access", "reauthenticate", "addSP", "list", "cleanup"}
Command   == {"idle", "done", "failed",
              "create.setnx",
              "token.get", "lock", "get", "update.hset", "update.setxx",
              "xadd", "expireat", "unlock",
              "list.get", "list.hdel",
              "delete.del", "delete.hdel", "cleanup.del"}

\* setSessionExpireAtForResolvedSession
ExpireAt(s) ==
    LET end  == s.createdAt + Lifetime
        idle == s.lastAccess + IdleTimeout
    IN  IF IdleTimeoutEnabled /\ idle < end THEN idle ELSE end

Blank == [createdAt |-> 0, authenticatedAt |-> 0, lastAccess |-> 0, participants |-> {}]

Init ==
    /\ now = 0 /\ crashes = 0
    /\ stored = {} /\ list = {} /\ endless = {}
    /\ value = [s \in Session |-> Blank]
    /\ mutex = [s \in Session |-> Free]
    /\ pc = [r \in Request |-> "idle"]
    /\ op = [r \in Request |-> "list"]
    /\ sid \in {[r \in Request |-> s] : s \in Session}
    /\ ses = [r \in Request |-> Blank]
    /\ event = [r \in Request |-> 0]
    /\ provider \in {[r \in Request |-> sp] : sp \in SAMLProvider}
    /\ todo = [r \in Request |-> {}] /\ found = [r \in Request |-> {}]
    /\ doomed = [r \in Request |-> {}]
    /\ expected = [r \in Request |-> {}]
    /\ issued = {} /\ born = {} /\ missed = {} /\ wiped = {}

\* String keys disappear, by DEL or because their TTL has passed.
Remove(S) ==
    /\ stored' = stored \ S
    /\ value' = [s \in Session |-> IF s \in S THEN Blank ELSE value[s]]

Goto(r, from, to) == pc[r] = from /\ pc' = [pc EXCEPT ![r] = to]

----------------------------------------------------------------------------
(* Calls arriving at the package. *)

\* (mutant: the session is not added to the list)
BeginCreateUnlisted(r, s) ==
    /\ s \notin issued
    /\ Goto(r, "idle", "create.setnx")
    /\ issued' = issued \cup {s}
    /\ op' = [op EXCEPT ![r] = "create"]
    /\ sid' = [sid EXCEPT ![r] = s]
    /\ ses' = [ses EXCEPT ![r] = [createdAt |-> now, authenticatedAt |-> now,
                                  lastAccess |-> now, participants |-> {}]]
    /\ UNCHANGED <<now, redis, event, provider, todo, found, doomed, expected, born,
                   missed, wiped, crashes>>

\* Provider.MakeSession, then Provider.Create up to its HSET
BeginCreate(r, s) ==
    /\ s \notin issued
    /\ Goto(r, "idle", "create.setnx")
    /\ list' = list \cup {s}
    /\ issued' = issued \cup {s}
    /\ op' = [op EXCEPT ![r] = "create"]
    /\ sid' = [sid EXCEPT ![r] = s]
    /\ ses' = [ses EXCEPT ![r] = [createdAt |-> now, authenticatedAt |-> now,
                                  lastAccess |-> now, participants |-> {}]]
    /\ UNCHANGED <<now, stored, value, mutex, endless, event, provider, todo, found,
                   doomed, expected, born, missed, wiped, crashes>>

\* A caller knows the ID of a session once it has been stored.
BeginUpdate(r, o, s, first, at, sp) ==
    /\ s \in born
    /\ Goto(r, "idle", first)
    /\ op' = [op EXCEPT ![r] = o]
    /\ sid' = [sid EXCEPT ![r] = s]
    /\ event' = [event EXCEPT ![r] = at]
    /\ provider' = [provider EXCEPT ![r] = sp]
    /\ UNCHANGED <<now, redis, ses, todo, found, doomed, history, crashes>>

BeginAccessWithToken(r, s) == BeginUpdate(r, "access", s, "token.get", now, provider[r])
BeginAccessWithID(r, s)    == BeginUpdate(r, "access", s, "lock", now, provider[r])
BeginReauthenticate(r, s)  == BeginUpdate(r, "reauthenticate", s, "lock", 0, provider[r])
BeginAddSP(r, s, sp)       == BeginUpdate(r, "addSP", s, "lock", 0, sp)

----------------------------------------------------------------------------
(* StoreRedis.Create after its HSET, and the events of an access *)

\* A Redis error (TTL already past) makes the call fail.
CreateSetNX(r) ==
    /\ IF ExpireAt(ses[r]) > now
       THEN /\ Goto(r, "create.setnx", "xadd")
            /\ stored' = stored \cup {sid[r]}
            /\ value' = [value EXCEPT ![sid[r]] = IF sid[r] \in stored THEN @ ELSE ses[r]]
            /\ born' = born \cup {sid[r]}
       ELSE /\ Goto(r, "create.setnx", "failed")
            /\ UNCHANGED <<stored, value, born>>
    /\ UNCHANGED <<now, list, mutex, endless, locals, expected, issued, missed,
                   wiped, crashes>>

\* EventStoreRedis.AppendEvent: XADD, then EXPIREAT.  (InitStream deletes the stream of
\* the new UUID first: nothing is there.)  Whether an old stream with a TTL is still
\* there to be appended to is not modelled: XADD may find one or make an endless one.
AppendEventXAdd(r) ==
    /\ Goto(r, "xadd", "expireat")
    /\ endless' \in {endless \cup {sid[r]}}
                     \cup (IF op[r] = "create" THEN {} ELSE {endless})
    /\ UNCHANGED <<now, stored, value, list, mutex, locals, history, crashes>>

\* (mutant: the stream keeps no TTL)
AppendEventNoExpireAt(r) ==
    /\ Goto(r, "expireat", IF op[r] = "create" THEN "done" ELSE "unlock")
    /\ UNCHANGED <<now, redis, locals, history, crashes>>

AppendEventExpireAt(r) ==
    /\ Goto(r, "expireat", IF op[r] = "create" THEN "done" ELSE "unlock")
    /\ endless' = endless \ {sid[r]}
    /\ UNCHANGED <<now, stored, value, list, mutex, locals, history, crashes>>

----------------------------------------------------------------------------
(* Provider.AccessWithToken, accessWithID, Reauthenticate and                *)
(* AddSAMLServiceProviderParticipant: GET and Update under the session mutex *)

\* GetByToken: the only place where the expiry is compared with the clock
GetByToken(r) ==
    /\ Goto(r, "token.get",
            IF sid[r] \in stored /\ now <= ExpireAt(value[sid[r]]) THEN "lock" ELSE "failed")
    /\ UNCHANGED <<now, redis, locals, history, crashes>>

\* (mutant: no mutual exclusion)
LockIgnored(r) ==
    /\ Goto(r, "lock", "get")
    /\ mutex' = [mutex EXCEPT ![sid[r]] = r]
    /\ UNCHANGED <<now, stored, value, list, endless, locals, history, crashes>>

LockContext(r) ==
    /\ mutex[sid[r]] = Free
    /\ Goto(r, "lock", "get")
    /\ mutex' = [mutex EXCEPT ![sid[r]] = r]
    /\ UNCHANGED <<now, stored, value, list, endless, locals, history, crashes>>

\* redsync.WithTries(5)
LockGivesUp(r) ==
    /\ mutex[sid[r]] # Free
    /\ Goto(r, "lock", "failed")
    /\ UNCHANGED <<now, redis, locals, history, crashes>>

UpdateGet(r) ==
    /\ IF sid[r] \in stored
       THEN /\ Goto(r, "get", "update.hset")
            /\ ses' = [ses EXCEPT ![r] = value[sid[r]]]
       ELSE /\ Goto(r, "get", "unlock")
            /\ UNCHANGED ses
    /\ UNCHANGED <<now, redis, op, sid, event, provider, todo, found, doomed,
                   history, crashes>>

\* (mutant: the expiry is stored as the time of the authentication)
MutatedWithExpiry(r) ==
    CASE op[r] = "access"         -> [ses[r] EXCEPT !.lastAccess = event[r]]
      [] op[r] = "reauthenticate" -> [ses[r] EXCEPT !.authenticatedAt = ExpireAt(ses[r])]
      [] OTHER                    -> [ses[r] EXCEPT !.participants = @ \cup {provider[r]}]

\* What the three callers change in the session they have read
Mutated(r) ==
    CASE op[r] = "access"         -> [ses[r] EXCEPT !.lastAccess = event[r]]
      [] op[r] = "reauthenticate" -> [ses[r] EXCEPT !.authenticatedAt = now]
      [] OTHER                    -> [ses[r] EXCEPT !.participants = @ \cup {provider[r]}]

UpdateHSet(r) ==
    /\ Goto(r, "update.hset", "update.setxx")
    /\ ses' = [ses EXCEPT ![r] = Mutated(r)]
    /\ list' = list \cup {sid[r]}
    /\ UNCHANGED <<now, stored, value, mutex, endless, op, sid, event, provider,
                   todo, found, doomed, history, crashes>>

\* (mutant: SET without XX)
UpdateSet(r) ==
    LET carriesOn == IF op[r] = "access" THEN "xadd" ELSE "unlock"
    IN  /\ IF ExpireAt(ses[r]) > now
           THEN /\ value' = [value EXCEPT ![sid[r]] = ses[r]]
                /\ stored' = stored \cup {sid[r]}
                /\ Goto(r, "update.setxx", carriesOn)
           ELSE Goto(r, "update.setxx", "unlock") /\ UNCHANGED <<value, stored>>
        /\ UNCHANGED <<now, list, mutex, endless, locals, history, crashes>>

\* SET ... XX writes only over a key that is still there, and Redis refuses a TTL that
\* is already past.  Update wants Nil for a missing key; the client may report FALSE
\* without an error instead (as infra/whatsapp uses SETNX): both are possible here.
UpdateSetXX(r) ==
    LET carriesOn == IF op[r] = "access" THEN "xadd" ELSE "unlock"
    IN  /\ IF ExpireAt(ses[r]) > now
           THEN /\ value' = IF sid[r] \in stored THEN [value EXCEPT ![sid[r]] = ses[r]] ELSE value
                /\ \/ Goto(r, "update.setxx", carriesOn)
                   \/ sid[r] \notin stored /\ Goto(r, "update.setxx", "unlock")
           ELSE Goto(r, "update.setxx", "unlock") /\ UNCHANGED value
        /\ UNCHANGED <<now, stored, list, mutex, endless, locals, history, crashes>>

\* Release compares the mutex's random value: it never frees another owner's lease.
UnlockContext(r) ==
    /\ Goto(r, "unlock", "done")
    /\ mutex' = [mutex EXCEPT ![sid[r]] = IF @ = r THEN Free ELSE @]
    /\ UNCHANGED <<now, stored, value, list, endless, locals, history, crashes>>

----------------------------------------------------------------------------
(* StoreRedis.List, and the callers that delete what it returned *)

\* HGETALL.  doomed is what the caller will delete of the result: nothing for a plain
\* List, {s} for invalidate, Session or Session \ {s} for TerminateAllExcept, Session
\* for Coordinator.terminateAllSessions (and then "cleanup" to delete the hash).
BeginList(r, o, victims) ==
    /\ Goto(r, "idle", "list.get")
    /\ op' = [op EXCEPT ![r] = o]
    /\ doomed' = [doomed EXCEPT ![r] = victims]
    /\ todo' = [todo EXCEPT ![r] = list]
    /\ expected' = [expected EXCEPT ![r] = stored \cap victims]
    /\ UNCHANGED <<now, redis, sid, ses, event, provider, found,
                   issued, born, missed, wiped, crashes>>

ListGet(r, s) ==
    /\ s \in todo[r]
    /\ todo' = [todo EXCEPT ![r] = @ \ {s}]
    /\ IF s \in stored
       THEN /\ found' = [found EXCEPT ![r] = @ \cup {s}]
            /\ Goto(r, "list.get", "list.get")
            /\ UNCHANGED <<sid, missed>>
       ELSE /\ Goto(r, "list.get", "list.hdel")
            /\ sid' = [sid EXCEPT ![r] = s]
            /\ missed' = IF s \in born THEN missed ELSE missed \cup {s}
            /\ UNCHANGED found
    /\ UNCHANGED <<now, redis, op, ses, event, provider, doomed, expected, issued,
                   born, wiped, crashes>>

ListHDel(r) ==
    /\ Goto(r, "list.hdel", "list.get")
    /\ list' = list \ {sid[r]}
    /\ UNCHANGED <<now, stored, value, mutex, endless, locals, history, crashes>>

\* (mutant: deletes what was found before the whole list has been read)
AllDeletedEarly(r) ==
    /\ found[r] \cap doomed[r] = {} /\ op[r] # "cleanup"
    /\ Goto(r, "list.get", "done")
    /\ UNCHANGED <<now, redis, locals, history, crashes>>

\* StoreRedis.Delete (no mutex)
DeleteDel(r, s) ==
    /\ todo[r] = {} /\ s \in found[r] \cap doomed[r]
    /\ Goto(r, "list.get", "delete.hdel")
    /\ sid' = [sid EXCEPT ![r] = s]
    /\ found' = [found EXCEPT ![r] = @ \ {s}]
    /\ Remove({s})
    /\ UNCHANGED <<now, list, mutex, endless, op, ses, event, provider, todo,
                   doomed, history, crashes>>

DeleteHDel(r) ==
    /\ Goto(r, "delete.hdel", "list.get")
    /\ list' = list \ {sid[r]}
    /\ UNCHANGED <<now, stored, value, mutex, endless, locals, history, crashes>>

AllDeleted(r) ==
    /\ todo[r] = {} /\ found[r] \cap doomed[r] = {} /\ op[r] # "cleanup"
    /\ Goto(r, "list.get", "done")
    /\ UNCHANGED <<now, redis, locals, history, crashes>>

CleanUpForDeletingUserID(r) ==
    /\ todo[r] = {} /\ found[r] \cap doomed[r] = {} /\ op[r] = "cleanup"
    /\ Goto(r, "list.get", "done")
    /\ wiped' = wiped \cup list
    /\ list' = {}
    /\ UNCHANGED <<now, stored, value, mutex, endless, locals, expected, issued,
                   born, missed, crashes>>

----------------------------------------------------------------------------
(* The end of a call, and the environment *)

\* Local variables go out of scope.
Forget(r) ==
    /\ ses' = [ses EXCEPT ![r] = Blank]
    /\ event' = [event EXCEPT ![r] = 0]
    /\ todo' = [todo EXCEPT ![r] = {}] /\ found' = [found EXCEPT ![r] = {}]
    /\ doomed' = [doomed EXCEPT ![r] = {}]
    /\ expected' = [expected EXCEPT ![r] = {}]
    /\ pc' = [pc EXCEPT ![r] = "idle"]
    /\ op' = [op EXCEPT ![r] = "list"]
    /\ UNCHANGED <<now, stored, value, list, endless, sid, provider, issued,
                   born, missed, wiped>>

Return(r) == pc[r] \in {"done", "failed"} /\ Forget(r) /\ UNCHANGED <<mutex, crashes>>

\* The process dies between two commands, or the connection to Redis does: what it
\* has written stays, its mutex is not released.
Crash(r) ==
    /\ crashes < MaxCrashes /\ pc[r] \notin {"idle", "done", "failed"}
    /\ crashes' = crashes + 1
    /\ Forget(r)
    /\ mutex' = [s \in Session |-> IF mutex[s] = r THEN Abandoned ELSE mutex[s]]

\* redsync.WithExpiry(5 seconds)
LeaseExpires(s) ==
    /\ mutex[s] = Abandoned \/ (LeaseMayExpire /\ mutex[s] \in Request)
    /\ mutex' = [mutex EXCEPT ![s] = Free]
    /\ UNCHANGED <<now, stored, value, list, endless, pc, locals, history, crashes>>

\* Redis removes the keys whose TTL has passed.
Tick ==
    /\ now < MaxTime
    /\ now' = now + 1
    /\ Remove({s \in stored : ExpireAt(value[s]) <= now + 1})
    /\ UNCHANGED <<list, mutex, endless, pc, locals, history, crashes>>

Begin(r) ==
    \/ \E s \in Session : \/ BeginCreate(r, s)
                          \/ BeginAccessWithToken(r, s) \/ BeginAccessWithID(r, s)
                          \/ BeginReauthenticate(r, s)
                          \/ \E sp \in SAMLProvider : BeginAddSP(r, s, sp)
                          \/ BeginList(r, "list", {s})
                          \/ BeginList(r, "list", Session \ {s})
    \/ BeginList(r, "list", {}) \/ BeginList(r, "list", Session)
    \/ BeginList(r, "cleanup", Session)

Step(r) ==
    \/ CreateSetNX(r)
    \/ AppendEventXAdd(r) \/ AppendEventExpireAt(r)
    \/ GetByToken(r) \/ LockContext(r) \/ LockGivesUp(r)
    \/ UpdateGet(r) \/ UpdateHSet(r) \/ UpdateSetXX(r) \/ UnlockContext(r)
    \/ (\E s \in Session : ListGet(r, s)) \/ ListHDel(r)
    \/ (\E s \in Session : DeleteDel(r, s)) \/ DeleteHDel(r)
    \/ AllDeleted(r) \/ CleanUpForDeletingUserID(r) \/ Return(r)

Next ==
    \/ \E r \in Request : Begin(r) \/ Step(r) \/ Crash(r)
    \/ \E s \in Session : LeaseExpires(s)
    \/ Tick

Spec == Init /\ [][Next]_vars

----------------------------------------------------------------------------
(* Properties *)

\* Every variable has the type the comments above give it.
TypeOK ==
    /\ now \in Time /\ crashes \in 0 .. MaxCrashes
    /\ stored \subseteq Session /\ list \subseteq Session /\ endless \subseteq Session
    /\ value \in [Session -> SessionData]
    /\ mutex \in [Session -> Request \cup {Free, Abandoned}]
    /\ pc \in [Request -> Command] /\ op \in [Request -> Operation]
    /\ sid \in [Request -> Session] /\ ses \in [Request -> SessionData]
    /\ event \in [Request -> Time] /\ provider \in [Request -> SAMLProvider]
    /\ todo \in [Request -> SUBSET Session] /\ found \in [Request -> SUBSET Session]
    /\ doomed \in [Request -> SUBSET Session] /\ expected \in [Request -> SUBSET Session]
    /\ issued \subseteq Session /\ born \subseteq Session
    /\ missed \subseteq Session /\ wiped \subseteq Session

\* A session that has been deleted or has expired never exists again, although an
\* access that read it earlier may still write it back: Update uses SET XX.
NoResurrection == [][\A s \in born \ stored : s \notin stored']_vars

\* While a session exists, an update never undoes what another request has written:
\* SAML participants are only added and the authentication time only grows, although
\* each update writes the whole session back.  Rests on the session mutex.
NoLostUpdate ==
    [][\A s \in stored \cap stored' :
          /\ value[s].participants \subseteq value'[s].participants
          /\ value[s].authenticatedAt <= value'[s].authenticatedAt]_vars

\* The session list may lack a session that exists for two reasons only: a List ran
\* between the HSET and the SETNX of its creation and took it for an expired one, or
\* the list was deleted with the user.  Stale HDELs of List and Delete do no harm.
UnlistedOnlyByRace == stored \subseteq list \cup missed \cup wiped

\* When a revocation or a termination returns, every session it was about and that
\* existed when it began is gone, unless the race above had hidden the session.
TerminationIsComplete ==
    \A r \in Request :
        pc[r] = "done" => expected[r] \cap doomed[r] \cap stored \subseteq missed \cup wiped

\* A stream of access events is without a TTL only while the request that appended to
\* it is about to set one; only a crash can leave it so.
EndlessOnlyInFlight ==
    crashes = 0 => \A s \in endless : \E r \in Request : pc[r] = "expireat" /\ sid[r] = s

\* The store implements SessionLifecycle: its many commands amount to atomic creations,
\* updates and ends of sessions.
Lifecycle == INSTANCE SessionLifecycle WITH
    phase           <- [s \in Session |-> IF s \in stored THEN "live"
                                          ELSE IF s \in born THEN "ended" ELSE "unborn"],
    participants    <- [s \in Session |-> value[s].participants],
    authenticatedAt <- [s \in Session |-> value[s].authenticatedAt]

ImplementsLifecycle == Lifecycle!Spec

\* docs/specs/event.md:620 says of this termination: "All sessions of a user are
\* terminated."  So no session that existed when TerminateAllExcept began may exist
\* when it returns, as long as the user is not being deleted.
AllSessionsAreTerminated ==
    wiped = {} => \A r \in Request : pc[r] = "done" => expected[r] \cap stored = {}
=============================================================================

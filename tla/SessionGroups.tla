----------------------------- MODULE SessionGroups -----------------------------
(***************************************************************************)
(* Sessions of one user across the two stores: IdP sessions, authorization  *)
(* codes obtained with them, and the offline grants that the codes are      *)
(* exchanged for.  A grant with sso_enabled is in the SSO group of its IdP   *)
(* session: it is signed out with the session and is of no use without it   *)
(* (session/manager.go, oauth/grant_offline_service.go, oauth/resolver.go,  *)
(* oauth/handler/handler_token.go).                                          *)
(*                                                                          *)
(* A store operation is one step here, and the creation of a session two,   *)
(* between which a List may remove its entry; modules IDPSessionStore and   *)
(* OfflineGrantStore take them apart into commands.                         *)
(***************************************************************************)
EXTENDS Integers, FiniteSets

CONSTANTS
    Request,           \* goroutines that serve requests
    Session,           \* IDs of IdP sessions
    Code,              \* authorization codes
    Grant,             \* IDs of offline grants
    None,
    Bounds             \* bound: a behaviour stays within one of these quadruples of sessions,
                       \* codes, grants, and crashes and failed commands

ASSUME GroupAssumption ==
    /\ IsFiniteSet(Request)
    /\ IsFiniteSet(Session) /\ IsFiniteSet(Code) /\ IsFiniteSet(Grant)
    /\ Bounds \subseteq [sessions : Nat, codes : Nat, grants : Nat, failures : Nat]
    /\ Session \cap Grant = {} /\ Code \cap (Session \cup Grant) = {}
    /\ None \notin Session \cup Grant \cup Code

Listable == Session \cup Grant
Key      == Listable \cup Code

Data == [by : Listable \cup {None}, single : BOOLEAN]

\* (mutant: handler_authz.go does not look at the limit of the client)
CodeDataAny == Data

\* What a code carries into the exchange:
\*   by      the session it was authenticated by, as far as the exchange looks at it: an IdP
\*           session with sso_enabled, or a grant; None is any other code, that of app2app and
\*           that of a login without a session included
\*   single  the client has x_max_concurrent_session = 1; handler_authz.go:1028 does not let it
\*           use sso_enabled
CodeData == {d \in Data : d.by \in Session => ~d.single}

VARIABLES
    stored,            \* keys that are in Redis
    list,              \* entries of the user's two hashes of sessions
    born,              \* keys that have ever been
    data,              \* data of each code that has been created
    origin,            \* the code for which a grant was issued
    joined,            \* grants that a token of the client with one session was added to
    pc,                \* per request: step
    who,               \* per request: the session it is about, or creates (None: all of them)
    held,              \* per request: the code it exchanges, None for any other operation
    offline,           \* per request: the exchange asks for a refresh token
    queue,             \* per request: existing grants of the client still to be revoked
    idps, todo,        \* per request: IdP sessions listed; sessions still to be deleted
    found,             \* per request: the session it is about was in the list
    goal,              \* history: what has to be gone when the sign-out returns
    dead,              \* history: the grant in use was signed out before the request began
    signedOut,         \* history: what was gone with a sign-out that has returned
    accepted,          \* history: grants accepted although dead
    late,              \* history: grants whose issue met a sign-out, and grants whose session
                       \* has expired or falls to a termination of all
    unseen,            \* history: grants issued behind the back of another exchange
    dropped,           \* history: sessions whose entry a List removed before their key was set
    shared,            \* history: codes exchanged by two requests at a time, or with a failure
    failures

content  == <<born, data, origin, joined>>
store    == <<stored, list, content>>
exchange == <<held, offline>>
locals   == <<who, exchange, queue, idps, todo, found, goal, dead>>
history  == <<signedOut, accepted, late, unseen, dropped, shared>>
vars     == <<store, pc, locals, history, failures>>

NoData == [by |-> None, single |-> FALSE]

Init ==
    /\ stored = {} /\ list = {} /\ born = {} /\ joined = {}
    /\ data = [c \in Code |-> NoData] /\ origin = [g \in Grant |-> None]
    /\ pc = [r \in Request |-> "idle"]
    /\ who = [r \in Request |-> None] /\ held = [r \in Request |-> None]
    /\ offline = [r \in Request |-> FALSE]
    /\ queue = [r \in Request |-> {}] /\ idps = [r \in Request |-> {}]
    /\ todo = [r \in Request |-> {}] /\ found = [r \in Request |-> FALSE]
    /\ goal = [r \in Request |-> {}] /\ dead = [r \in Request |-> FALSE]
    /\ signedOut = {} /\ accepted = {} /\ late = {} /\ unseen = {} /\ dropped = {}
    /\ shared = {} /\ failures = 0

\* Exchanges that may issue a grant
Issuing == {r \in Request : held[r] # None /\ pc[r] \notin {"get", "getIdP", "update", "issued"}}

InMaking == {who[r] : r \in {q \in Request : pc[q] \in {"createIdP", "createGrant"}}}

\* An ID of its own
Fresh(k) == k \notin born \cup list \cup dropped \cup InMaking

\* There is room for these keys and failures, and for so many more grants.
Within(keys, grants, f) ==
    \E b \in Bounds :
        /\ Cardinality((keys \cup InMaking) \cap Session) <= b.sessions
        /\ Cardinality(keys \cap Code) <= b.codes
        /\ Cardinality(keys \cap Grant) + grants <= b.grants
        /\ f <= b.failures

Fits(keys) == Within(keys, Cardinality(Issuing), failures)
MayFail    == Within(born, Cardinality(Issuing), failures + 1)

DataOf(g) == IF origin[g] = None THEN NoData ELSE data[origin[g]]

----------------------------------------------------------------------------
(* SSO groups *)

\* SSOGroupIDPSessionID of an IdP session and of an offline grant
SSOGroupIDPSessionID(s) ==
    IF s \in Session THEN s ELSE IF DataOf(s).by \in Session THEN DataOf(s).by ELSE None

\* (mutant: the IdP session of a grant is not in its group)
IsSameSSOGroupGrants(s, t) ==
    s = t \/ (/\ s \in Grant
              /\ SSOGroupIDPSessionID(s) # None
              /\ SSOGroupIDPSessionID(s) = SSOGroupIDPSessionID(t))

IsSameSSOGroup(s, t) ==
    s = t \/ (/\ SSOGroupIDPSessionID(s) # None
              /\ SSOGroupIDPSessionID(s) = SSOGroupIDPSessionID(t))

\* Grants that have a refresh token of the client with one session
OfClient(g) == DataOf(g).single \/ g \in joined

Members(idp) == {g \in Grant : SSOGroupIDPSessionID(g) = idp}

\* docs/specs/oidc-sso-browser.md:139 "Logout": what has to go with a session.  A session that a
\* List has dropped cannot be found.
Affected(s) ==
    LET idp == SSOGroupIDPSessionID(s)
    IN  (stored \ dropped) \cap ({s} \cup IF idp = None THEN {} ELSE {idp} \cup Members(idp))

Goto(r, from, to) == pc[r] = from /\ pc' = [pc EXCEPT ![r] = to]

Forget(r) ==
    /\ who' = [who EXCEPT ![r] = None] /\ held' = [held EXCEPT ![r] = None]
    /\ offline' = [offline EXCEPT ![r] = FALSE]
    /\ queue' = [queue EXCEPT ![r] = {}] /\ idps' = [idps EXCEPT ![r] = {}]
    /\ todo' = [todo EXCEPT ![r] = {}] /\ found' = [found EXCEPT ![r] = FALSE]
    /\ goal' = [goal EXCEPT ![r] = {}] /\ dead' = [dead EXCEPT ![r] = FALSE]

Return(r) == pc' = [pc EXCEPT ![r] = "idle"] /\ Forget(r)

----------------------------------------------------------------------------
(* The lists.  An entry is set before its key (HSET, SETNX; HSET, SET XX), and removed after it. *)

\* What a List of the IdP sessions (S = Session) or of the grants (S = Grant) returns
Shown(S) == S \cap list \cap stored

\* A List removes the entries whose key it does not find, even if that is about to be set.
Cleans(S) ==
    /\ list' = list \ (S \ stored)
    /\ dropped' = dropped \cup ((S \cap list) \ born)

\* A list for a page of settings or of the portal, or another request of the user
List(S) ==
    /\ Cleans(S)
    /\ UNCHANGED <<stored, content, pc, locals, signedOut, accepted, late, unseen, shared,
                   failures>>

----------------------------------------------------------------------------
(* Manager.invalidate: list both stores, delete what is in the group.  Logout, *)
(* RevokeWithEvent and RevokeWithoutEvent consist of it.                       *)

InvalidateBegins(r, s) ==
    /\ who' = [who EXCEPT ![r] = s]
    /\ pc' = [pc EXCEPT ![r] = "listIdP"]

\* The session was resolved, or looked up by its ID, just before.
BeginSignOut(r, s) ==
    /\ pc[r] = "idle" /\ s \in stored
    /\ InvalidateBegins(r, s)
    /\ goal' = [goal EXCEPT ![r] = Affected(s)]
    /\ UNCHANGED <<store, exchange, queue, idps, todo, found, dead, history, failures>>

ListIdP(r) ==
    /\ Goto(r, "listIdP", "listGrants")
    /\ idps' = [idps EXCEPT ![r] = Shown(Session)]
    /\ Cleans(Session)
    /\ UNCHANGED <<stored, content, who, exchange, queue, todo, found, goal, dead, signedOut,
                   accepted, late, unseen, shared, failures>>

\* (mutant: a logout without SSO group looks for its session among the IdP sessions only)
ListGrantsIdPOnly(r) ==
    LET listed == idps[r] \cup IF SSOGroupIDPSessionID(who[r]) = None THEN {} ELSE Shown(Grant)
    IN  /\ Goto(r, "listGrants", "delete")
        /\ todo' = [todo EXCEPT ![r] = {t \in listed : IsSameSSOGroup(t, who[r])}]
        /\ idps' = [idps EXCEPT ![r] = {}]
        /\ found' = [found EXCEPT ![r] = who[r] \in listed]
        /\ Cleans(Grant)
        /\ UNCHANGED <<stored, content, who, exchange, queue, goal, dead, signedOut, accepted,
                       late, unseen, shared, failures>>

ListGrants(r) ==
    /\ Goto(r, "listGrants", "delete")
    /\ todo' = [todo EXCEPT ![r] = {t \in idps[r] \cup Shown(Grant) : IsSameSSOGroup(t, who[r])}]
    /\ idps' = [idps EXCEPT ![r] = {}]
    /\ found' = [found EXCEPT ![r] = who[r] \in idps[r] \cup Shown(Grant)]
    /\ Cleans(Grant)
    /\ UNCHANGED <<stored, content, who, exchange, queue, goal, dead, signedOut, accepted, late,
                   unseen, shared, failures>>

\* (mutant: sessions are deleted in any order)
MayDeleteAny(r, t) == t \in todo[r]

\* Offline grants first
MayDelete(r, t) == t \in todo[r] /\ (t \in Grant \/ todo[r] \cap Grant = {})

\* What the histories say of the key goes with it.
Delete(t) ==
    /\ stored' = stored \ {t} /\ list' = list \ {t} /\ joined' = joined \ {t}
    /\ unseen' = unseen \ {t} /\ dropped' = dropped \ {t}

DeleteOne(r, t) ==
    /\ pc[r] = "delete" /\ MayDelete(r, t)
    /\ Delete(t) /\ late' = late \ {t}
    /\ todo' = [todo EXCEPT ![r] = @ \ {t}]
    /\ UNCHANGED <<born, data, origin, pc, who, exchange, queue, idps, found, goal, dead,
                   signedOut, accepted, shared, failures>>

SignOutReturns(r) ==
    /\ pc[r] = "delete" /\ todo[r] = {} /\ held[r] = None
    /\ signedOut' = signedOut \cup goal[r]
    /\ Return(r)
    /\ UNCHANGED <<store, accepted, late, unseen, dropped, shared, failures>>

\* Logout, unlike the two others, clears the cookie of the session it was about: the provider is
\* nil if that was in neither list, and the call panics.
LogoutPanics(r) ==
    /\ todo[r] = {} /\ held[r] = None /\ ~found[r] /\ Goto(r, "delete", "panic")
    /\ goal' = [goal EXCEPT ![r] = {}]
    /\ UNCHANGED <<store, who, exchange, queue, idps, todo, found, dead, history, failures>>

\* The server recovers from the panic.
Recover(r) ==
    /\ pc[r] = "panic"
    /\ Return(r)
    /\ UNCHANGED <<store, history, failures>>

----------------------------------------------------------------------------
(* Manager.TerminateAllExcept(current): IdP sessions first, then grants *)

Others(S, current) == {t \in S : current = None \/ ~IsSameSSOGroup(t, current)}

BeginTerminate(r, current) ==
    /\ Goto(r, "idle", "terminateIdP")
    /\ current \in (stored \cap Listable) \cup {None}
    /\ who' = [who EXCEPT ![r] = current]
    /\ todo' = [todo EXCEPT ![r] = Others(Shown(Session), current)]
    /\ goal' = [goal EXCEPT ![r] = Others((stored \cap Listable) \ dropped, current)]
    /\ Cleans(Session)
    /\ UNCHANGED <<stored, content, exchange, queue, idps, found, dead, signedOut, accepted,
                   late, unseen, shared, failures>>

TerminateDelete(r, t) ==
    /\ pc[r] \in {"terminateIdP", "terminateGrants"} /\ t \in todo[r]
    /\ Delete(t) /\ late' = (late \cup (Members(t) \cap stored)) \ {t}
    /\ todo' = [todo EXCEPT ![r] = @ \ {t}]
    /\ UNCHANGED <<born, data, origin, pc, who, exchange, queue, idps, found, goal, dead,
                   signedOut, accepted, shared, failures>>

TerminateListGrants(r) ==
    /\ todo[r] = {} /\ Goto(r, "terminateIdP", "terminateGrants")
    /\ todo' = [todo EXCEPT ![r] = Others(Shown(Grant), who[r])]
    /\ who' = [who EXCEPT ![r] = None]
    /\ Cleans(Grant)
    /\ UNCHANGED <<stored, content, exchange, queue, idps, found, goal, dead, signedOut, accepted,
                   late, unseen, shared, failures>>

TerminateReturns(r) ==
    /\ pc[r] = "terminateGrants" /\ todo[r] = {}
    /\ signedOut' = signedOut \cup goal[r]
    /\ Return(r)
    /\ UNCHANGED <<store, accepted, late, unseen, dropped, shared, failures>>

----------------------------------------------------------------------------
(* Login, and the authorization endpoint *)

\* NodeDoCreateSession: the entry of the list comes first
BeginLogin(r, s) ==
    /\ Goto(r, "idle", "createIdP")
    /\ Fresh(s) /\ Fits(born \cup {s})
    /\ who' = [who EXCEPT ![r] = s]
    /\ list' = list \cup {s}
    /\ UNCHANGED <<stored, content, exchange, queue, idps, todo, found, goal, dead, history,
                   failures>>

\* The IdP session of the request, if any (previous), is revoked after the new one has been
\* created.
CreateSession(r, previous) ==
    /\ pc[r] = "createIdP" /\ who[r] \notin born
    /\ previous \in (born \cap Session) \cup {None}
    /\ stored' = stored \cup {who[r]} /\ born' = born \cup {who[r]}
    /\ IF previous = None
       THEN Return(r)
       ELSE /\ InvalidateBegins(r, previous)
            /\ goal' = [goal EXCEPT ![r] = Affected(previous)]
            /\ UNCHANGED <<exchange, queue, idps, todo, found, dead>>
    /\ UNCHANGED <<list, data, origin, joined, history, failures>>

\* A request with the cookie of an IdP session, or with a token of its group, updates it.
AccessSession(s) ==
    /\ s \in stored \cap Session
    /\ list' = list \cup {s}
    /\ UNCHANGED <<stored, content, pc, locals, history, failures>>

\* CreateCodeGrant.  The session is the one of the authentication; that it still exists is
\* not looked at.
CreateCodeGrant(c, d) ==
    /\ c \in Code \ born /\ Fits(born \cup {c}) /\ d.by \in born \cup {None}
    /\ stored' = stored \cup {c} /\ born' = born \cup {c}
    /\ data' = [data EXCEPT ![c] = d]
    /\ UNCHANGED <<list, origin, joined, pc, locals, history, failures>>

----------------------------------------------------------------------------
(* IssueTokensForAuthorizationCode *)

\* A grant that was signed out, or whose IdP session was
IsDead(g) == g \in signedOut \/ SSOGroupIDPSessionID(g) \in signedOut

\* The branches of doIssueTokensForAuthorizationCode: with offline_access (refresh), a token is
\* added to the grant that the user was authenticated by; or a grant is issued, before which those
\* of a client with one session are revoked.  Without it, see IssueNothing, or a grant is issued.
Branch(d, refresh) ==
    IF refresh /\ d.by \in Grant THEN "get"
    ELSE IF refresh /\ d.single THEN "listClient"
    ELSE "issue"

GetCodeGrant(r, c, refresh) ==
    LET d == data[c]
        joins == Branch(d, refresh) = "get"
    IN  /\ pc[r] = "idle" /\ c \in stored \cap Code
        /\ Within(born, Cardinality(Issuing) + IF joins THEN 0 ELSE 1, failures)
        /\ pc' = [pc EXCEPT ![r] = Branch(d, refresh)]
        /\ who' = [who EXCEPT ![r] = IF joins THEN d.by ELSE None]
        /\ dead' = [dead EXCEPT ![r] = joins /\ IsDead(d.by)]
        /\ held' = [held EXCEPT ![r] = c]
        /\ offline' = [offline EXCEPT ![r] = refresh]
        /\ shared' = IF \E q \in Request : held[q] = c THEN shared \cup {c} ELSE shared
        /\ UNCHANGED <<store, queue, idps, todo, found, goal, signedOut, accepted, late, unseen,
                       dropped, failures>>

\* revokeClientOfflineGrants: ListClientOfflineGrants, then RevokeWithoutEvent one by one
ListClientOfflineGrants(r) ==
    /\ Goto(r, "listClient", "revokeClient")
    /\ queue' = [queue EXCEPT ![r] = {g \in Shown(Grant) : OfClient(g)}]
    /\ Cleans(Grant)
    /\ UNCHANGED <<stored, content, who, exchange, idps, todo, found, goal, dead, signedOut,
                   accepted, late, unseen, shared, failures>>

RevokeClientGrant(r, g) ==
    /\ pc[r] = "revokeClient" /\ g \in queue[r]
    /\ InvalidateBegins(r, g)
    /\ UNCHANGED <<store, exchange, queue, idps, todo, found, goal, dead, history, failures>>

ClientGrantRevoked(r) ==
    /\ todo[r] = {} /\ held[r] # None /\ Goto(r, "delete", "revokeClient")
    /\ queue' = [queue EXCEPT ![r] = @ \ {who[r]}]
    /\ who' = [who EXCEPT ![r] = None] /\ found' = [found EXCEPT ![r] = FALSE]
    /\ UNCHANGED <<store, exchange, idps, todo, goal, dead, history, failures>>

\* (mutant: the first grant is enough)
AllRevokedFirst(r) == pc[r] = "revokeClient" /\ Cardinality(queue[r]) <= 1

AllRevoked(r) == pc[r] = "revokeClient" /\ queue[r] = {}

\* Requests that have listed the grants and do not see the one that is issued now
Listed(q) ==
    /\ held[q] # None
    /\ \/ pc[q] \in {"revokeClient", "listIdP", "listGrants", "delete"}
       \/ pc[q] = "createGrant" /\ data[held[q]].single /\ offline[q]

Invalidating(q, idp) ==
    /\ pc[q] = "delete" /\ who[q] # None
    /\ SSOGroupIDPSessionID(who[q]) = idp

\* IssueOfflineGrant: the entry of the list, then the key
BeginIssue(r, g) ==
    /\ pc[r] = "issue" \/ AllRevoked(r)
    /\ g \in Grant /\ Fresh(g)
    /\ pc' = [pc EXCEPT ![r] = "createGrant"]
    /\ who' = [who EXCEPT ![r] = g]
    /\ list' = list \cup {g}
    /\ UNCHANGED <<stored, content, exchange, queue, idps, todo, found, goal, dead, history,
                   failures>>

IssueOfflineGrant(r) ==
    LET g == who[r]
        d == data[held[r]]
    IN  /\ Goto(r, "createGrant", "issued") /\ g \notin born
        /\ stored' = stored \cup {g} /\ born' = born \cup {g}
        /\ origin' = [origin EXCEPT ![g] = held[r]]
        /\ late' = IF /\ d.by \in Session
                      /\ d.by \notin stored \/ \E q \in Request : Invalidating(q, d.by)
                   THEN late \cup {g} ELSE late
        /\ unseen' = IF d.single /\ \E q \in Request \ {r} : Listed(q)
                     THEN unseen \cup {g} ELSE unseen
        /\ UNCHANGED <<list, data, joined, locals, signedOut, accepted, dropped, shared,
                       failures>>

\* Without offline_access and with an id_token_hint: the access token is for the session of the
\* hint.  A public client without a hint gets an error, and the code stays.
IssueNothing(r) ==
    /\ pc[r] = "issue" /\ ~offline[r]
    /\ \/ Goto(r, "issue", "issued") /\ UNCHANGED locals
       \/ Return(r)
    /\ UNCHANGED <<store, history, failures>>

\* (mutant: the code is deleted only if the grant is in an SSO group)
DeleteCodeGrantSSO(r) ==
    /\ pc[r] = "issued"
    /\ stored' = IF data[held[r]].by \in Session THEN stored \ {held[r]} ELSE stored
    /\ Return(r)
    /\ UNCHANGED <<list, content, history, failures>>

\* PrepareUserAccessGrant, then the code is deleted and the tokens are returned.
DeleteCodeGrant(r) ==
    /\ pc[r] = "issued"
    /\ stored' = stored \ {held[r]}
    /\ Return(r)
    /\ UNCHANGED <<list, content, history, failures>>

\* PrepareUserAccessGrant fails, and the client gets an error; or the code cannot be deleted,
\* and the client gets its tokens.  The grant and the code stay either way.
ExchangeFails(r) ==
    /\ pc[r] = "issued" /\ MayFail
    /\ failures' = failures + 1
    /\ shared' = shared \cup {held[r]}
    /\ Return(r)
    /\ UNCHANGED <<store, signedOut, accepted, late, unseen, dropped>>

----------------------------------------------------------------------------
(* Using a grant: a refresh, or the resolver with an access token *)

BeginUse(r, g) ==
    /\ Goto(r, "idle", "get") /\ g \in Grant \cap born
    /\ who' = [who EXCEPT ![r] = g]
    /\ dead' = [dead EXCEPT ![r] = IsDead(g)]
    /\ UNCHANGED <<store, exchange, queue, idps, todo, found, goal, history, failures>>

\* (mutant: the IdP session of the grant is not looked at)
CheckOnlyGrant(r) ==
    /\ pc[r] \in {"get", "getIdP"}
    /\ IF who[r] \in stored
       THEN pc' = [pc EXCEPT ![r] = "update"] /\ UNCHANGED locals
       ELSE Return(r)
    /\ UNCHANGED <<store, history, failures>>

\* The grant and, if it is in a group, the IdP session are read.  That a resolver then updates
\* the IdP session is AccessSession.
GetOfflineGrant(r) ==
    LET idp == SSOGroupIDPSessionID(who[r])
        key == IF pc[r] = "get" THEN who[r] ELSE idp
        next == IF pc[r] = "get" /\ idp # None THEN "getIdP" ELSE "update"
    IN  /\ pc[r] \in {"get", "getIdP"}
        /\ IF key \in stored
           THEN pc' = [pc EXCEPT ![r] = next] /\ UNCHANGED locals
           ELSE Return(r)
        /\ UNCHANGED <<store, history, failures>>

\* The grant is read and written back (HSET, SET XX).
Update(r) ==
    /\ pc[r] = "update"
    /\ list' = IF who[r] \in stored THEN list \cup {who[r]} ELSE list
    /\ accepted' = IF who[r] \in stored /\ dead[r] THEN accepted \cup {who[r]} ELSE accepted

\* Rotated, or accessed
UpdateGrant(r) ==
    /\ Update(r) /\ held[r] = None
    /\ Return(r)
    /\ UNCHANGED <<stored, content, signedOut, late, unseen, dropped, shared, failures>>

\* IssueRefreshTokenForOfflineGrant: the token of an exchange is added.  Nothing is revoked.
AddRefreshToken(r) ==
    LET g == who[r]
        ofClient == g \in stored /\ data[held[r]].single
    IN  /\ Update(r) /\ held[r] # None
        /\ IF g \in stored THEN Goto(r, "update", "issued") /\ UNCHANGED locals ELSE Return(r)
        /\ joined' = IF ofClient THEN joined \cup {g} ELSE joined
        /\ unseen' = IF ofClient /\ ~OfClient(g) /\ \E q \in Request : Listed(q)
                     THEN unseen \cup {g} ELSE unseen
        /\ UNCHANGED <<stored, born, data, origin, signedOut, late, dropped, shared, failures>>

----------------------------------------------------------------------------
(* The environment *)

\* The entry of a session that has expired stays until a List, but is of no effect.
Expire(k) ==
    /\ k \in stored
    /\ Delete(k) /\ late' = (late \cup (Members(k) \cap stored)) \ {k}
    /\ UNCHANGED <<born, data, origin, pc, locals, signedOut, accepted, shared, failures>>

Crash(r) ==
    /\ pc[r] \notin {"idle", "issued"} /\ MayFail
    /\ failures' = failures + 1
    /\ Return(r)
    /\ UNCHANGED <<store, history>>

Call(r) ==
    \/ \E s \in Listable : BeginSignOut(r, s)
    \/ \E s \in Listable \cup {None} : BeginTerminate(r, s)
    \/ \E s \in Session : BeginLogin(r, s)
    \/ \E c \in Code, refresh \in BOOLEAN : GetCodeGrant(r, c, refresh)
    \/ \E g \in Grant : BeginUse(r, g)

Step(r) ==
    \/ ListIdP(r) \/ ListGrants(r) \/ (\E t \in Listable : DeleteOne(r, t))
    \/ SignOutReturns(r) \/ LogoutPanics(r) \/ Recover(r)
    \/ (\E t \in Listable : TerminateDelete(r, t))
    \/ TerminateListGrants(r) \/ TerminateReturns(r)
    \/ (\E s \in Session \cup {None} : CreateSession(r, s))
    \/ ListClientOfflineGrants(r) \/ (\E g \in Grant : RevokeClientGrant(r, g))
    \/ ClientGrantRevoked(r)
    \/ (\E g \in Grant : BeginIssue(r, g)) \/ IssueOfflineGrant(r) \/ IssueNothing(r)
    \/ DeleteCodeGrant(r) \/ ExchangeFails(r)
    \/ GetOfflineGrant(r) \/ UpdateGrant(r) \/ AddRefreshToken(r)
    \/ Crash(r)

Next ==
    \/ \E r \in Request : Call(r) \/ Step(r)
    \/ \E c \in Code, d \in CodeData : CreateCodeGrant(c, d)
    \/ \E s \in Session : AccessSession(s)
    \/ List(Session) \/ List(Grant)
    \/ \E k \in Key : Expire(k)

Spec == Init /\ [][Next]_vars

----------------------------------------------------------------------------
(* Properties *)

TypeOK ==
    /\ born \subseteq Key /\ stored \subseteq born /\ list \subseteq Listable
    /\ data \in [Code -> Data]
    /\ \A c \in Code : data[c].by \in Session => ~data[c].single
    /\ origin \in [Grant -> Code \cup {None}] /\ joined \subseteq stored \cap Grant
    /\ pc \in [Request ->
         {"idle", "listIdP", "listGrants", "delete", "panic", "terminateIdP", "terminateGrants",
          "createIdP", "listClient", "revokeClient", "issue", "createGrant", "issued", "get",
          "getIdP", "update"}]
    /\ who \in [Request -> Listable \cup {None}] /\ held \in [Request -> Code \cup {None}]
    /\ offline \in [Request -> BOOLEAN]
    /\ queue \in [Request -> SUBSET Grant] /\ idps \in [Request -> SUBSET Session]
    /\ todo \in [Request -> SUBSET Listable] /\ found \in [Request -> BOOLEAN]
    /\ goal \in [Request -> SUBSET Listable] /\ dead \in [Request -> BOOLEAN]
    /\ signedOut \subseteq Listable /\ accepted \subseteq Grant /\ late \subseteq Grant
    /\ unseen \subseteq Grant /\ dropped \subseteq Listable /\ shared \subseteq Code
    /\ failures \in Nat

\* When a sign-out, a revocation or a termination has returned, everything it was about and
\* that existed when it began is gone, for good; but for sessions whose entry a List removed
\* during their creation, which it does not find.
SignOutIsComplete == signedOut \cap stored = {}

\* A request that begins after a sign-out has returned cannot use a token of that SSO group,
\* nor add one, not even one of a grant that was issued during the sign-out or after it.  (What a
\* sign-out did not find, see above, is not signed out.)
SignedOutGroupIsDead == accepted = {}

\* A logout fails only for a session that is gone, or that a List dropped during its creation.
LogoutPanicsOnlyIfGone ==
    \A r \in Request : pc[r] = "panic" => who[r] \notin stored \/ who[r] \in dropped

\* manager.go:77 "delete offline grant first": a crash between two deletions leaves no grant
\* behind without its IdP session.  Only a code exchanged during the sign-out or after it, a
\* termination, the end of the session, or a List that dropped the grant during its creation may.
OrphanOnlyByRace ==
    \A g \in stored \cap Grant :
        SSOGroupIDPSessionID(g) # None =>
            SSOGroupIDPSessionID(g) \in stored \/ g \in late \cup dropped

\* docs/specs/oidc.md:26: with x_max_concurrent_session = 1 "all refresh tokens of the client
\* will be revoked when a new one is requested".  When an exchange for a refresh token writes a
\* new grant of the client, no grant with a token of the client is left, but those issued or
\* given the token behind its back and those dropped from the list.  (The two other branches of
\* the exchange revoke nothing.)
NewGrantReplacesOld ==
    \A r \in Request : pc[r] = "createGrant" /\ Listed(r) =>
        \A g \in stored \cap Grant : OfClient(g) => g \in unseen \cup dropped

\* docs/specs/authentication-flow.md:758: a code is for one-time use.  It yields two grants only
\* if two requests exchange it at the same time, or if a step of the exchange fails.
CodeUsedTwiceOnlyByOverlap ==
    \A g, h \in Grant :
        g # h /\ origin[g] # None /\ origin[g] = origin[h] => origin[g] \in shared
=============================================================================

----------------------- MODULE OfflineGrantStore_proofs -----------------------
(***************************************************************************)
(* What OfflineGrantStore guarantees for every number of requests, grants   *)
(* and authorizations, every lifetime and every bound.                      *)
(***************************************************************************)
EXTENDS OfflineGrantStore, FiniteSetTheorems, TLAPS

\* Requests that add a token to a grant are counted by the bound on its tokens.
Issuing(g) == {r \in Request : op[r] \in {"add", "addShortLived"} /\ gid[r] = g}
CountInv == \A g \in Grant : appended[g] + Cardinality(Issuing(g)) <= MaxTokens

\* Which updates belong to which request
ControlInv ==
    \A r \in Request :
        /\ op[r] \in {"add", "addShortLived"} => flow[r] = "issue"
        /\ op[r] = "rotate" => flow[r] = "refresh" /\ RotationEnabled
        /\ op[r] = "revoke" => flow[r] = "revoke"
        /\ pc[r] \in {"lock", "hset", "set", "hdel", "housekeep", "reread", "client"} =>
              flow[r] \notin {"create", "terminate"} /\ gid[r] \in born
        /\ pc[r] \in {"lock", "hset", "set", "hdel", "housekeep", "reread", "client"} =>
              (flow[r] = "revoke" => op[r] = "revoke")
        /\ pc[r] = "idle" => op[r] = "none" /\ flow[r] = "terminate"
        /\ pc[r] \in {"list.get", "list.hdel"} => flow[r] \in {"revoke", "terminate"}
        /\ pc[r] = "create.setnx" => flow[r] = "create"
        /\ pc[r] = "housekeep" => op[r] = "trim"
        /\ pc[r] = "reread" => op[r] = "rotate"
        /\ pc[r] = "client" => op[r] = "access"
        /\ pc[r] = "hdel" => op[r] \in {"trim", "revoke"}
        /\ flow[r] \in {"refresh", "issue"} => gid[r] \in born

\* Only what has been handed out is stored, and a grant is stored at most once: while
\* its creation is between HSET and SETNX no other creation knows its ID.
BornInv ==
    /\ stored \subseteq born /\ born \subseteq issued
    /\ \A r \in Request : pc[r] = "create.setnx" =>
          /\ gid[r] \in issued \ born
          /\ \A q \in Request \ {r} : pc[q] = "create.setnx" => gid[q] # gid[r]
    /\ \A r \in Request : seen[r] \subseteq born
    /\ \A g \in Grant \ stored : value[g] = NoGrant
    /\ \A g \in Grant \ born : appended[g] = 0

\* The list may lack a grant that a List met half-way through its creation, and no
\* other; a pending HDEL is about a grant that will never exist again, or about such a one.
ListInv ==
    /\ stored \subseteq list \cup missed
    /\ \A r \in Request :
          /\ pc[r] = "create.setnx" => gid[r] \in list \cup missed
          /\ pc[r] = "list.hdel" => gid[r] \in missed \cup (born \ stored)
          /\ pc[r] = "hdel" => gid[r] \in born \ stored

MutexInv == \A r \in Request : pc[r] \in {"hset", "set", "hdel"} => mutex[gid[r]] = r

\* A token that a grant does not have has not had its hash rotated.
TokenInv ==
    \A g \in Grant :
        /\ value[g].tokens \subseteq 1 .. appended[g]
        /\ g \in stored => value[g].tokens # {}
        /\ \A t \in TokenId \ value[g].tokens : value[g].info[t].current = 0

\* What SET XX is about to write differs from what is stored by the change that was asked
\* for, and by nothing else.
Changed(r, new, old) ==
    /\ new.tokens = CASE op[r] \in {"add", "addShortLived"} ->
                            old.tokens \cup {appended[gid[r]] + 1}
                      [] op[r] \in {"trim", "revoke"} -> old.tokens \ remove[r]
                      [] OTHER -> old.tokens
    /\ op[r] = "rotate" => token[r] \in old.tokens
    /\ \A t \in TokenId : new.info[t].current =
          CASE op[r] = "rotate" /\ t = token[r] -> version[r]
            [] op[r] \in {"trim", "revoke"} /\ t \in remove[r] -> 0
            [] OTHER -> old.info[t].current
    /\ \A t \in old.tokens \cap new.tokens : new.info[t].authorization = old.info[t].authorization
MemOf(r) ==
    /\ pc[r] = "create.setnx" =>
          mem[r].tokens = {1} /\ \A t \in TokenId : mem[r].info[t].current = 0
    /\ pc[r] = "hset" /\ gid[r] \in stored =>
          mem[r] = value[gid[r]] /\ (op[r] = "rotate" => token[r] \in mem[r].tokens)
    /\ pc[r] \in {"hset", "set"} => mem[r].tokens # {}
    /\ pc[r] = "set" /\ gid[r] \in stored => Changed(r, mem[r], value[gid[r]])
MemInv == \A r \in Request : MemOf(r)

\* Every hash is generated for one request, which puts it in force once.
VersionOf(r) ==
    /\ version[r] > 0 => flow[r] = "refresh"
    /\ flow[r] = "refresh" /\ RotationEnabled => version[r] > 0
    /\ flow[r] = "refresh" /\ op[r] \in {"deviceSecret", "rotate"} =>
          version[r] \notin applied /\ pc[r] # "done"
    /\ flow[r] = "refresh" /\ RotationEnabled /\ op[r] \notin {"deviceSecret", "rotate"} =>
          version[r] \in applied \/ gid[r] \notin stored
VersionInv ==
    /\ applied \subseteq 1 .. rotations
    /\ RotationEnabled \/ rotations = 0
    /\ \A r \in Request : version[r] <= rotations
    /\ \A r, q \in Request : r # q /\ version[r] > 0 => version[q] # version[r]
    /\ \A r \in Request : VersionOf(r)

\* What a revocation or termination still owes, and how it pursues it: it has to read the
\* grant, has it in memory with the token, or is about to write it without the token.
Owed(r, g, t) == <<g, t>> \in doomed[r] /\ g \in stored \ missed /\ t \in value[g].tokens
Pursued(r, g, t) ==
    /\ pc[r] # "done"
    /\ flow[r] = "revoke" /\ g \in seen[r] =>
          t \in copy[r][g].tokens /\ copy[r][g].info[t].authorization = az[r]
    /\ pc[r] \in {"list.get", "list.hdel"} => g \in todo[r] \cup seen[r]
    /\ flow[r] = "revoke" /\ pc[r] \in {"lock", "hset", "set", "hdel"} =>
          g \in todo[r] \cup seen[r] \/ (g = gid[r] /\ t \in remove[r])
SweepOf(r) ==
    /\ pc[r] = "idle" => doomed[r] = {} /\ seen[r] = {}
    /\ doomed[r] # {} => flow[r] \in {"revoke", "terminate"}
    /\ \A g \in Grant, t \in TokenId : <<g, t>> \in doomed[r] => g \in born /\ t <= appended[g]
    /\ \A g \in Grant, t \in TokenId : Owed(r, g, t) =>
          /\ Pursued(r, g, t)
          /\ flow[r] = "revoke" => value[g].info[t].authorization = az[r]
SweepInv == \A r \in Request : SweepOf(r)

\* What Init starts with, and what a request forgets, has its type.
LEMMA ZeroType ==
    /\ 0 \in Time /\ 0 \in Expiry /\ 1 \in TokenId /\ 0 \in Version
    /\ SomeAuthorization \in Authorization
    /\ NoToken \in TokenData /\ NoGrant \in GrantData
  BY GrantAssumption, BoundAssumption
     DEF Time, Expiry, TokenId, Version, SomeAuthorization, NoToken, TokenData, NoGrant, GrantData

\* The names of steps, flows and updates that the actions use are the ones listed.
LEMMA NameType ==
    /\ "idle" \in Steps /\ "done" \in Steps /\ "failed" \in Steps /\ "panic" \in Steps
    /\ "create.setnx" \in Steps /\ "lock" \in Steps /\ "hset" \in Steps
    /\ "set" \in Steps /\ "hdel" \in Steps /\ "reread" \in Steps /\ "housekeep" \in Steps
    /\ "client" \in Steps /\ "list.get" \in Steps /\ "list.hdel" \in Steps
    /\ "create" \in Flows /\ "refresh" \in Flows /\ "cookie" \in Flows
    /\ "bearer" \in Flows /\ "issue" \in Flows /\ "reauth" \in Flows /\ "saml" \in Flows
    /\ "revoke" \in Flows /\ "terminate" \in Flows
    /\ Flow \subseteq Flows
    /\ "none" \in Operations /\ "add" \in Operations /\ "addShortLived" \in Operations
    /\ "rotate" \in Operations /\ "trim" \in Operations /\ "revoke" \in Operations
    /\ "access" \in Operations /\ {"authTime", "deviceSecret"} \subseteq Operations
    /\ "deviceInfo" \in Operations /\ "deviceKey" \in Operations
    /\ "participant" \in Operations
  BY GrantAssumption DEF Steps, Flows, Operations

\* An expiry depends on the two timestamps only.
LEMMA ExpiryType ==
    ASSUME NEW x, x.createdAt \in Time, x.lastAccess \in Time PROVE ExpiryOf(x) \in Expiry
  BY BoundAssumption DEF ExpiryOf, Time, Expiry

\* The timestamps of a grant are times.
LEMMA ValueTimes ==
    ASSUME NEW x \in GrantData PROVE x.createdAt \in Time /\ x.lastAccess \in Time
  BY DEF GrantData

\* A request that adds a token finds a number for it.
LEMMA IssuingIsBounded ==
    ASSUME TypeOK, CountInv, NEW r \in Request, op[r] \in {"add", "addShortLived"}
    PROVE  appended[gid[r]] + 1 \in TokenId
<1> DEFINE g == gid[r]
<1>1. g \in Grant /\ appended[g] \in Nat /\ appended[g] + Cardinality(Issuing(g)) <= MaxTokens
  BY DEF TypeOK, CountInv
<1>2. r \in Issuing(g) /\ IsFiniteSet(Issuing(g))
  BY FS_Subset, GrantAssumption DEF Issuing
<1>3. Cardinality(Issuing(g)) \in Nat /\ Cardinality(Issuing(g)) # 0
  BY <1>2, FS_CardinalityType, FS_EmptySet
<1> QED
  BY <1>1, <1>3, BoundAssumption DEF TokenId

\* What a mutator makes of a grant is a grant.
LEMMA MutatedType ==
    ASSUME TypeOK, CountInv, NEW r \in Request PROVE Mutated(r) \in GrantData
<1> DEFINE g == mem[r]  k == appended[gid[r]] + 1
<1>1. /\ g \in GrantData /\ event[r] \in Time /\ now \in Time /\ az[r] \in Authorization
      /\ version[r] \in Version /\ token[r] \in TokenId /\ remove[r] \subseteq TokenId
  BY DEF TypeOK
<1>2. CASE op[r] \in {"add", "addShortLived"}
  <2> DEFINE new == [authorization |-> az[r], current |-> 0, createdAt |-> now,
                     lastAccess |-> event[r],
                     expireAt |-> IF op[r] = "add" THEN 0 ELSE event[r] + ShortLifetime]
  <2>1. k \in TokenId
    BY <1>2, IssuingIsBounded
  <2>2. new \in TokenData
    BY <1>1, ZeroType, BoundAssumption DEF TokenData, Time
  <2>3. [g EXCEPT !.tokens = @ \cup {k}, !.info[k] = new] \in GrantData
    BY <1>1, <2>1, <2>2 DEF GrantData
  <2> QED
    BY <1>2, <2>3 DEF Mutated
<1>3. CASE op[r] = "rotate"
  <2>1. g.info \in [TokenId -> TokenData] /\ g.info[token[r]] \in TokenData
    BY <1>1 DEF GrantData
  <2>2. [g.info[token[r]] EXCEPT !.current = version[r]] \in TokenData
    BY <1>1, <2>1 DEF TokenData
  <2>3. [g.info EXCEPT ![token[r]].current = version[r]] \in [TokenId -> TokenData]
    BY <1>1, <2>1, <2>2
  <2>4. [g EXCEPT !.info[token[r]].current = version[r]] \in GrantData
    BY <1>1, <2>3 DEF GrantData
  <2> QED
    BY <1>3, <2>4 DEF Mutated
<1>4. CASE op[r] \in {"trim", "revoke"}
  <2>1. WithoutTokens(g, remove[r]) \in GrantData
    BY <1>1, ZeroType DEF GrantData, WithoutTokens
  <2> QED
    BY <1>4, <2>1 DEF Mutated
<1>5. CASE op[r] = "access"
  <2>1. Accessed(g, token[r], event[r]) \in GrantData
    <3>1. g.info \in [TokenId -> TokenData] /\ g.info[token[r]] \in TokenData
      BY <1>1 DEF GrantData
    <3>2. [g.info[token[r]] EXCEPT !.lastAccess =
             IF token[r] \in g.tokens THEN event[r] ELSE @] \in TokenData
      BY <1>1, <3>1 DEF TokenData
    <3>3. [g.info EXCEPT ![token[r]].lastAccess =
             IF token[r] \in g.tokens THEN event[r] ELSE @] \in [TokenId -> TokenData]
      BY <1>1, <3>1, <3>2
    <3> QED
      BY <1>1, <3>3 DEF GrantData, Accessed
  <2> QED
    BY <1>5, <2>1 DEF Mutated
<1>6. CASE op[r] = "deviceKey"
  <2>1. [g EXCEPT !.deviceKey = {r}] \in GrantData
    BY <1>1 DEF GrantData
  <2> QED
    BY <1>6, <2>1 DEF Mutated
<1> QED
  BY <1>1, <1>2, <1>3, <1>4, <1>5, <1>6 DEF Mutated

\* Every step keeps the types.
LEMMA TypeStep == TypeOK /\ CountInv /\ ControlInv /\ VersionInv /\ [Next]_vars => TypeOK'
<1> SUFFICES ASSUME TypeOK, CountInv, ControlInv, VersionInv, [Next]_vars PROVE TypeOK'
  OBVIOUS
<1> USE DEF TypeOK, Goto, redis, locals, history
<1> USE ZeroType
<1>1. ASSUME NEW r \in Request, Begin(r) PROVE TypeOK'
  <2>1. ASSUME NEW g \in Grant, NEW a \in Authorization, BeginCreate(r, g, a) PROVE TypeOK'
    <3> DEFINE new == [createdAt |-> now, lastAccess |-> now, deviceKey |-> {}, tokens |-> {1},
                       info |-> [t \in TokenId |->
                           IF t = 1 THEN [authorization |-> a, current |-> 0, createdAt |-> now,
                                          lastAccess |-> now, expireAt |-> 0]
                           ELSE NoToken]]
    <3>1. now \in Time /\ a \in Authorization
      OBVIOUS
    <3>2. [authorization |-> a, current |-> 0, createdAt |-> now, lastAccess |-> now,
           expireAt |-> 0] \in TokenData
      BY <3>1, ZeroType, BoundAssumption DEF TokenData, Time
    <3>3. new \in GrantData
      BY <3>1, <3>2 DEF GrantData
    <3> QED
      BY <2>1, <3>3, NameType DEF BeginCreate
  <2>2. ASSUME NEW g \in Grant, NEW a \in Authorization,
               NEW o \in {"add", "addShortLived"}, BeginIssue(r, g, a, o) PROVE TypeOK'
    <3>1. ExpiryOf(value[g]) \in Expiry
      BY ExpiryType, ValueTimes
    <3> QED
      BY <2>2, <3>1, NameType DEF BeginIssue, Resolved
  <2>3. ASSUME NEW g \in Grant, NEW t \in TokenId, BeginRefresh(r, g, t) PROVE TypeOK'
    <3>1. ExpiryOf(value[g]) \in Expiry
      BY ExpiryType, ValueTimes
    <3>2. rotations' \in Version
      BY <2>3, BoundAssumption DEF BeginRefresh, Version
    <3>3. PICK step, o : Resolved(r, "refresh", g, t, step, o) /\ step \in Steps /\ o \in Operations
      BY <2>3, NameType DEF BeginRefresh, Preparation
    <3>4. version' \in [Request -> Version] /\ az' = az
      BY <2>3, <3>2 DEF BeginRefresh
    <3> QED
      BY <3>1, <3>2, <3>3, <3>4, NameType DEF Resolved
  <2>4. ASSUME NEW g \in Grant, NEW t \in TokenId,
               NEW f \in {"cookie", "bearer"}, BeginResolve(r, f, g, t) PROVE TypeOK'
    <3>1. ExpiryOf(value[g]) \in Expiry
      BY ExpiryType, ValueTimes
    <3> QED
      BY <2>4, <3>1, NameType DEF BeginResolve, Resolved
  <2>5. ASSUME NEW g \in Grant,
               NEW o \in {"authTime", "deviceSecret", "deviceKey"}, BeginReauth(r, g, o)
        PROVE  TypeOK'
    <3>1. ExpiryOf(value[g]) \in Expiry
      BY ExpiryType, ValueTimes
    <3> QED
      BY <2>5, <3>1, NameType DEF BeginReauth, Resolved
  <2>6. ASSUME NEW g \in Grant, BeginSAML(r, g) PROVE TypeOK'
    <3>1. ExpiryOf(value[g]) \in Expiry
      BY ExpiryType, ValueTimes
    <3> QED
      BY <2>6, <3>1, NameType DEF BeginSAML, Resolved
  <2>7. ASSUME NEW a \in Authorization,
               NEW f \in {"revoke", "terminate"}, BeginList(r, f, a) PROVE TypeOK'
    BY <2>7, NameType DEF BeginList
  <2> HIDE DEF TypeOK, Goto, redis, locals, history
  <2>8. az[r] \in Authorization /\ authorizations \subseteq Authorization
    BY DEF TypeOK
  <2> QED
    BY <1>1, <2>1, <2>2, <2>3, <2>4, <2>5, <2>6, <2>7, <2>8 DEF Begin
<1>2. ASSUME NEW r \in Request, Step(r) PROVE TypeOK'
  <2>1. CASE CreateSetNX(r)
    <3>1. /\ ExpiryOf(mem[r]) \in Expiry /\ 1 \in 0 .. MaxTokens /\ mem[r] \in GrantData
          /\ "done" \in Steps /\ "failed" \in Steps
      BY ExpiryType, ValueTimes, BoundAssumption, NameType
    <3>2. pc' \in [Request -> Steps]
      <4>1. pc \in [Request -> Steps]
        OBVIOUS
      <4> HIDE DEF TypeOK
      <4>2. pc' = [pc EXCEPT ![r] = "done"] \/ pc' = [pc EXCEPT ![r] = "failed"]
        BY <2>1 DEF CreateSetNX
      <4> QED
        BY <3>1, <4>1, <4>2
    <3>3. stored' \subseteq Grant /\ born' \subseteq Grant
      BY <2>1 DEF CreateSetNX
    <3>4. value' \in [Grant -> GrantData] /\ ttl' \in [Grant -> Expiry]
      <4>1. value \in [Grant -> GrantData] /\ ttl \in [Grant -> Expiry] /\ gid[r] \in Grant
        OBVIOUS
      <4>2. \/ value' = value /\ ttl' = ttl
            \/ /\ value' = [value EXCEPT ![gid[r]] = mem[r]]
               /\ ttl' = [ttl EXCEPT ![gid[r]] = ExpiryOf(mem[r])]
        BY <2>1 DEF CreateSetNX
      <4> HIDE DEF TypeOK
      <4> QED
        BY <3>1, <4>1, <4>2
    <3>5. appended' \in [Grant -> 0 .. MaxTokens]
      BY <2>1, <3>1 DEF CreateSetNX
    <3> QED
      BY <2>1, <3>2, <3>3, <3>4, <3>5 DEF CreateSetNX
  <2>2. CASE LockAndGet(r)
    <3>1. "hset" \in Steps /\ "failed" \in Steps
      BY NameType
    <3>2. pc' \in [Request -> Steps]
      <4>1. pc \in [Request -> Steps]
        OBVIOUS
      <4> HIDE DEF TypeOK
      <4>2. pc' = [pc EXCEPT ![r] = "hset"] \/ pc' = [pc EXCEPT ![r] = "failed"]
        BY <2>2 DEF LockAndGet
      <4> QED
        BY <3>1, <4>1, <4>2
    <3>3. mem' \in [Request -> GrantData]
      <4>1. mem \in [Request -> GrantData] /\ value[gid[r]] \in GrantData
        OBVIOUS
      <4> HIDE DEF TypeOK
      <4>2. mem' = mem \/ mem' = [mem EXCEPT ![r] = value[gid[r]]]
        BY <2>2 DEF LockAndGet
      <4> QED
        BY <4>1, <4>2
    <3>4. mutex' \in [Grant -> Request \cup {Free, Abandoned}]
      <4>1. mutex' = mutex \/ mutex' = [mutex EXCEPT ![gid[r]] = r]
        BY <2>2 DEF LockAndGet
      <4> QED
        BY <4>1
    <3> QED
      BY <2>2, <3>2, <3>3, <3>4 DEF LockAndGet
  <2>3. CASE LockGivesUp(r)
    BY <2>3, NameType DEF LockGivesUp
  <2>4. CASE UpdateHSet(r)
    <3>1. Mutated(r) \in GrantData
      BY MutatedType
    <3> QED
      BY <2>4, <3>1, NameType DEF UpdateHSet
  <2>5. CASE UpdateSetXX(r)
    <3>1. After(r)[1] \in Steps /\ After(r)[2] \in Operations
      BY NameType DEF After, Preparation
    <3>2. op[r] \in {"add", "addShortLived"} => appended[gid[r]] + 1 \in 0 .. MaxTokens
      BY IssuingIsBounded DEF TokenId
    <3>3. op[r] = "rotate" => version[r] \in 1 .. MaxRotations
      BY DEF ControlInv, VersionInv, VersionOf, Version
    <3>4. pc' \in [Request -> Steps] /\ op' \in [Request -> Operations]
      <4>1. "failed" \in Steps
        BY NameType
      <4>2. Continue(r, After(r)) \/ Continue(r, <<"failed", op[r]>>)
        BY <2>5 DEF UpdateSetXX
      <4>3. pc \in [Request -> Steps] /\ op \in [Request -> Operations] /\ op[r] \in Operations
        OBVIOUS
      <4> HIDE DEF TypeOK
      <4> QED
        BY <3>1, <4>1, <4>2, <4>3 DEF Continue
    <3>5. /\ remove' \in [Request -> SUBSET TokenId]
          /\ mutex' \in [Grant -> Request \cup {Free, Abandoned}]
      BY <2>5 DEF UpdateSetXX, Continue
    <3>6. value' \in [Grant -> GrantData] /\ ttl' \in [Grant -> Expiry]
      BY <2>5 DEF UpdateSetXX
    <3>7. appended' \in [Grant -> 0 .. MaxTokens]
      BY <2>5, <3>2 DEF UpdateSetXX
    <3>8. applied' \subseteq 1 .. MaxRotations
      <4>1. applied' = applied \/ (op[r] = "rotate" /\ applied' = applied \cup {version[r]})
        BY <2>5 DEF UpdateSetXX
      <4> QED
        BY <3>3, <4>1
    <3> QED
      BY <2>5, <3>4, <3>5, <3>6, <3>7, <3>8 DEF UpdateSetXX
  <2>6. CASE RemoveDel(r)
    BY <2>6, NameType DEF RemoveDel, Gone
  <2>7. CASE RemoveHDel(r)
    <3>1. After(r)[1] \in Steps /\ After(r)[2] \in Operations
      BY NameType DEF After, Preparation
    <3> QED
      BY <2>7, <3>1 DEF RemoveHDel, Continue
  <2>8. CASE Reread(r)
    <3>1. ExpiryOf(value[gid[r]]) \in Expiry /\ "lock" \in Steps /\ "failed" \in Steps
      BY ExpiryType, ValueTimes, NameType
    <3>2. pc' \in [Request -> Steps] /\ expireAt' \in [Request -> Expiry]
      <4>1. pc \in [Request -> Steps] /\ expireAt \in [Request -> Expiry]
        OBVIOUS
      <4> HIDE DEF TypeOK
      <4>2. /\ pc' = [pc EXCEPT ![r] = "lock"] \/ pc' = [pc EXCEPT ![r] = "failed"]
            /\ expireAt' = expireAt \/ expireAt' = [expireAt EXCEPT ![r] = ExpiryOf(value[gid[r]])]
        BY <2>8 DEF Reread
      <4> QED
        BY <3>1, <4>1, <4>2
    <3> QED
      BY <2>8, <3>2 DEF Reread
  <2>9. CASE HousekeepOfflineGrant(r)
    <3>1. ExpiryOf(mem[r]) \in Expiry /\ mem[r].tokens \subseteq TokenId
      BY ExpiryType, ValueTimes DEF GrantData
    <3> QED
      BY <2>9, <3>1, NameType DEF HousekeepOfflineGrant
  <2>10. CASE ClientCheck(r)
    <3>1. "lock" \in Steps /\ "failed" \in Steps
      BY NameType
    <3>2. pc' \in [Request -> Steps] /\ expireAt' \in [Request -> Expiry]
      <4>1. /\ pc \in [Request -> Steps] /\ expireAt \in [Request -> Expiry]
            /\ session[r] \in Expiry
        OBVIOUS
      <4> HIDE DEF TypeOK
      <4>2. /\ pc' = [pc EXCEPT ![r] = "lock"] \/ pc' = [pc EXCEPT ![r] = "failed"]
            /\ expireAt' = expireAt \/ expireAt' = [expireAt EXCEPT ![r] = session[r]]
        BY <2>10 DEF ClientCheck
      <4> QED
        BY <3>1, <4>1, <4>2
    <3> QED
      BY <2>10, <3>2 DEF ClientCheck
  <2>11. ASSUME NEW g \in Grant, ListGet(r, g) PROVE TypeOK'
    <3>1. "list.get" \in Steps /\ "list.hdel" \in Steps
      BY NameType
    <3>2. pc' \in [Request -> Steps] /\ gid' \in [Request -> Grant]
      <4>1. pc \in [Request -> Steps] /\ gid \in [Request -> Grant]
        OBVIOUS
      <4> HIDE DEF TypeOK
      <4>2. /\ pc' = [pc EXCEPT ![r] = "list.get"] \/ pc' = [pc EXCEPT ![r] = "list.hdel"]
            /\ gid' = gid \/ gid' = [gid EXCEPT ![r] = g]
        BY <2>11 DEF ListGet
      <4> QED
        BY <3>1, <4>1, <4>2
    <3>3. /\ todo' \in [Request -> SUBSET Grant] /\ seen' \in [Request -> SUBSET Grant]
          /\ missed' \subseteq Grant
      <4>1. /\ todo' = [todo EXCEPT ![r] = @ \ {g}]
            /\ seen' = seen \/ seen' = [seen EXCEPT ![r] = @ \cup {g}]
            /\ missed' = missed \/ missed' = missed \cup {g}
        BY <2>11 DEF ListGet
      <4>2. /\ todo \in [Request -> SUBSET Grant] /\ seen \in [Request -> SUBSET Grant]
            /\ missed \subseteq Grant
        OBVIOUS
      <4> HIDE DEF TypeOK
      <4> QED
        BY <4>1, <4>2
    <3>4. copy' \in [Request -> [Grant -> GrantData]]
      <4>1. copy' = copy \/ copy' = [copy EXCEPT ![r][g] = value[g]]
        BY <2>11 DEF ListGet
      <4>2. copy \in [Request -> [Grant -> GrantData]] /\ value[g] \in GrantData
        OBVIOUS
      <4> HIDE DEF TypeOK
      <4> QED
        BY <4>1, <4>2
    <3> QED
      BY <2>11, <3>2, <3>3, <3>4 DEF ListGet
  <2>12. ASSUME NEW g \in Grant, RevokeTokens(r, g) PROVE TypeOK'
    <3>1. copy[r][g] \in GrantData
      OBVIOUS
    <3>2. /\ ExpiryOf(copy[r][g]) \in Expiry
          /\ Removable(copy[r][g], az[r]) \subseteq TokenId
          /\ "lock" \in Steps /\ "revoke" \in Operations
      BY <3>1, ExpiryType, ValueTimes, NameType DEF GrantData, Removable
    <3>3. pc' \in [Request -> Steps] /\ op' \in [Request -> Operations]
      <4>1. pc \in [Request -> Steps] /\ op \in [Request -> Operations]
        OBVIOUS
      <4> HIDE DEF TypeOK
      <4>2. /\ pc' = pc \/ pc' = [pc EXCEPT ![r] = "lock"]
            /\ op' = op \/ op' = [op EXCEPT ![r] = "revoke"]
        BY <2>12 DEF RevokeTokens
      <4> QED
        BY <3>2, <4>1, <4>2
    <3>4. expireAt' \in [Request -> Expiry] /\ remove' \in [Request -> SUBSET TokenId]
      <4>1. \/ expireAt' = expireAt /\ remove' = remove
            \/ /\ expireAt' = [expireAt EXCEPT ![r] = ExpiryOf(copy[r][g])]
               /\ remove' = [remove EXCEPT ![r] = Removable(copy[r][g], az[r])]
        BY <2>12 DEF RevokeTokens
      <4>2. expireAt \in [Request -> Expiry] /\ remove \in [Request -> SUBSET TokenId]
        OBVIOUS
      <4> HIDE DEF TypeOK
      <4> QED
        BY <3>2, <4>1, <4>2
    <3>5. /\ gid' \in [Request -> Grant] /\ seen' \in [Request -> SUBSET Grant]
          /\ copy' \in [Request -> [Grant -> GrantData]]
      BY <2>12 DEF RevokeTokens, Handled
    <3> QED
      BY <2>12, <3>3, <3>5, <3>4 DEF RevokeTokens
  <2>13. ASSUME NEW g \in Grant, TerminateDel(r, g) PROVE TypeOK'
    BY <2>13, NameType DEF TerminateDel, Listed, Handled, Gone
  <2>14. CASE ListHDel(r)
    BY <2>14, NameType DEF ListHDel
  <2>15. CASE DeleteAuthorization(r)
    BY <2>15, NameType DEF DeleteAuthorization
  <2>16. CASE Terminated(r)
    BY <2>16, NameType DEF Terminated
  <2>17. CASE Return(r)
    BY <2>17, NameType DEF Return, Forget
  <2> HIDE DEF TypeOK, Goto, redis, locals, history
  <2> QED
    BY <1>2, <2>1, <2>2, <2>3, <2>4, <2>5, <2>6, <2>7, <2>8, <2>9,
       <2>10, <2>11, <2>12, <2>13, <2>14, <2>15, <2>16, <2>17 DEF Step
<1>3. ASSUME NEW r \in Request, Crash(r) PROVE TypeOK'
  <2>1. crashes' \in 0 .. MaxCrashes
    BY <1>3, BoundAssumption DEF Crash
  <2>2. mutex' \in [Grant -> Request \cup {Free, Abandoned}]
    BY <1>3 DEF Crash
  <2> QED
    BY <1>3, <2>1, <2>2, NameType DEF Crash, Forget
<1>4. ASSUME NEW g \in Grant, LeaseExpires(g) PROVE TypeOK'
  BY <1>4, NameType DEF LeaseExpires
<1>5. CASE Tick
  <2>1. now' \in Time
    BY <1>5, BoundAssumption DEF Tick, Time
  <2> QED
    BY <1>5, <2>1 DEF Tick, Gone
<1>6. CASE UNCHANGED vars
  BY <1>6, NameType DEF vars
<1> QED
  BY <1>1, <1>2, <1>3, <1>4, <1>5, <1>6 DEF Next

----------------------------------------------------------------------------
(* The steps of a request, the store's keys and its lists *)

\* What these lemmas need to know of the types
KeyType ==
    /\ pc \in [Request -> Steps] /\ flow \in [Request -> Flows] /\ op \in [Request -> Operations]
    /\ gid \in [Request -> Grant] /\ seen \in [Request -> SUBSET Grant]
    /\ todo \in [Request -> SUBSET Grant] /\ az \in [Request -> Authorization]
    /\ authorizations \subseteq Authorization
    /\ mutex \in [Grant -> Request \cup {Free, Abandoned}]
    /\ mem \in [Request -> GrantData]
    /\ value \in [Grant -> GrantData] /\ appended \in [Grant -> 0 .. MaxTokens]

\* The updates that can leave a grant without tokens are those that remove some.
LEMMA MutatedTokens ==
    ASSUME NEW r \in Request, mem[r] \in GrantData
    PROVE  Mutated(r).tokens =
              CASE op[r] \in {"add", "addShortLived"} -> mem[r].tokens \cup {appended[gid[r]] + 1}
                [] op[r] \in {"trim", "revoke"} -> mem[r].tokens \ remove[r]
                [] OTHER -> mem[r].tokens
  BY DEF Mutated, WithoutTokens, Accessed, GrantData

\* Every step leaves the requests at steps that belong together.
LEMMA ControlStep == KeyType /\ ControlInv /\ BornInv /\ MemInv /\ [Next]_vars => ControlInv'
<1> SUFFICES ASSUME KeyType, ControlInv, BornInv, MemInv, [Next]_vars PROVE ControlInv'
  OBVIOUS
<1> USE DEF KeyType, ControlInv, BornInv, Goto, redis, locals, history
<1>1. ASSUME NEW r \in Request, Begin(r) PROVE ControlInv'
  <2>1. ASSUME NEW g \in Grant, NEW a \in Authorization, BeginCreate(r, g, a) PROVE ControlInv'
    BY <2>1 DEF BeginCreate
  <2>2. ASSUME NEW g \in Grant, NEW a \in Authorization,
               NEW o \in {"add", "addShortLived"}, BeginIssue(r, g, a, o) PROVE ControlInv'
    BY <2>2 DEF BeginIssue, Resolved, GetOfflineGrant
  <2>3. ASSUME NEW g \in Grant, NEW t \in TokenId, BeginRefresh(r, g, t) PROVE ControlInv'
    BY <2>3 DEF BeginRefresh, Resolved, GetOfflineGrant, Preparation
  <2>4. ASSUME NEW g \in Grant, NEW t \in TokenId,
               NEW f \in {"cookie", "bearer"}, BeginResolve(r, f, g, t) PROVE ControlInv'
    BY <2>4 DEF BeginResolve, Resolved, GetOfflineGrant
  <2>5. ASSUME NEW g \in Grant,
               NEW o \in {"authTime", "deviceSecret", "deviceKey"}, BeginReauth(r, g, o)
        PROVE  ControlInv'
    BY <2>5 DEF BeginReauth, Resolved, GetOfflineGrant
  <2>6. ASSUME NEW g \in Grant, BeginSAML(r, g) PROVE ControlInv'
    BY <2>6 DEF BeginSAML, Resolved, GetOfflineGrant
  <2>7. ASSUME NEW a \in Authorization,
               NEW f \in {"revoke", "terminate"}, BeginList(r, f, a) PROVE ControlInv'
    BY <2>7 DEF BeginList
  <2> HIDE DEF KeyType, ControlInv, BornInv, Goto, redis, locals, history
  <2>8. az[r] \in Authorization /\ authorizations \subseteq Authorization
    BY DEF KeyType
  <2> QED
    BY <1>1, <2>1, <2>2, <2>3, <2>4, <2>5, <2>6, <2>7, <2>8 DEF Begin
<1>2. ASSUME NEW r \in Request, Step(r) PROVE ControlInv'
  <2>1. CASE CreateSetNX(r)
    BY <2>1 DEF CreateSetNX
  <2>2. CASE LockAndGet(r)
    BY <2>2 DEF LockAndGet
  <2>3. CASE LockGivesUp(r)
    BY <2>3 DEF LockGivesUp
  <2>4. CASE UpdateHSet(r)
    BY <2>4 DEF UpdateHSet
  <2>5. CASE UpdateSetXX(r)
    BY <2>5 DEF UpdateSetXX, Continue, After, Preparation
  <2>6. CASE RemoveDel(r)
    <3>1. mem[r] \in GrantData /\ pc[r] = "hset" /\ mem[r].tokens # {}
      BY <2>6 DEF RemoveDel, MemInv, MemOf
    <3>2. op[r] \in {"trim", "revoke"}
      BY <2>6, <3>1, MutatedTokens DEF RemoveDel
    <3> QED
      BY <2>6, <3>2 DEF RemoveDel, Gone
  <2>7. CASE RemoveHDel(r)
    BY <2>7 DEF RemoveHDel, Continue, After, Preparation
  <2>8. CASE Reread(r)
    BY <2>8 DEF Reread
  <2>9. CASE HousekeepOfflineGrant(r)
    BY <2>9 DEF HousekeepOfflineGrant
  <2>10. CASE ClientCheck(r)
    BY <2>10 DEF ClientCheck
  <2>11. ASSUME NEW g \in Grant, ListGet(r, g) PROVE ControlInv'
    BY <2>11 DEF ListGet
  <2>12. ASSUME NEW g \in Grant, RevokeTokens(r, g) PROVE ControlInv'
    BY <2>12 DEF RevokeTokens, Listed, Handled
  <2>13. ASSUME NEW g \in Grant, TerminateDel(r, g) PROVE ControlInv'
    BY <2>13 DEF TerminateDel, Listed, Handled, Gone
  <2>14. CASE ListHDel(r)
    BY <2>14 DEF ListHDel
  <2>15. CASE DeleteAuthorization(r)
    BY <2>15 DEF DeleteAuthorization
  <2>16. CASE Terminated(r)
    BY <2>16 DEF Terminated
  <2>17. CASE Return(r)
    BY <2>17 DEF Return, Forget
  <2> HIDE DEF KeyType, ControlInv, BornInv, Goto, redis, locals, history
  <2> QED
    BY <1>2, <2>1, <2>2, <2>3, <2>4, <2>5, <2>6, <2>7, <2>8, <2>9,
       <2>10, <2>11, <2>12, <2>13, <2>14, <2>15, <2>16, <2>17 DEF Step
<1>3. ASSUME NEW r \in Request, Crash(r) PROVE ControlInv'
  BY <1>3 DEF Crash, Forget
<1>4. ASSUME NEW g \in Grant, LeaseExpires(g) PROVE ControlInv'
  BY <1>4 DEF LeaseExpires
<1>5. CASE Tick
  BY <1>5 DEF Tick, Gone
<1>6. CASE UNCHANGED vars
  BY <1>6 DEF vars
<1> QED
  BY <1>1, <1>2, <1>3, <1>4, <1>5, <1>6 DEF Next

\* Every step keeps what is stored within what has been handed out.
LEMMA BornStep == KeyType /\ ControlInv /\ BornInv /\ [Next]_vars => BornInv'
<1> SUFFICES ASSUME KeyType, ControlInv, BornInv, [Next]_vars PROVE BornInv'
  OBVIOUS
<1> USE DEF KeyType, Goto, redis, locals, history, BornInv, ControlInv
<1>1. ASSUME NEW r \in Request, Begin(r) PROVE BornInv'
  <2>1. ASSUME NEW g \in Grant, NEW a \in Authorization, BeginCreate(r, g, a) PROVE BornInv'
    BY <2>1 DEF BeginCreate
  <2>2. ASSUME NEW g \in Grant, NEW a \in Authorization,
               NEW o \in {"add", "addShortLived"}, BeginIssue(r, g, a, o) PROVE BornInv'
    BY <2>2 DEF BeginIssue, Resolved, GetOfflineGrant
  <2>3. ASSUME NEW g \in Grant, NEW t \in TokenId, BeginRefresh(r, g, t) PROVE BornInv'
    BY <2>3 DEF BeginRefresh, Resolved, GetOfflineGrant, Preparation
  <2>4. ASSUME NEW g \in Grant, NEW t \in TokenId,
               NEW f \in {"cookie", "bearer"}, BeginResolve(r, f, g, t) PROVE BornInv'
    BY <2>4 DEF BeginResolve, Resolved, GetOfflineGrant
  <2>5. ASSUME NEW g \in Grant,
               NEW o \in {"authTime", "deviceSecret", "deviceKey"}, BeginReauth(r, g, o)
        PROVE  BornInv'
    BY <2>5 DEF BeginReauth, Resolved, GetOfflineGrant
  <2>6. ASSUME NEW g \in Grant, BeginSAML(r, g) PROVE BornInv'
    BY <2>6 DEF BeginSAML, Resolved, GetOfflineGrant
  <2>7. ASSUME NEW a \in Authorization,
               NEW f \in {"revoke", "terminate"}, BeginList(r, f, a) PROVE BornInv'
    BY <2>7 DEF BeginList
  <2> HIDE DEF KeyType, Goto, redis, locals, history, BornInv, ControlInv
  <2>8. az[r] \in Authorization /\ authorizations \subseteq Authorization
    BY DEF KeyType
  <2> QED
    BY <1>1, <2>1, <2>2, <2>3, <2>4, <2>5, <2>6, <2>7, <2>8 DEF Begin
<1>2. ASSUME NEW r \in Request, Step(r) PROVE BornInv'
  <2>1. CASE CreateSetNX(r)
    BY <2>1 DEF CreateSetNX
  <2>2. CASE LockAndGet(r)
    BY <2>2 DEF LockAndGet
  <2>3. CASE LockGivesUp(r)
    BY <2>3 DEF LockGivesUp
  <2>4. CASE UpdateHSet(r)
    BY <2>4 DEF UpdateHSet
  <2>5. CASE UpdateSetXX(r)
    BY <2>5 DEF UpdateSetXX, Continue, After, Preparation
  <2>6. CASE RemoveDel(r)
    BY <2>6 DEF RemoveDel, Gone
  <2>7. CASE RemoveHDel(r)
    BY <2>7 DEF RemoveHDel, Continue, After, Preparation
  <2>8. CASE Reread(r)
    BY <2>8 DEF Reread
  <2>9. CASE HousekeepOfflineGrant(r)
    BY <2>9 DEF HousekeepOfflineGrant
  <2>10. CASE ClientCheck(r)
    BY <2>10 DEF ClientCheck
  <2>11. ASSUME NEW g \in Grant, ListGet(r, g) PROVE BornInv'
    BY <2>11 DEF ListGet
  <2>12. ASSUME NEW g \in Grant, RevokeTokens(r, g) PROVE BornInv'
    BY <2>12 DEF RevokeTokens, Listed, Handled
  <2>13. ASSUME NEW g \in Grant, TerminateDel(r, g) PROVE BornInv'
    BY <2>13 DEF TerminateDel, Listed, Handled, Gone
  <2>14. CASE ListHDel(r)
    BY <2>14 DEF ListHDel
  <2>15. CASE DeleteAuthorization(r)
    BY <2>15 DEF DeleteAuthorization
  <2>16. CASE Terminated(r)
    BY <2>16 DEF Terminated
  <2>17. CASE Return(r)
    BY <2>17 DEF Return, Forget
  <2> HIDE DEF KeyType, Goto, redis, locals, history, BornInv, ControlInv
  <2> QED
    BY <1>2, <2>1, <2>2, <2>3, <2>4, <2>5, <2>6, <2>7, <2>8, <2>9,
       <2>10, <2>11, <2>12, <2>13, <2>14, <2>15, <2>16, <2>17 DEF Step
<1>3. ASSUME NEW r \in Request, Crash(r) PROVE BornInv'
  BY <1>3 DEF Crash, Forget
<1>4. ASSUME NEW g \in Grant, LeaseExpires(g) PROVE BornInv'
  BY <1>4 DEF LeaseExpires
<1>5. CASE Tick
  BY <1>5 DEF Tick, Gone
<1>6. CASE UNCHANGED vars
  BY <1>6 DEF vars
<1> QED
  BY <1>1, <1>2, <1>3, <1>4, <1>5, <1>6 DEF Next

\* Every step keeps the session list complete but for the grants a List missed.
LEMMA ListStep == KeyType /\ ControlInv /\ BornInv /\ ListInv /\ [Next]_vars => ListInv'
<1> SUFFICES ASSUME KeyType, ControlInv, BornInv, ListInv, [Next]_vars PROVE ListInv'
  OBVIOUS
<1> USE DEF KeyType, Goto, redis, locals, history, BornInv, ListInv
<1>1. ASSUME NEW r \in Request, Begin(r) PROVE ListInv'
  <2>1. ASSUME NEW g \in Grant, NEW a \in Authorization, BeginCreate(r, g, a) PROVE ListInv'
    BY <2>1 DEF BeginCreate
  <2>2. ASSUME NEW g \in Grant, NEW a \in Authorization,
               NEW o \in {"add", "addShortLived"}, BeginIssue(r, g, a, o) PROVE ListInv'
    BY <2>2 DEF BeginIssue, Resolved, GetOfflineGrant
  <2>3. ASSUME NEW g \in Grant, NEW t \in TokenId, BeginRefresh(r, g, t) PROVE ListInv'
    BY <2>3 DEF BeginRefresh, Resolved, GetOfflineGrant, Preparation
  <2>4. ASSUME NEW g \in Grant, NEW t \in TokenId,
               NEW f \in {"cookie", "bearer"}, BeginResolve(r, f, g, t) PROVE ListInv'
    BY <2>4 DEF BeginResolve, Resolved, GetOfflineGrant
  <2>5. ASSUME NEW g \in Grant,
               NEW o \in {"authTime", "deviceSecret", "deviceKey"}, BeginReauth(r, g, o)
        PROVE  ListInv'
    BY <2>5 DEF BeginReauth, Resolved, GetOfflineGrant
  <2>6. ASSUME NEW g \in Grant, BeginSAML(r, g) PROVE ListInv'
    BY <2>6 DEF BeginSAML, Resolved, GetOfflineGrant
  <2>7. ASSUME NEW a \in Authorization,
               NEW f \in {"revoke", "terminate"}, BeginList(r, f, a) PROVE ListInv'
    BY <2>7 DEF BeginList
  <2> HIDE DEF KeyType, Goto, redis, locals, history, BornInv, ListInv
  <2>8. az[r] \in Authorization /\ authorizations \subseteq Authorization
    BY DEF KeyType
  <2> QED
    BY <1>1, <2>1, <2>2, <2>3, <2>4, <2>5, <2>6, <2>7, <2>8 DEF Begin
<1>2. ASSUME NEW r \in Request, Step(r) PROVE ListInv'
  <2>1. CASE CreateSetNX(r)
    BY <2>1 DEF CreateSetNX
  <2>2. CASE LockAndGet(r)
    BY <2>2 DEF LockAndGet
  <2>3. CASE LockGivesUp(r)
    BY <2>3 DEF LockGivesUp
  <2>4. CASE UpdateHSet(r)
    BY <2>4 DEF UpdateHSet
  <2>5. CASE UpdateSetXX(r)
    BY <2>5 DEF UpdateSetXX, Continue, After, Preparation
  <2>6. CASE RemoveDel(r)
    BY <2>6 DEF RemoveDel, Gone, ControlInv
  <2>7. CASE RemoveHDel(r)
    BY <2>7 DEF RemoveHDel, Continue, After, Preparation
  <2>8. CASE Reread(r)
    BY <2>8 DEF Reread
  <2>9. CASE HousekeepOfflineGrant(r)
    BY <2>9 DEF HousekeepOfflineGrant
  <2>10. CASE ClientCheck(r)
    BY <2>10 DEF ClientCheck
  <2>11. ASSUME NEW g \in Grant, ListGet(r, g) PROVE ListInv'
    BY <2>11 DEF ListGet
  <2>12. ASSUME NEW g \in Grant, RevokeTokens(r, g) PROVE ListInv'
    BY <2>12 DEF RevokeTokens, Listed, Handled
  <2>13. ASSUME NEW g \in Grant, TerminateDel(r, g) PROVE ListInv'
    BY <2>13 DEF TerminateDel, Listed, Handled, Gone
  <2>14. CASE ListHDel(r)
    BY <2>14 DEF ListHDel
  <2>15. CASE DeleteAuthorization(r)
    BY <2>15 DEF DeleteAuthorization
  <2>16. CASE Terminated(r)
    BY <2>16 DEF Terminated
  <2>17. CASE Return(r)
    BY <2>17 DEF Return, Forget
  <2> HIDE DEF KeyType, Goto, redis, locals, history, BornInv, ListInv
  <2> QED
    BY <1>2, <2>1, <2>2, <2>3, <2>4, <2>5, <2>6, <2>7, <2>8, <2>9,
       <2>10, <2>11, <2>12, <2>13, <2>14, <2>15, <2>16, <2>17 DEF Step
<1>3. ASSUME NEW r \in Request, Crash(r) PROVE ListInv'
  BY <1>3 DEF Crash, Forget
<1>4. ASSUME NEW g \in Grant, LeaseExpires(g) PROVE ListInv'
  BY <1>4 DEF LeaseExpires
<1>5. CASE Tick
  BY <1>5 DEF Tick, Gone
<1>6. CASE UNCHANGED vars
  BY <1>6 DEF vars
<1> QED
  BY <1>1, <1>2, <1>3, <1>4, <1>5, <1>6 DEF Next

\* Nobody but its owner is between the GET and the SET of a grant.
LEMMA MutexStep == KeyType /\ MutexInv /\ [Next]_vars => MutexInv'
<1> SUFFICES ASSUME KeyType, MutexInv, [Next]_vars PROVE MutexInv'
  OBVIOUS
<1> USE DEF KeyType, Goto, redis, locals, history, MutexInv
<1>1. ASSUME NEW r \in Request, Begin(r) PROVE MutexInv'
  <2>1. ASSUME NEW g \in Grant, NEW a \in Authorization, BeginCreate(r, g, a) PROVE MutexInv'
    BY <2>1 DEF BeginCreate
  <2>2. ASSUME NEW g \in Grant, NEW a \in Authorization,
               NEW o \in {"add", "addShortLived"}, BeginIssue(r, g, a, o) PROVE MutexInv'
    BY <2>2 DEF BeginIssue, Resolved, GetOfflineGrant
  <2>3. ASSUME NEW g \in Grant, NEW t \in TokenId, BeginRefresh(r, g, t) PROVE MutexInv'
    BY <2>3 DEF BeginRefresh, Resolved, GetOfflineGrant, Preparation
  <2>4. ASSUME NEW g \in Grant, NEW t \in TokenId,
               NEW f \in {"cookie", "bearer"}, BeginResolve(r, f, g, t) PROVE MutexInv'
    BY <2>4 DEF BeginResolve, Resolved, GetOfflineGrant
  <2>5. ASSUME NEW g \in Grant,
               NEW o \in {"authTime", "deviceSecret", "deviceKey"}, BeginReauth(r, g, o)
        PROVE  MutexInv'
    BY <2>5 DEF BeginReauth, Resolved, GetOfflineGrant
  <2>6. ASSUME NEW g \in Grant, BeginSAML(r, g) PROVE MutexInv'
    BY <2>6 DEF BeginSAML, Resolved, GetOfflineGrant
  <2>7. ASSUME NEW a \in Authorization,
               NEW f \in {"revoke", "terminate"}, BeginList(r, f, a) PROVE MutexInv'
    BY <2>7 DEF BeginList
  <2> HIDE DEF KeyType, Goto, redis, locals, history, MutexInv
  <2>8. az[r] \in Authorization /\ authorizations \subseteq Authorization
    BY DEF KeyType
  <2> QED
    BY <1>1, <2>1, <2>2, <2>3, <2>4, <2>5, <2>6, <2>7, <2>8 DEF Begin
<1>2. ASSUME NEW r \in Request, Step(r) PROVE MutexInv'
  <2>1. CASE CreateSetNX(r)
    BY <2>1 DEF CreateSetNX
  <2>2. CASE LockAndGet(r)
    BY <2>2, GrantAssumption DEF LockAndGet
  <2>3. CASE LockGivesUp(r)
    BY <2>3 DEF LockGivesUp
  <2>4. CASE UpdateHSet(r)
    BY <2>4 DEF UpdateHSet
  <2>5. CASE UpdateSetXX(r)
    BY <2>5 DEF UpdateSetXX, Continue, After, Preparation
  <2>6. CASE RemoveDel(r)
    BY <2>6 DEF RemoveDel, Gone
  <2>7. CASE RemoveHDel(r)
    BY <2>7 DEF RemoveHDel, Continue, After, Preparation
  <2>8. CASE Reread(r)
    BY <2>8 DEF Reread
  <2>9. CASE HousekeepOfflineGrant(r)
    BY <2>9 DEF HousekeepOfflineGrant
  <2>10. CASE ClientCheck(r)
    BY <2>10 DEF ClientCheck
  <2>11. ASSUME NEW g \in Grant, ListGet(r, g) PROVE MutexInv'
    BY <2>11 DEF ListGet
  <2>12. ASSUME NEW g \in Grant, RevokeTokens(r, g) PROVE MutexInv'
    BY <2>12 DEF RevokeTokens, Listed, Handled
  <2>13. ASSUME NEW g \in Grant, TerminateDel(r, g) PROVE MutexInv'
    BY <2>13 DEF TerminateDel, Listed, Handled, Gone
  <2>14. CASE ListHDel(r)
    BY <2>14 DEF ListHDel
  <2>15. CASE DeleteAuthorization(r)
    BY <2>15 DEF DeleteAuthorization
  <2>16. CASE Terminated(r)
    BY <2>16 DEF Terminated
  <2>17. CASE Return(r)
    BY <2>17 DEF Return, Forget
  <2> HIDE DEF KeyType, Goto, redis, locals, history, MutexInv
  <2> QED
    BY <1>2, <2>1, <2>2, <2>3, <2>4, <2>5, <2>6, <2>7, <2>8, <2>9,
       <2>10, <2>11, <2>12, <2>13, <2>14, <2>15, <2>16, <2>17 DEF Step
<1>3. ASSUME NEW r \in Request, Crash(r) PROVE MutexInv'
  BY <1>3 DEF Crash, Forget
<1>4. ASSUME NEW g \in Grant, LeaseExpires(g) PROVE MutexInv'
  BY <1>4, GrantAssumption DEF LeaseExpires
<1>5. CASE Tick
  BY <1>5 DEF Tick, Gone
<1>6. CASE UNCHANGED vars
  BY <1>6 DEF vars
<1> QED
  BY <1>1, <1>2, <1>3, <1>4, <1>5, <1>6 DEF Next

----------------------------------------------------------------------------
(* The numbers of tokens *)

\* There are finitely many requests that add tokens.
LEMMA IssuingIsFinite ==
    ASSUME NEW g PROVE IsFiniteSet(Issuing(g)) /\ Cardinality(Issuing(g)) \in Nat
  BY GrantAssumption, FS_Subset, FS_CardinalityType DEF Issuing

\* A step that adds no token to a grant and starts no addition keeps the count.
LEMMA CountShrinks ==
    ASSUME CountInv, appended \in [Grant -> 0 .. MaxTokens], NEW g \in Grant,
           appended'[g] = appended[g], Issuing(g)' \subseteq Issuing(g)
    PROVE  appended'[g] + Cardinality(Issuing(g)') <= MaxTokens
<1>1. /\ Cardinality(Issuing(g)') <= Cardinality(Issuing(g)) /\ Cardinality(Issuing(g)) \in Nat
      /\ Cardinality(Issuing(g)') \in Nat
  BY IssuingIsFinite, FS_Subset, FS_CardinalityType
<1>2. appended[g] + Cardinality(Issuing(g)) <= MaxTokens /\ appended[g] \in Nat
  BY DEF CountInv
<1> QED
  BY <1>1, <1>2, BoundAssumption

\* Every step keeps the number of tokens of a grant within its bound.
LEMMA CountStep == KeyType /\ ControlInv /\ BornInv /\ CountInv /\ [Next]_vars => CountInv'
<1> SUFFICES ASSUME KeyType, ControlInv, BornInv, CountInv, [Next]_vars PROVE CountInv'
  OBVIOUS
<1> USE DEF KeyType, Goto, redis, locals, history
<1>1. ASSUME NEW r \in Request, Begin(r) PROVE CountInv'
  <2>1. ASSUME NEW g \in Grant, NEW a \in Authorization, BeginCreate(r, g, a) PROVE CountInv'
    <3>1. appended' = appended /\ \A k \in Grant : Issuing(k)' \subseteq Issuing(k)
      BY <2>1 DEF Issuing, ControlInv, BeginCreate
    <3> QED
      BY <3>1, CountShrinks DEF CountInv
  <2>2. ASSUME NEW g \in Grant, NEW a \in Authorization,
               NEW o \in {"add", "addShortLived"}, BeginIssue(r, g, a, o) PROVE CountInv'
    <3>1. appended' = appended /\ \A k \in Grant \ {g} : Issuing(k)' \subseteq Issuing(k)
      BY <2>2 DEF Issuing, BeginIssue, Resolved
    <3> DEFINE asking == {q \in Request : flow[q] = "issue"}
    <3>2. Issuing(g)' \subseteq asking \cup {r}
      BY <2>2 DEF Issuing, BeginIssue, Resolved, ControlInv
    <3>3. /\ Cardinality(Issuing(g)') <= Cardinality(asking) + 1 /\ Cardinality(asking) \in Nat
          /\ Cardinality(Issuing(g)') \in Nat
      <4>1. IsFiniteSet(asking)
        BY GrantAssumption, FS_Subset
      <4>2. /\ IsFiniteSet(asking \cup {r})
            /\ Cardinality(asking \cup {r}) <= Cardinality(asking) + 1
            /\ Cardinality(asking) \in Nat
        <5>1. Cardinality(asking) \in Nat
          BY <4>1, FS_CardinalityType
        <5>2. /\ IsFiniteSet(asking \cup {r})
              /\ Cardinality(asking \cup {r}) =
                    IF r \in asking THEN Cardinality(asking) ELSE Cardinality(asking) + 1
          BY <4>1, FS_AddElement
        <5> HIDE DEF asking
        <5> QED
          BY <5>1, <5>2
      <4>3. /\ IsFiniteSet(Issuing(g)')
            /\ Cardinality(Issuing(g)') <= Cardinality(asking \cup {r})
        BY <3>2, <4>2, FS_Subset
      <4>4. Cardinality(asking \cup {r}) \in Nat /\ Cardinality(Issuing(g)') \in Nat
        BY <4>2, <4>3, FS_CardinalityType
      <4> HIDE DEF asking
      <4> QED
        BY <4>2, <4>3, <4>4
    <3>4. appended[g] \in Nat /\ appended[g] + Cardinality(asking) < MaxTokens
      BY <2>2 DEF BeginIssue
    <3>5. appended'[g] + Cardinality(Issuing(g)') <= MaxTokens
      <4> HIDE DEF asking
      <4> QED
        BY <3>1, <3>3, <3>4, BoundAssumption
    <3> QED
      BY <3>1, <3>5, CountShrinks DEF CountInv
  <2>3. ASSUME NEW g \in Grant, NEW t \in TokenId, BeginRefresh(r, g, t) PROVE CountInv'
    <3>1. appended' = appended /\ \A k \in Grant : Issuing(k)' \subseteq Issuing(k)
      BY <2>3 DEF Issuing, BeginRefresh, Resolved, GetOfflineGrant, Preparation
    <3> QED
      BY <3>1, CountShrinks DEF CountInv
  <2>4. ASSUME NEW g \in Grant, NEW t \in TokenId,
               NEW f \in {"cookie", "bearer"}, BeginResolve(r, f, g, t) PROVE CountInv'
    <3>1. appended' = appended /\ \A k \in Grant : Issuing(k)' \subseteq Issuing(k)
      BY <2>4 DEF Issuing, BeginResolve, Resolved, GetOfflineGrant
    <3> QED
      BY <3>1, CountShrinks DEF CountInv
  <2>5. ASSUME NEW g \in Grant,
               NEW o \in {"authTime", "deviceSecret", "deviceKey"}, BeginReauth(r, g, o)
        PROVE  CountInv'
    <3>1. appended' = appended /\ \A k \in Grant : Issuing(k)' \subseteq Issuing(k)
      BY <2>5 DEF Issuing, BeginReauth, Resolved, GetOfflineGrant
    <3> QED
      BY <3>1, CountShrinks DEF CountInv
  <2>6. ASSUME NEW g \in Grant, BeginSAML(r, g) PROVE CountInv'
    <3>1. appended' = appended /\ \A k \in Grant : Issuing(k)' \subseteq Issuing(k)
      BY <2>6 DEF Issuing, BeginSAML, Resolved, GetOfflineGrant
    <3> QED
      BY <3>1, CountShrinks DEF CountInv
  <2>7. ASSUME NEW a \in Authorization,
               NEW f \in {"revoke", "terminate"}, BeginList(r, f, a) PROVE CountInv'
    <3>1. appended' = appended /\ \A k \in Grant : Issuing(k)' \subseteq Issuing(k)
      BY <2>7 DEF Issuing, ControlInv, BeginList
    <3> QED
      BY <3>1, CountShrinks DEF CountInv
  <2> HIDE DEF KeyType, Goto, redis, locals, history
  <2>8. az[r] \in Authorization /\ authorizations \subseteq Authorization
    BY DEF KeyType
  <2> QED
    BY <1>1, <2>1, <2>2, <2>3, <2>4, <2>5, <2>6, <2>7, <2>8 DEF Begin
<1>2. ASSUME NEW r \in Request, Step(r) PROVE CountInv'
  <2>1. CASE CreateSetNX(r)
    <3>1. PICK g \in Grant : g = gid[r]
      OBVIOUS
    <3>2. \A k \in Grant : Issuing(k)' = Issuing(k)
      BY <2>1 DEF Issuing, CreateSetNX
    <3>3. \A k \in Grant \ {g} : appended'[k] = appended[k]
      BY <2>1, <3>1 DEF CreateSetNX
    <3>4. appended'[g] = appended[g] \/ appended'[g] = 1
      BY <2>1, <3>1 DEF CreateSetNX
    <3>5. Issuing(g) = {}
      BY <2>1, <3>1 DEF Issuing, CreateSetNX, ControlInv, BornInv
    <3>6. appended'[g] + Cardinality(Issuing(g)') <= MaxTokens
      <4>1. CASE appended'[g] = appended[g]
        BY <3>2, <4>1, CountShrinks
      <4>2. CASE appended'[g] = 1
        <5>1. Issuing(g)' = {}
          BY <3>2, <3>5
        <5> QED
          BY <4>2, <5>1, FS_EmptySet, BoundAssumption
      <4> QED
        BY <3>4, <4>1, <4>2
    <3>7. \A k \in Grant \ {g} : appended'[k] + Cardinality(Issuing(k)') <= MaxTokens
      BY <3>2, <3>3, CountShrinks
    <3> QED
      BY <3>6, <3>7 DEF CountInv
  <2>2. CASE LockAndGet(r)
    <3>1. appended' = appended /\ \A k \in Grant : Issuing(k)' \subseteq Issuing(k)
      BY <2>2 DEF Issuing, LockAndGet
    <3> QED
      BY <3>1, CountShrinks DEF CountInv
  <2>3. CASE LockGivesUp(r)
    <3>1. appended' = appended /\ \A k \in Grant : Issuing(k)' \subseteq Issuing(k)
      BY <2>3 DEF Issuing, LockGivesUp
    <3> QED
      BY <3>1, CountShrinks DEF CountInv
  <2>4. CASE UpdateHSet(r)
    <3>1. appended' = appended /\ \A k \in Grant : Issuing(k)' \subseteq Issuing(k)
      BY <2>4 DEF Issuing, UpdateHSet
    <3> QED
      BY <3>1, CountShrinks DEF CountInv
  <2>5. CASE UpdateSetXX(r)
    <3>1. PICK g \in Grant : g = gid[r]
      OBVIOUS
    <3>2. \A k \in Grant : Issuing(k)' \subseteq Issuing(k)
      BY <2>5 DEF Issuing, UpdateSetXX, Continue, After, Preparation, ControlInv
    <3>3. \A k \in Grant \ {g} : appended'[k] = appended[k]
      BY <2>5, <3>1 DEF UpdateSetXX
    <3>4. \A k \in Grant \ {g} : appended'[k] + Cardinality(Issuing(k)') <= MaxTokens
      BY <3>2, <3>3, CountShrinks
    <3>5. appended'[g] + Cardinality(Issuing(g)') <= MaxTokens
      <4>1. CASE appended'[g] = appended[g]
        BY <3>2, <4>1, CountShrinks
      <4>2. CASE appended'[g] # appended[g]
        <5>1. /\ op[r] \in {"add", "addShortLived"} /\ expireAt[r] > now
              /\ g \in stored /\ appended'[g] = appended[g] + 1
          BY <2>5, <3>1, <4>2 DEF UpdateSetXX
        <5>2. Continue(r, After(r)) /\ gid' = gid
          BY <2>5, <3>1, <5>1 DEF UpdateSetXX
        <5>3. After(r)[2] = "trim"
          BY <3>1, <5>1 DEF After, ControlInv
        <5>4. op' = [op EXCEPT ![r] = "trim"]
          BY <5>2, <5>3 DEF Continue
        <5>5. Issuing(g)' = Issuing(g) \ {r} /\ r \in Issuing(g)
          BY <3>1, <5>1, <5>2, <5>4 DEF Issuing
        <5>6. /\ Cardinality(Issuing(g)') = Cardinality(Issuing(g)) - 1
              /\ Cardinality(Issuing(g)) \in Nat
          BY <5>5, IssuingIsFinite, FS_RemoveElement
        <5>7. appended[g] \in Nat /\ appended[g] + Cardinality(Issuing(g)) <= MaxTokens
          BY DEF CountInv
        <5> QED
          BY <5>1, <5>6, <5>7, BoundAssumption
      <4> QED
        BY <4>1, <4>2
    <3> QED
      BY <3>4, <3>5 DEF CountInv
  <2>6. CASE RemoveDel(r)
    <3>1. appended' = appended /\ \A k \in Grant : Issuing(k)' \subseteq Issuing(k)
      BY <2>6 DEF Issuing, RemoveDel, Gone
    <3> QED
      BY <3>1, CountShrinks DEF CountInv
  <2>7. CASE RemoveHDel(r)
    <3>1. appended' = appended /\ \A k \in Grant : Issuing(k)' \subseteq Issuing(k)
      BY <2>7 DEF Issuing, RemoveHDel, Continue, After, Preparation
    <3> QED
      BY <3>1, CountShrinks DEF CountInv
  <2>8. CASE Reread(r)
    <3>1. appended' = appended /\ \A k \in Grant : Issuing(k)' \subseteq Issuing(k)
      BY <2>8 DEF Issuing, Reread
    <3> QED
      BY <3>1, CountShrinks DEF CountInv
  <2>9. CASE HousekeepOfflineGrant(r)
    <3>1. appended' = appended /\ \A k \in Grant : Issuing(k)' \subseteq Issuing(k)
      BY <2>9 DEF Issuing, HousekeepOfflineGrant
    <3> QED
      BY <3>1, CountShrinks DEF CountInv
  <2>10. CASE ClientCheck(r)
    <3>1. appended' = appended /\ \A k \in Grant : Issuing(k)' \subseteq Issuing(k)
      BY <2>10 DEF Issuing, ClientCheck
    <3> QED
      BY <3>1, CountShrinks DEF CountInv
  <2>11. ASSUME NEW g \in Grant, ListGet(r, g) PROVE CountInv'
    <3>1. appended' = appended /\ \A k \in Grant : Issuing(k)' \subseteq Issuing(k)
      BY <2>11 DEF Issuing, ControlInv, ListGet
    <3> QED
      BY <3>1, CountShrinks DEF CountInv
  <2>12. ASSUME NEW g \in Grant, RevokeTokens(r, g) PROVE CountInv'
    <3>1. appended' = appended /\ \A k \in Grant : Issuing(k)' \subseteq Issuing(k)
      BY <2>12 DEF Issuing, ControlInv, RevokeTokens, Listed, Handled
    <3> QED
      BY <3>1, CountShrinks DEF CountInv
  <2>13. ASSUME NEW g \in Grant, TerminateDel(r, g) PROVE CountInv'
    <3>1. appended' = appended /\ \A k \in Grant : Issuing(k)' \subseteq Issuing(k)
      BY <2>13 DEF Issuing, ControlInv, TerminateDel, Listed, Handled, Gone
    <3> QED
      BY <3>1, CountShrinks DEF CountInv
  <2>14. CASE ListHDel(r)
    <3>1. appended' = appended /\ \A k \in Grant : Issuing(k)' \subseteq Issuing(k)
      BY <2>14 DEF Issuing, ListHDel
    <3> QED
      BY <3>1, CountShrinks DEF CountInv
  <2>15. CASE DeleteAuthorization(r)
    <3>1. appended' = appended /\ \A k \in Grant : Issuing(k)' \subseteq Issuing(k)
      BY <2>15 DEF Issuing, DeleteAuthorization
    <3> QED
      BY <3>1, CountShrinks DEF CountInv
  <2>16. CASE Terminated(r)
    <3>1. appended' = appended /\ \A k \in Grant : Issuing(k)' \subseteq Issuing(k)
      BY <2>16 DEF Issuing, Terminated
    <3> QED
      BY <3>1, CountShrinks DEF CountInv
  <2>17. CASE Return(r)
    <3>1. appended' = appended /\ \A k \in Grant : Issuing(k)' \subseteq Issuing(k)
      BY <2>17 DEF Issuing, Return, Forget
    <3> QED
      BY <3>1, CountShrinks DEF CountInv
  <2> HIDE DEF KeyType, Goto, redis, locals, history
  <2> QED
    BY <1>2, <2>1, <2>2, <2>3, <2>4, <2>5, <2>6, <2>7, <2>8, <2>9,
       <2>10, <2>11, <2>12, <2>13, <2>14, <2>15, <2>16, <2>17 DEF Step
<1>3. ASSUME NEW r \in Request, Crash(r) PROVE CountInv'
  <2>1. appended' = appended /\ \A k \in Grant : Issuing(k)' \subseteq Issuing(k)
    BY <1>3 DEF Issuing, Crash, Forget
  <2> QED
    BY <2>1, CountShrinks DEF CountInv
<1>4. ASSUME NEW g \in Grant, LeaseExpires(g) PROVE CountInv'
  <2>1. appended' = appended /\ \A k \in Grant : Issuing(k)' \subseteq Issuing(k)
    BY <1>4 DEF Issuing, LeaseExpires
  <2> QED
    BY <2>1, CountShrinks DEF CountInv
<1>5. CASE Tick
  <2>1. appended' = appended /\ \A k \in Grant : Issuing(k)' \subseteq Issuing(k)
    BY <1>5 DEF Issuing, Tick, Gone
  <2> QED
    BY <2>1, CountShrinks DEF CountInv
<1>6. CASE UNCHANGED vars
  <2>1. appended' = appended /\ \A k \in Grant : Issuing(k)' \subseteq Issuing(k)
    BY <1>6 DEF Issuing, vars
  <2> QED
    BY <2>1, CountShrinks DEF CountInv
<1> QED
  BY <1>1, <1>2, <1>3, <1>4, <1>5, <1>6 DEF Next

----------------------------------------------------------------------------
(* What happens to the stored grants, in one step *)

Unchanged == UNCHANGED <<stored, value, born, appended, applied>>
Ended == \E G \in SUBSET stored : Gone(G) /\ UNCHANGED <<born, appended, applied>>
Created(r) ==
    /\ pc[r] = "create.setnx" /\ pc'[r] = "done"
    /\ stored' = stored \cup {gid[r]} /\ born' = born \cup {gid[r]}
    /\ value' = [value EXCEPT ![gid[r]] = mem[r]]
    /\ appended' = [appended EXCEPT ![gid[r]] = 1]
    /\ UNCHANGED <<applied, gid>>
Written(r) ==
    /\ pc[r] = "set" /\ pc'[r] # "set" /\ gid[r] \in stored
    /\ value' = [value EXCEPT ![gid[r]] = mem[r]]
    /\ appended' = IF op[r] \in {"add", "addShortLived"}
                   THEN [appended EXCEPT ![gid[r]] = @ + 1] ELSE appended
    /\ applied' = IF op[r] = "rotate" THEN applied \cup {version[r]} ELSE applied
    /\ UNCHANGED <<stored, born, gid>>
StoreStep == Unchanged \/ Ended \/ \E r \in Request : Created(r) \/ Written(r)

\* The keys of grants change in four ways.
LEMMA StoreStepThm == KeyType /\ BornInv /\ [Next]_vars => StoreStep
<1> SUFFICES ASSUME KeyType, BornInv, [Next]_vars PROVE StoreStep
  OBVIOUS
<1> USE DEF KeyType, Goto, redis, locals, history
<1>1. ASSUME NEW r \in Request, Begin(r) PROVE StoreStep
  <2>1. ASSUME NEW g \in Grant, NEW a \in Authorization, BeginCreate(r, g, a) PROVE StoreStep
    BY <2>1 DEF StoreStep, Unchanged, BeginCreate
  <2>2. ASSUME NEW g \in Grant, NEW a \in Authorization,
               NEW o \in {"add", "addShortLived"}, BeginIssue(r, g, a, o) PROVE StoreStep
    BY <2>2 DEF StoreStep, Unchanged, BeginIssue, Resolved, GetOfflineGrant
  <2>3. ASSUME NEW g \in Grant, NEW t \in TokenId, BeginRefresh(r, g, t) PROVE StoreStep
    BY <2>3 DEF StoreStep, Unchanged, BeginRefresh, Resolved, GetOfflineGrant, Preparation
  <2>4. ASSUME NEW g \in Grant, NEW t \in TokenId,
               NEW f \in {"cookie", "bearer"}, BeginResolve(r, f, g, t) PROVE StoreStep
    BY <2>4 DEF StoreStep, Unchanged, BeginResolve, Resolved, GetOfflineGrant
  <2>5. ASSUME NEW g \in Grant,
               NEW o \in {"authTime", "deviceSecret", "deviceKey"}, BeginReauth(r, g, o)
        PROVE  StoreStep
    BY <2>5 DEF StoreStep, Unchanged, BeginReauth, Resolved, GetOfflineGrant
  <2>6. ASSUME NEW g \in Grant, BeginSAML(r, g) PROVE StoreStep
    BY <2>6 DEF StoreStep, Unchanged, BeginSAML, Resolved, GetOfflineGrant
  <2>7. ASSUME NEW a \in Authorization,
               NEW f \in {"revoke", "terminate"}, BeginList(r, f, a) PROVE StoreStep
    BY <2>7 DEF StoreStep, Unchanged, BeginList
  <2> HIDE DEF KeyType, Goto, redis, locals, history
  <2>8. az[r] \in Authorization /\ authorizations \subseteq Authorization
    BY DEF KeyType
  <2> QED
    BY <1>1, <2>1, <2>2, <2>3, <2>4, <2>5, <2>6, <2>7, <2>8 DEF Begin
<1>2. ASSUME NEW r \in Request, Step(r) PROVE StoreStep
  <2>1. CASE CreateSetNX(r)
    <3>1. CASE ExpiryOf(mem[r]) > now
      BY <2>1, <3>1 DEF CreateSetNX, StoreStep, Created
    <3>2. CASE ~(ExpiryOf(mem[r]) > now)
      BY <2>1, <3>2 DEF CreateSetNX, StoreStep, Unchanged
    <3> QED
      BY <3>1, <3>2
  <2>2. CASE LockAndGet(r)
    BY <2>2 DEF StoreStep, Unchanged, LockAndGet
  <2>3. CASE LockGivesUp(r)
    BY <2>3 DEF StoreStep, Unchanged, LockGivesUp
  <2>4. CASE UpdateHSet(r)
    BY <2>4 DEF StoreStep, Unchanged, UpdateHSet
  <2>5. CASE UpdateSetXX(r)
    <3>1. CASE gid[r] \in stored /\ expireAt[r] > now
      <4>1. pc[r] = "set" /\ Continue(r, After(r))
        BY <2>5, <3>1 DEF UpdateSetXX
      <4>2. pc'[r] # "set"
        BY <4>1 DEF Continue, After, Preparation
      <4> QED
        BY <2>5, <3>1, <4>1, <4>2 DEF UpdateSetXX, StoreStep, Written
    <3>2. CASE ~(gid[r] \in stored /\ expireAt[r] > now)
      BY <2>5, <3>2 DEF UpdateSetXX, StoreStep, Unchanged
    <3> QED
      BY <3>1, <3>2
  <2>6. CASE RemoveDel(r)
    <3>1. CASE gid[r] \in stored
      BY <2>6, <3>1 DEF RemoveDel, StoreStep, Ended
    <3>2. CASE gid[r] \notin stored
      BY <2>6, <3>2 DEF RemoveDel, StoreStep, Unchanged, Gone, BornInv
    <3> QED
      BY <3>1, <3>2
  <2>7. CASE RemoveHDel(r)
    BY <2>7 DEF StoreStep, Unchanged, RemoveHDel, Continue, After, Preparation
  <2>8. CASE Reread(r)
    BY <2>8 DEF StoreStep, Unchanged, Reread
  <2>9. CASE HousekeepOfflineGrant(r)
    BY <2>9 DEF StoreStep, Unchanged, HousekeepOfflineGrant
  <2>10. CASE ClientCheck(r)
    BY <2>10 DEF StoreStep, Unchanged, ClientCheck
  <2>11. ASSUME NEW g \in Grant, ListGet(r, g) PROVE StoreStep
    BY <2>11 DEF StoreStep, Unchanged, ListGet
  <2>12. ASSUME NEW g \in Grant, RevokeTokens(r, g) PROVE StoreStep
    BY <2>12 DEF StoreStep, Unchanged, RevokeTokens, Listed, Handled
  <2>13. ASSUME NEW g \in Grant, TerminateDel(r, g) PROVE StoreStep
    <3>1. CASE g \in stored
      BY <2>13, <3>1 DEF TerminateDel, StoreStep, Ended
    <3>2. CASE g \notin stored
      BY <2>13, <3>2 DEF TerminateDel, StoreStep, Unchanged, Gone, BornInv
    <3> QED
      BY <3>1, <3>2
  <2>14. CASE ListHDel(r)
    BY <2>14 DEF StoreStep, Unchanged, ListHDel
  <2>15. CASE DeleteAuthorization(r)
    BY <2>15 DEF StoreStep, Unchanged, DeleteAuthorization
  <2>16. CASE Terminated(r)
    BY <2>16 DEF StoreStep, Unchanged, Terminated
  <2>17. CASE Return(r)
    BY <2>17 DEF StoreStep, Unchanged, Return, Forget
  <2> HIDE DEF KeyType, Goto, redis, locals, history
  <2> QED
    BY <1>2, <2>1, <2>2, <2>3, <2>4, <2>5, <2>6, <2>7, <2>8, <2>9,
       <2>10, <2>11, <2>12, <2>13, <2>14, <2>15, <2>16, <2>17 DEF Step
<1>3. ASSUME NEW r \in Request, Crash(r) PROVE StoreStep
  BY <1>3 DEF StoreStep, Unchanged, Crash, Forget
<1>4. ASSUME NEW g \in Grant, LeaseExpires(g) PROVE StoreStep
  BY <1>4 DEF StoreStep, Unchanged, LeaseExpires
<1>5. CASE Tick
  <2>1. {g \in stored : ttl[g] <= now + 1} \in SUBSET stored
    OBVIOUS
  <2> QED
    BY <1>5, <2>1 DEF Tick, StoreStep, Ended
<1>6. CASE UNCHANGED vars
  BY <1>6 DEF StoreStep, Unchanged, vars
<1> QED
  BY <1>1, <1>2, <1>3, <1>4, <1>5, <1>6 DEF Next

----------------------------------------------------------------------------
(* What a request has in memory, and what it writes back *)

\* What a mutator does to the hash and to the authorization of a token
LEMMA MutatedInfo ==
    ASSUME NEW r \in Request, mem[r] \in GrantData, NEW t \in TokenId
    PROVE  /\ Mutated(r).info[t].current =
                CASE op[r] = "rotate" /\ t = token[r] -> version[r]
                  [] op[r] \in {"trim", "revoke"} /\ t \in remove[r] -> 0
                  [] op[r] \in {"add", "addShortLived"} /\ t = appended[gid[r]] + 1 -> 0
                  [] OTHER -> mem[r].info[t].current
           /\ \/ Mutated(r).info[t].authorization = mem[r].info[t].authorization
              \/ op[r] \in {"trim", "revoke"} /\ t \in remove[r]
              \/ op[r] \in {"add", "addShortLived"} /\ t = appended[gid[r]] + 1
<1> DEFINE g == mem[r]
<1>1. /\ g.info \in [TokenId -> TokenData] /\ g.info[t] \in TokenData
      /\ g = [createdAt |-> g.createdAt, lastAccess |-> g.lastAccess,
              deviceKey |-> g.deviceKey, tokens |-> g.tokens, info |-> g.info]
  BY DEF GrantData
<1>2. CASE op[r] \in {"add", "addShortLived"}
  BY <1>1, <1>2 DEF Mutated
<1>3. CASE op[r] = "rotate"
  BY <1>1, <1>3 DEF Mutated, TokenData
<1>4. CASE op[r] \in {"trim", "revoke"}
  BY <1>1, <1>4 DEF Mutated, WithoutTokens, NoToken
<1>5. CASE op[r] = "access"
  BY <1>1, <1>5 DEF Mutated, Accessed, TokenData
<1>6. CASE op[r] \notin {"add", "addShortLived", "rotate", "trim", "revoke", "access"}
  BY <1>1, <1>6 DEF Mutated
<1> QED
  BY <1>2, <1>3, <1>4, <1>5, <1>6

\* What is written back keeps the tokens of a grant numbered and not empty.
LEMMA TokenStep ==
    KeyType /\ BornInv /\ TokenInv /\ MemInv /\ StoreStep => TokenInv'
<1> SUFFICES ASSUME KeyType, BornInv, TokenInv, MemInv, StoreStep, NEW g \in Grant
             PROVE  /\ value'[g].tokens \subseteq 1 .. appended'[g]
                    /\ g \in stored' => value'[g].tokens # {}
                    /\ \A t \in TokenId \ value'[g].tokens : value'[g].info[t].current = 0
  BY DEF TokenInv
<1> USE DEF KeyType
<1>1. /\ value[g].tokens \subseteq 1 .. appended[g] /\ appended[g] \in Nat
      /\ g \in stored => value[g].tokens # {}
      /\ \A t \in TokenId \ value[g].tokens : value[g].info[t].current = 0
  BY DEF TokenInv
<1>2. CASE value'[g] = value[g] /\ appended'[g] = appended[g] /\ (g \in stored' => g \in stored)
  BY <1>1, <1>2
<1>3. CASE Unchanged
  BY <1>2, <1>3 DEF Unchanged
<1>4. CASE Ended
  <2>1. PICK G \in SUBSET stored : Gone(G) /\ appended' = appended
    BY <1>4 DEF Ended
  <2>2. CASE g \notin G
    BY <1>2, <2>1, <2>2 DEF Gone
  <2>3. CASE g \in G
    <3>1. value'[g] = NoGrant /\ g \notin stored'
      BY <2>1, <2>3 DEF Gone
    <3> QED
      BY <3>1 DEF NoGrant, NoToken
  <2> QED
    BY <2>2, <2>3
<1>5. CASE \E r \in Request : Created(r)
  <2>1. PICK r \in Request : Created(r)
    BY <1>5
  <2>2. CASE g # gid[r]
    BY <1>2, <2>1, <2>2 DEF Created
  <2>3. CASE g = gid[r]
    <3>1. value'[g] = mem[r] /\ appended'[g] = 1
      BY <2>1, <2>3 DEF Created
    <3>2. mem[r].tokens = {1} /\ \A t \in TokenId : mem[r].info[t].current = 0
      BY <2>1 DEF Created, MemInv, MemOf
    <3> QED
      BY <3>1, <3>2
  <2> QED
    BY <2>2, <2>3
<1>6. CASE \E r \in Request : Written(r)
  <2>1. PICK r \in Request : Written(r)
    BY <1>6
  <2>2. CASE g # gid[r]
    BY <1>2, <2>1, <2>2 DEF Written
  <2>3. CASE g = gid[r]
    <3>1. value'[g] = mem[r] /\ g \in stored /\ pc[r] = "set"
      BY <2>1, <2>3 DEF Written
    <3>2. mem[r].tokens # {} /\ Changed(r, mem[r], value[g])
      BY <2>3, <3>1 DEF MemInv, MemOf
    <3>3. appended'[g] = IF op[r] \in {"add", "addShortLived"} THEN appended[g] + 1
                         ELSE appended[g]
      BY <2>1, <2>3 DEF Written
    <3>4. mem[r].tokens \subseteq 1 .. appended'[g]
      BY <1>1, <2>3, <3>2, <3>3 DEF Changed
    <3>5. ASSUME NEW t \in TokenId \ mem[r].tokens PROVE mem[r].info[t].current = 0
      BY <1>1, <3>2 DEF Changed
    <3> QED
      BY <3>1, <3>2, <3>4, <3>5
  <2> QED
    BY <2>2, <2>3
<1> QED
  BY <1>3, <1>4, <1>5, <1>6 DEF StoreStep

\* A request that does nothing is not disturbed by the one that does something: nobody
\* else writes a grant whose mutex it holds, or creates a grant with the ID it has drawn.
Same(q) ==
    /\ pc'[q] = pc[q] /\ op'[q] = op[q] /\ gid'[q] = gid[q] /\ mem'[q] = mem[q]
    /\ token'[q] = token[q] /\ version'[q] = version[q] /\ remove'[q] = remove[q]

\* What a request has in memory stays in agreement with the store while others move.
LEMMA MemKept ==
    ASSUME KeyType, ControlInv, BornInv, MutexInv, MemInv, StoreStep, NEW q \in Request, Same(q)
    PROVE  MemOf(q)'
<1> USE DEF KeyType
<1> PICK g \in Grant : g = gid[q]
  OBVIOUS
<1>1. MemOf(q)
  BY DEF MemInv
<1>2. CASE pc[q] \notin {"hset", "set"}
  BY <1>1, <1>2 DEF MemOf, Same
<1>3. CASE pc[q] \in {"hset", "set"}
  <2>1. g \in born /\ mutex[g] = q
    BY <1>3 DEF ControlInv, MutexInv
  <2>2. \/ g \notin stored'
        \/ g \in stored /\ value'[g] = value[g] /\ appended'[g] = appended[g]
    <3>1. CASE Unchanged
      BY <3>1 DEF Unchanged, BornInv
    <3>2. CASE Ended
      BY <3>2 DEF Ended, Gone
    <3>3. ASSUME NEW r \in Request, Created(r) PROVE g # gid[r]
      BY <2>1, <3>3 DEF Created, BornInv
    <3>4. ASSUME NEW r \in Request, Written(r) PROVE g # gid[r]
      BY <1>3, <2>1, <3>4 DEF Written, MutexInv, Same
    <3>5. ASSUME NEW r \in Request, Created(r) \/ Written(r)
          PROVE  /\ value'[g] = value[g] /\ appended'[g] = appended[g]
                 /\ g \in stored' => g \in stored
      BY <3>3, <3>4, <3>5 DEF Created, Written
    <3> QED
      BY <3>1, <3>2, <3>5 DEF StoreStep
  <2>3. CASE g \notin stored'
    BY <1>1, <2>3 DEF MemOf, Same
  <2>4. CASE g \in stored /\ value'[g] = value[g] /\ appended'[g] = appended[g]
    <3>1. pc[q] = "set" => Changed(q, mem[q], value[g])
      BY <1>1, <2>4 DEF MemOf
    <3>2. pc[q] = "set" => Changed(q, mem[q], value[gid[q]])'
      BY <2>4, <3>1 DEF Changed, Same
    <3> QED
      BY <1>1, <2>4, <3>2 DEF MemOf, Same
  <2> QED
    BY <2>2, <2>3, <2>4
<1> QED
  BY <1>2, <1>3

\* If the request that moves agrees with the store, all do.
LEMMA MemOthers ==
    ASSUME KeyType, ControlInv, BornInv, MutexInv, MemInv, [Next]_vars,
           NEW r \in Request, \A q \in Request \ {r} : Same(q),
           MemOf(r)' \/ pc'[r] \notin {"create.setnx", "hset", "set"}
    PROVE  MemInv'
<1>1. MemOf(r)'
  BY DEF MemOf
<1>2. \A q \in Request \ {r} : MemOf(q)'
  BY StoreStepThm, MemKept
<1> QED
  BY <1>1, <1>2 DEF MemInv

\* Every step keeps what requests have in memory in agreement with the store.
LEMMA MemStep ==
    KeyType /\ ControlInv /\ BornInv /\ MutexInv /\ TokenInv /\ MemInv /\ [Next]_vars => MemInv'
<1> SUFFICES ASSUME KeyType, ControlInv, BornInv, MutexInv, TokenInv, MemInv, [Next]_vars
   PROVE MemInv'
  OBVIOUS
<1> USE DEF KeyType, Goto, redis, locals, history
<1>1. ASSUME NEW r \in Request, Begin(r) PROVE MemInv'
  <2>1. ASSUME NEW g \in Grant, NEW a \in Authorization, BeginCreate(r, g, a) PROVE MemInv'
    <3>1. \A q \in Request \ {r} : Same(q)
      BY <2>1 DEF Same, BeginCreate
    <3>2. /\ pc'[r] = "create.setnx" /\ mem'[r].tokens = {1}
          /\ \A t \in TokenId : mem'[r].info[t].current = 0
      BY <2>1 DEF BeginCreate, NoToken
    <3>3. MemOf(r)'
      BY <3>2 DEF MemOf
    <3> QED
      BY <3>1, <3>3, MemOthers
  <2>2. ASSUME NEW g \in Grant, NEW a \in Authorization,
               NEW o \in {"add", "addShortLived"}, BeginIssue(r, g, a, o) PROVE MemInv'
    <3>1. (\A q \in Request \ {r} : Same(q)) /\ pc'[r] \notin {"create.setnx", "hset", "set"}
      BY <2>2 DEF Same, BeginIssue, Resolved, GetOfflineGrant
    <3> QED
      BY <3>1, MemOthers
  <2>3. ASSUME NEW g \in Grant, NEW t \in TokenId, BeginRefresh(r, g, t) PROVE MemInv'
    <3>1. PICK step, o : Resolved(r, "refresh", g, t, step, o) /\ step \in {"lock", "reread",
       "client"}
      BY <2>3 DEF BeginRefresh, Preparation
    <3>2. /\ version' = [version EXCEPT ![r] = rotations']
          /\ pc' = [pc EXCEPT ![r] = step] /\ op' = [op EXCEPT ![r] = o]
          /\ gid' = [gid EXCEPT ![r] = g] /\ token' = [token EXCEPT ![r] = t]
          /\ UNCHANGED <<mem, remove>>
      BY <2>3, <3>1 DEF BeginRefresh, Resolved
    <3>3. (\A q \in Request \ {r} : Same(q)) /\ pc'[r] \notin {"create.setnx", "hset", "set"}
      BY <3>1, <3>2 DEF Same
    <3> QED
      BY <3>3, MemOthers
  <2>4. ASSUME NEW g \in Grant, NEW t \in TokenId,
               NEW f \in {"cookie", "bearer"}, BeginResolve(r, f, g, t) PROVE MemInv'
    <3>1. (\A q \in Request \ {r} : Same(q)) /\ pc'[r] \notin {"create.setnx", "hset", "set"}
      BY <2>4 DEF Same, BeginResolve, Resolved, GetOfflineGrant
    <3> QED
      BY <3>1, MemOthers
  <2>5. ASSUME NEW g \in Grant,
               NEW o \in {"authTime", "deviceSecret", "deviceKey"}, BeginReauth(r, g, o)
        PROVE  MemInv'
    <3>1. (\A q \in Request \ {r} : Same(q)) /\ pc'[r] \notin {"create.setnx", "hset", "set"}
      BY <2>5 DEF Same, BeginReauth, Resolved, GetOfflineGrant
    <3> QED
      BY <3>1, MemOthers
  <2>6. ASSUME NEW g \in Grant, BeginSAML(r, g) PROVE MemInv'
    <3>1. (\A q \in Request \ {r} : Same(q)) /\ pc'[r] \notin {"create.setnx", "hset", "set"}
      BY <2>6 DEF Same, BeginSAML, Resolved, GetOfflineGrant
    <3> QED
      BY <3>1, MemOthers
  <2>7. ASSUME NEW a \in Authorization,
               NEW f \in {"revoke", "terminate"}, BeginList(r, f, a) PROVE MemInv'
    <3>1. (\A q \in Request \ {r} : Same(q)) /\ pc'[r] \notin {"create.setnx", "hset", "set"}
      BY <2>7 DEF Same, BeginList
    <3> QED
      BY <3>1, MemOthers
  <2> HIDE DEF KeyType, Goto, redis, locals, history
  <2>8. az[r] \in Authorization /\ authorizations \subseteq Authorization
    BY DEF KeyType
  <2> QED
    BY <1>1, <2>1, <2>2, <2>3, <2>4, <2>5, <2>6, <2>7, <2>8 DEF Begin
<1>2. ASSUME NEW r \in Request, Step(r) PROVE MemInv'
  <2>1. CASE CreateSetNX(r)
    <3>1. (\A q \in Request \ {r} : Same(q)) /\ pc'[r] \notin {"create.setnx", "hset", "set"}
      BY <2>1 DEF Same, CreateSetNX
    <3> QED
      BY <3>1, MemOthers
  <2>2. CASE LockAndGet(r)
    <3>1. \A q \in Request \ {r} : Same(q)
      BY <2>2 DEF Same, LockAndGet
    <3>2. pc'[r] = "failed" \/
          /\ pc'[r] = "hset" /\ gid[r] \in stored /\ mem'[r] = value[gid[r]]
          /\ op[r] = "rotate" => token[r] \in mem'[r].tokens
          /\ UNCHANGED <<stored, value, gid, token, op>>
      BY <2>2 DEF LockAndGet
    <3>3. MemOf(r)' \/ pc'[r] = "failed"
      BY <3>2 DEF MemOf, TokenInv
    <3> QED
      BY <3>1, <3>3, MemOthers
  <2>3. CASE LockGivesUp(r)
    <3>1. (\A q \in Request \ {r} : Same(q)) /\ pc'[r] \notin {"create.setnx", "hset", "set"}
      BY <2>3 DEF Same, LockGivesUp
    <3> QED
      BY <3>1, MemOthers
  <2>4. CASE UpdateHSet(r)
    <3> DEFINE g == gid[r]
    <3>1. \A q \in Request \ {r} : Same(q)
      BY <2>4 DEF Same, UpdateHSet
    <3>2. /\ pc[r] = "hset" /\ pc'[r] = "set" /\ mem'[r] = Mutated(r) /\ Mutated(r).tokens # {}
          /\ UNCHANGED <<stored, value, gid, token, version, op, remove, appended>>
      BY <2>4 DEF UpdateHSet
    <3>3. g \in stored => Changed(r, Mutated(r), value[g])
      <4> SUFFICES ASSUME g \in stored PROVE Changed(r, Mutated(r), value[g])
        OBVIOUS
      <4>1. /\ mem[r] = value[g] /\ (op[r] = "rotate" => token[r] \in value[g].tokens)
            /\ mem[r] \in GrantData
        BY <3>2 DEF MemInv, MemOf
      <4>2. /\ appended[g] + 1 \notin value[g].tokens
            /\ \A t \in TokenId \ value[g].tokens : value[g].info[t].current = 0
        <5>1. value[g].tokens \subseteq 1 .. appended[g] /\ appended[g] \in Nat
          BY DEF TokenInv
        <5> QED
          BY <5>1 DEF TokenInv
      <4>3. ASSUME NEW t \in TokenId
            PROVE  Mutated(r).info[t].current =
                      CASE op[r] = "rotate" /\ t = token[r] -> version[r]
                        [] op[r] \in {"trim", "revoke"} /\ t \in remove[r] -> 0
                        [] OTHER -> value[g].info[t].current
        BY <4>1, <4>2, MutatedInfo
      <4>4. Mutated(r).tokens = CASE op[r] \in {"add", "addShortLived"} ->
                                        value[g].tokens \cup {appended[g] + 1}
                                  [] op[r] \in {"trim", "revoke"} -> value[g].tokens \ remove[r]
                                  [] OTHER -> value[g].tokens
        BY <4>1, MutatedTokens
      <4>5. ASSUME NEW t \in value[g].tokens \cap Mutated(r).tokens
            PROVE  Mutated(r).info[t].authorization = value[g].info[t].authorization
        <5>1. t \in TokenId
          BY <4>1 DEF GrantData
        <5>2. t # appended[g] + 1 /\ (op[r] \in {"trim", "revoke"} => t \notin remove[r])
          BY <4>2, <4>4
        <5> QED
          BY <4>1, <5>1, <5>2, MutatedInfo
      <4> QED
        BY <4>1, <4>3, <4>4, <4>5 DEF Changed
    <3>4. g \in stored => Changed(r, mem[r], value[gid[r]])'
      BY <3>2, <3>3 DEF Changed
    <3>5. MemOf(r)'
      BY <3>2, <3>4 DEF MemOf
    <3> QED
      BY <3>1, <3>5, MemOthers
  <2>5. CASE UpdateSetXX(r)
    <3>1. /\ Continue(r, After(r)) \/ Continue(r, <<"failed", op[r]>>)
          /\ UNCHANGED <<gid, mem, token, version>>
      BY <2>5 DEF UpdateSetXX
    <3>2. \A q \in Request \ {r} : Same(q)
      <4>1. PICK step : Continue(r, step)
        BY <3>1
      <4> QED
        BY <3>1, <4>1 DEF Same, Continue
    <3>3. pc'[r] \notin {"create.setnx", "hset", "set"}
      BY <3>1 DEF Continue, After, Preparation
    <3> QED
      BY <3>2, <3>3, MemOthers
  <2>6. CASE RemoveDel(r)
    <3>1. (\A q \in Request \ {r} : Same(q)) /\ pc'[r] \notin {"create.setnx", "hset", "set"}
      BY <2>6 DEF Same, RemoveDel, Gone
    <3> QED
      BY <3>1, MemOthers
  <2>7. CASE RemoveHDel(r)
    <3>1. \A q \in Request \ {r} : Same(q)
      BY <2>7 DEF Same, RemoveHDel, Continue
    <3>2. Continue(r, After(r))
      BY <2>7 DEF RemoveHDel
    <3>3. pc'[r] \notin {"create.setnx", "hset", "set"}
      BY <3>2 DEF Continue, After, Preparation
    <3> QED
      BY <3>1, <3>3, MemOthers
  <2>8. CASE Reread(r)
    <3>1. (\A q \in Request \ {r} : Same(q)) /\ pc'[r] \notin {"create.setnx", "hset", "set"}
      BY <2>8 DEF Same, Reread
    <3> QED
      BY <3>1, MemOthers
  <2>9. CASE HousekeepOfflineGrant(r)
    <3>1. (\A q \in Request \ {r} : Same(q)) /\ pc'[r] \notin {"create.setnx", "hset", "set"}
      BY <2>9 DEF Same, HousekeepOfflineGrant
    <3> QED
      BY <3>1, MemOthers
  <2>10. CASE ClientCheck(r)
    <3>1. (\A q \in Request \ {r} : Same(q)) /\ pc'[r] \notin {"create.setnx", "hset", "set"}
      BY <2>10 DEF Same, ClientCheck
    <3> QED
      BY <3>1, MemOthers
  <2>11. ASSUME NEW g \in Grant, ListGet(r, g) PROVE MemInv'
    <3>1. (\A q \in Request \ {r} : Same(q)) /\ pc'[r] \notin {"create.setnx", "hset", "set"}
      BY <2>11 DEF Same, ListGet
    <3> QED
      BY <3>1, MemOthers
  <2>12. ASSUME NEW g \in Grant, RevokeTokens(r, g) PROVE MemInv'
    <3>1. CASE Removable(copy[r][g], az[r]) = {}
      <4>1. (\A q \in Request \ {r} : Same(q)) /\ pc'[r] \notin {"create.setnx", "hset", "set"}
        BY <2>12, <3>1 DEF Same, RevokeTokens, Listed, Handled
      <4> QED
        BY <4>1, MemOthers
    <3>2. CASE Removable(copy[r][g], az[r]) # {}
      <4>1. /\ pc' = [pc EXCEPT ![r] = "lock"] /\ op' = [op EXCEPT ![r] = "revoke"]
            /\ remove' = [remove EXCEPT ![r] = Removable(copy[r][g], az[r])]
            /\ gid' = [gid EXCEPT ![r] = g] /\ UNCHANGED <<mem, token, version>>
        BY <2>12, <3>2 DEF RevokeTokens, Handled
      <4>2. (\A q \in Request \ {r} : Same(q)) /\ pc'[r] \notin {"create.setnx", "hset", "set"}
        BY <4>1 DEF Same
      <4> QED
        BY <4>2, MemOthers
    <3> QED
      BY <3>1, <3>2
  <2>13. ASSUME NEW g \in Grant, TerminateDel(r, g) PROVE MemInv'
    <3>1. (\A q \in Request \ {r} : Same(q)) /\ pc'[r] \notin {"create.setnx", "hset", "set"}
      BY <2>13 DEF Same, TerminateDel, Listed, Handled, Gone
    <3> QED
      BY <3>1, MemOthers
  <2>14. CASE ListHDel(r)
    <3>1. (\A q \in Request \ {r} : Same(q)) /\ pc'[r] \notin {"create.setnx", "hset", "set"}
      BY <2>14 DEF Same, ListHDel
    <3> QED
      BY <3>1, MemOthers
  <2>15. CASE DeleteAuthorization(r)
    <3>1. (\A q \in Request \ {r} : Same(q)) /\ pc'[r] \notin {"create.setnx", "hset", "set"}
      BY <2>15 DEF Same, DeleteAuthorization
    <3> QED
      BY <3>1, MemOthers
  <2>16. CASE Terminated(r)
    <3>1. (\A q \in Request \ {r} : Same(q)) /\ pc'[r] \notin {"create.setnx", "hset", "set"}
      BY <2>16 DEF Same, Terminated
    <3> QED
      BY <3>1, MemOthers
  <2>17. CASE Return(r)
    <3>1. (\A q \in Request \ {r} : Same(q)) /\ pc'[r] \notin {"create.setnx", "hset", "set"}
      BY <2>17 DEF Same, Return, Forget
    <3> QED
      BY <3>1, MemOthers
  <2> HIDE DEF KeyType, Goto, redis, locals, history
  <2> QED
    BY <1>2, <2>1, <2>2, <2>3, <2>4, <2>5, <2>6, <2>7, <2>8, <2>9,
       <2>10, <2>11, <2>12, <2>13, <2>14, <2>15, <2>16, <2>17 DEF Step
<1>3. ASSUME NEW r \in Request, Crash(r) PROVE MemInv'
  <2>1. (\A q \in Request \ {r} : Same(q)) /\ pc'[r] \notin {"create.setnx", "hset", "set"}
    BY <1>3 DEF Same, Crash, Forget
  <2> QED
    BY <2>1, MemOthers
<1>4. ASSUME NEW g \in Grant, LeaseExpires(g) PROVE MemInv'
  <2>1. \A q \in Request : Same(q)
    BY <1>4 DEF Same, LeaseExpires
  <2> QED
    BY <2>1, StoreStepThm, MemKept DEF MemInv
<1>5. CASE Tick
  <2>1. \A q \in Request : Same(q)
    BY <1>5 DEF Same, Tick
  <2> QED
    BY <2>1, StoreStepThm, MemKept DEF MemInv
<1>6. CASE UNCHANGED vars
  <2>1. \A q \in Request : Same(q)
    BY <1>6 DEF Same, vars
  <2> QED
    BY <2>1, StoreStepThm, MemKept DEF MemInv
<1> QED
  BY <1>1, <1>2, <1>3, <1>4, <1>5, <1>6 DEF Next

----------------------------------------------------------------------------
(* The hashes of rotated tokens *)

VersionType ==
    /\ version \in [Request -> Nat] /\ rotations \in Nat
    /\ pc \in [Request -> Steps] /\ flow \in [Request -> Flows] /\ op \in [Request -> Operations]
    /\ gid \in [Request -> Grant] /\ az \in [Request -> Authorization]
    /\ authorizations \subseteq Authorization /\ RotationEnabled \in BOOLEAN

\* A request that generates no hash and puts none in force does not disturb the others.
LEMMA VersionOthers ==
    ASSUME VersionType, ControlInv, BornInv, VersionInv, StoreStep, NEW r \in Request,
           rotations' = rotations, version'[r] = version[r] \/ version'[r] = 0,
           \A q \in Request \ {r} :
              /\ version'[q] = version[q] /\ flow'[q] = flow[q] /\ op'[q] = op[q]
              /\ pc'[q] = pc[q] /\ gid'[q] = gid[q],
           VersionOf(r)'
    PROVE  VersionInv'
<1> USE DEF VersionType
<1>1. /\ applied' = applied \/ (op[r] = "rotate" /\ applied' = applied \cup {version[r]})
      /\ \A q \in Request : pc[q] # "create.setnx" /\ gid[q] \in born /\ gid[q] \in stored' =>
             gid[q] \in stored
  <2>1. CASE Unchanged
    BY <2>1 DEF Unchanged
  <2>2. CASE Ended
    BY <2>2 DEF Ended, Gone
  <2>3. ASSUME NEW w \in Request, Created(w)
        PROVE /\ applied' = applied
              /\ \A q \in Request : pc[q] # "create.setnx" /\ gid[q] \in born
                 /\ gid[q] \in stored' =>
                     gid[q] \in stored
    BY <2>3 DEF Created, BornInv
  <2>4. ASSUME NEW w \in Request, Written(w)
        PROVE /\ applied' = applied \/ (op[r] = "rotate" /\ applied' = applied \cup {version[r]})
              /\ stored' = stored
    BY <2>4 DEF Written
  <2> QED
    BY <2>1, <2>2, <2>3, <2>4 DEF StoreStep
<1>2. op[r] = "rotate" => version[r] \in 1 .. rotations
  BY DEF ControlInv, VersionInv, VersionOf
<1>3. applied' \subseteq 1 .. rotations'
  BY <1>1, <1>2 DEF VersionInv
<1>4. ASSUME NEW q \in Request \ {r} PROVE VersionOf(q)'
  <2>1. VersionOf(q) /\ (version[r] > 0 => version[q] # version[r])
    BY DEF VersionInv
  <2>2. flow[q] = "refresh" /\ op[q] \in {"deviceSecret", "rotate"} => version[q] \notin applied'
    BY <1>1, <1>2, <2>1 DEF VersionOf
  <2>3. flow[q] = "refresh" => pc[q] # "create.setnx" /\ gid[q] \in born
    BY DEF ControlInv, BornInv
  <2> QED
    BY <1>1, <2>1, <2>2, <2>3 DEF VersionOf
<1>5. /\ \A q \in Request : version'[q] <= rotations'
      /\ \A p, q \in Request : p # q /\ version'[p] > 0 => version'[q] # version'[p]
  BY DEF VersionInv
<1> QED
  BY <1>3, <1>4, <1>5 DEF VersionInv

\* Every step keeps the hashes of different requests different.
LEMMA VersionStep ==
    VersionType /\ ControlInv /\ BornInv /\ VersionInv /\ StoreStep
    /\ [Next]_vars => VersionInv'
<1> SUFFICES ASSUME VersionType, ControlInv, BornInv, VersionInv, StoreStep, [Next]_vars
   PROVE VersionInv'
  OBVIOUS
<1> USE DEF VersionType, Goto, redis, locals, history
<1>1. ASSUME NEW r \in Request, Begin(r) PROVE VersionInv'
  <2>1. ASSUME NEW g \in Grant, NEW a \in Authorization, BeginCreate(r, g, a) PROVE VersionInv'
    <3>1. /\ rotations' = rotations /\ (version'[r] = version[r] \/ version'[r] = 0)
          /\ \A q \in Request \ {r} :
                /\ version'[q] = version[q] /\ flow'[q] = flow[q] /\ op'[q] = op[q]
                /\ pc'[q] = pc[q] /\ gid'[q] = gid[q]
      BY <2>1 DEF BeginCreate
    <3>2. VersionOf(r)'
      BY <2>1 DEF VersionInv, VersionOf, ControlInv, BornInv, BeginCreate
    <3> QED
      BY <3>1, <3>2, VersionOthers
  <2>2. ASSUME NEW g \in Grant, NEW a \in Authorization,
               NEW o \in {"add", "addShortLived"}, BeginIssue(r, g, a, o) PROVE VersionInv'
    <3>1. /\ rotations' = rotations /\ (version'[r] = version[r] \/ version'[r] = 0)
          /\ \A q \in Request \ {r} :
                /\ version'[q] = version[q] /\ flow'[q] = flow[q] /\ op'[q] = op[q]
                /\ pc'[q] = pc[q] /\ gid'[q] = gid[q]
      BY <2>2 DEF BeginIssue, Resolved, GetOfflineGrant
    <3>2. VersionOf(r)'
      BY <2>2 DEF VersionInv, VersionOf, ControlInv, BornInv, BeginIssue, Resolved, GetOfflineGrant
    <3> QED
      BY <3>1, <3>2, VersionOthers
  <2>3. ASSUME NEW g \in Grant, NEW t \in TokenId, BeginRefresh(r, g, t) PROVE VersionInv'
    <3>1. VersionOf(r)'
      BY <2>3 DEF VersionInv, VersionOf, ControlInv, BornInv, BeginRefresh, Resolved,
                GetOfflineGrant, Preparation
    <3>2. /\ version' = [version EXCEPT ![r] = rotations']
          /\ rotations' = IF RotationEnabled THEN rotations + 1 ELSE rotations
          /\ UNCHANGED <<applied, stored>>
          /\ \A q \in Request \ {r} :
                /\ flow'[q] = flow[q] /\ op'[q] = op[q] /\ pc'[q] = pc[q] /\ gid'[q] = gid[q]
      <4>1. PICK step, o : Resolved(r, "refresh", g, t, step, o)
        BY <2>3 DEF BeginRefresh
      <4> QED
        BY <2>3, <4>1 DEF BeginRefresh, Resolved
    <3>3. /\ applied' \subseteq 1 .. rotations' /\ (RotationEnabled \/ rotations' = 0)
          /\ \A q \in Request : version'[q] <= rotations'
          /\ \A p, q \in Request : p # q /\ version'[p] > 0 => version'[q] # version'[p]
      BY <3>2 DEF VersionInv
    <3>4. \A q \in Request \ {r} : VersionOf(q)'
      BY <3>2 DEF VersionInv, VersionOf
    <3> QED
      BY <3>1, <3>3, <3>4 DEF VersionInv
  <2>4. ASSUME NEW g \in Grant, NEW t \in TokenId,
               NEW f \in {"cookie", "bearer"}, BeginResolve(r, f, g, t) PROVE VersionInv'
    <3>1. /\ rotations' = rotations /\ (version'[r] = version[r] \/ version'[r] = 0)
          /\ \A q \in Request \ {r} :
                /\ version'[q] = version[q] /\ flow'[q] = flow[q] /\ op'[q] = op[q]
                /\ pc'[q] = pc[q] /\ gid'[q] = gid[q]
      BY <2>4 DEF BeginResolve, Resolved, GetOfflineGrant
    <3>2. VersionOf(r)'
      BY <2>4 DEF VersionInv, VersionOf, ControlInv, BornInv, BeginResolve, Resolved,
         GetOfflineGrant
    <3> QED
      BY <3>1, <3>2, VersionOthers
  <2>5. ASSUME NEW g \in Grant,
               NEW o \in {"authTime", "deviceSecret", "deviceKey"}, BeginReauth(r, g, o)
        PROVE  VersionInv'
    <3>1. /\ rotations' = rotations /\ (version'[r] = version[r] \/ version'[r] = 0)
          /\ \A q \in Request \ {r} :
                /\ version'[q] = version[q] /\ flow'[q] = flow[q] /\ op'[q] = op[q]
                /\ pc'[q] = pc[q] /\ gid'[q] = gid[q]
      BY <2>5 DEF BeginReauth, Resolved, GetOfflineGrant
    <3>2. VersionOf(r)'
      BY <2>5 DEF VersionInv, VersionOf, ControlInv, BornInv, BeginReauth, Resolved, GetOfflineGrant
    <3> QED
      BY <3>1, <3>2, VersionOthers
  <2>6. ASSUME NEW g \in Grant, BeginSAML(r, g) PROVE VersionInv'
    <3>1. /\ rotations' = rotations /\ (version'[r] = version[r] \/ version'[r] = 0)
          /\ \A q \in Request \ {r} :
                /\ version'[q] = version[q] /\ flow'[q] = flow[q] /\ op'[q] = op[q]
                /\ pc'[q] = pc[q] /\ gid'[q] = gid[q]
      BY <2>6 DEF BeginSAML, Resolved, GetOfflineGrant
    <3>2. VersionOf(r)'
      BY <2>6 DEF VersionInv, VersionOf, ControlInv, BornInv, BeginSAML, Resolved, GetOfflineGrant
    <3> QED
      BY <3>1, <3>2, VersionOthers
  <2>7. ASSUME NEW a \in Authorization,
               NEW f \in {"revoke", "terminate"}, BeginList(r, f, a) PROVE VersionInv'
    <3>1. /\ rotations' = rotations /\ (version'[r] = version[r] \/ version'[r] = 0)
          /\ \A q \in Request \ {r} :
                /\ version'[q] = version[q] /\ flow'[q] = flow[q] /\ op'[q] = op[q]
                /\ pc'[q] = pc[q] /\ gid'[q] = gid[q]
      BY <2>7 DEF BeginList
    <3>2. VersionOf(r)'
      BY <2>7 DEF VersionInv, VersionOf, ControlInv, BornInv, BeginList
    <3> QED
      BY <3>1, <3>2, VersionOthers
  <2> HIDE DEF VersionType, Goto, redis, locals, history
  <2>8. az[r] \in Authorization /\ authorizations \subseteq Authorization
    BY DEF VersionType
  <2> QED
    BY <1>1, <2>1, <2>2, <2>3, <2>4, <2>5, <2>6, <2>7, <2>8 DEF Begin
<1>2. ASSUME NEW r \in Request, Step(r) PROVE VersionInv'
  <2>1. CASE CreateSetNX(r)
    <3>1. /\ rotations' = rotations /\ (version'[r] = version[r] \/ version'[r] = 0)
          /\ \A q \in Request \ {r} :
                /\ version'[q] = version[q] /\ flow'[q] = flow[q] /\ op'[q] = op[q]
                /\ pc'[q] = pc[q] /\ gid'[q] = gid[q]
      BY <2>1 DEF CreateSetNX
    <3>2. VersionOf(r)'
      BY <2>1 DEF VersionInv, VersionOf, ControlInv, BornInv, CreateSetNX
    <3> QED
      BY <3>1, <3>2, VersionOthers
  <2>2. CASE LockAndGet(r)
    <3>1. /\ rotations' = rotations /\ (version'[r] = version[r] \/ version'[r] = 0)
          /\ \A q \in Request \ {r} :
                /\ version'[q] = version[q] /\ flow'[q] = flow[q] /\ op'[q] = op[q]
                /\ pc'[q] = pc[q] /\ gid'[q] = gid[q]
      BY <2>2 DEF LockAndGet
    <3>2. VersionOf(r)'
      BY <2>2 DEF VersionInv, VersionOf, ControlInv, BornInv, LockAndGet
    <3> QED
      BY <3>1, <3>2, VersionOthers
  <2>3. CASE LockGivesUp(r)
    <3>1. /\ rotations' = rotations /\ (version'[r] = version[r] \/ version'[r] = 0)
          /\ \A q \in Request \ {r} :
                /\ version'[q] = version[q] /\ flow'[q] = flow[q] /\ op'[q] = op[q]
                /\ pc'[q] = pc[q] /\ gid'[q] = gid[q]
      BY <2>3 DEF LockGivesUp
    <3>2. VersionOf(r)'
      BY <2>3 DEF VersionInv, VersionOf, ControlInv, BornInv, LockGivesUp
    <3> QED
      BY <3>1, <3>2, VersionOthers
  <2>4. CASE UpdateHSet(r)
    <3>1. /\ rotations' = rotations /\ (version'[r] = version[r] \/ version'[r] = 0)
          /\ \A q \in Request \ {r} :
                /\ version'[q] = version[q] /\ flow'[q] = flow[q] /\ op'[q] = op[q]
                /\ pc'[q] = pc[q] /\ gid'[q] = gid[q]
      BY <2>4 DEF UpdateHSet
    <3>2. VersionOf(r)'
      BY <2>4 DEF VersionInv, VersionOf, ControlInv, BornInv, UpdateHSet
    <3> QED
      BY <3>1, <3>2, VersionOthers
  <2>5. CASE UpdateSetXX(r)
    <3>1. /\ rotations' = rotations /\ (version'[r] = version[r] \/ version'[r] = 0)
          /\ \A q \in Request \ {r} :
                /\ version'[q] = version[q] /\ flow'[q] = flow[q] /\ op'[q] = op[q]
                /\ pc'[q] = pc[q] /\ gid'[q] = gid[q]
      BY <2>5 DEF UpdateSetXX, Continue, After, Preparation
    <3>2. VersionOf(r)'
      BY <2>5 DEF VersionInv, VersionOf, ControlInv, BornInv, UpdateSetXX, Continue, After,
         Preparation
    <3> QED
      BY <3>1, <3>2, VersionOthers
  <2>6. CASE RemoveDel(r)
    <3>1. /\ rotations' = rotations /\ (version'[r] = version[r] \/ version'[r] = 0)
          /\ \A q \in Request \ {r} :
                /\ version'[q] = version[q] /\ flow'[q] = flow[q] /\ op'[q] = op[q]
                /\ pc'[q] = pc[q] /\ gid'[q] = gid[q]
      BY <2>6 DEF RemoveDel, Gone
    <3>2. VersionOf(r)'
      BY <2>6 DEF VersionInv, VersionOf, ControlInv, BornInv, RemoveDel, Gone
    <3> QED
      BY <3>1, <3>2, VersionOthers
  <2>7. CASE RemoveHDel(r)
    <3>1. /\ rotations' = rotations /\ (version'[r] = version[r] \/ version'[r] = 0)
          /\ \A q \in Request \ {r} :
                /\ version'[q] = version[q] /\ flow'[q] = flow[q] /\ op'[q] = op[q]
                /\ pc'[q] = pc[q] /\ gid'[q] = gid[q]
      BY <2>7 DEF RemoveHDel, Continue, After, Preparation
    <3>2. VersionOf(r)'
      BY <2>7 DEF VersionInv, VersionOf, ControlInv, BornInv, RemoveHDel, Continue, After,
         Preparation
    <3> QED
      BY <3>1, <3>2, VersionOthers
  <2>8. CASE Reread(r)
    <3>1. /\ rotations' = rotations /\ (version'[r] = version[r] \/ version'[r] = 0)
          /\ \A q \in Request \ {r} :
                /\ version'[q] = version[q] /\ flow'[q] = flow[q] /\ op'[q] = op[q]
                /\ pc'[q] = pc[q] /\ gid'[q] = gid[q]
      BY <2>8 DEF Reread
    <3>2. VersionOf(r)'
      BY <2>8 DEF VersionInv, VersionOf, ControlInv, BornInv, Reread
    <3> QED
      BY <3>1, <3>2, VersionOthers
  <2>9. CASE HousekeepOfflineGrant(r)
    <3>1. /\ rotations' = rotations /\ (version'[r] = version[r] \/ version'[r] = 0)
          /\ \A q \in Request \ {r} :
                /\ version'[q] = version[q] /\ flow'[q] = flow[q] /\ op'[q] = op[q]
                /\ pc'[q] = pc[q] /\ gid'[q] = gid[q]
      BY <2>9 DEF HousekeepOfflineGrant
    <3>2. VersionOf(r)'
      BY <2>9 DEF VersionInv, VersionOf, ControlInv, BornInv, HousekeepOfflineGrant
    <3> QED
      BY <3>1, <3>2, VersionOthers
  <2>10. CASE ClientCheck(r)
    <3>1. /\ rotations' = rotations /\ (version'[r] = version[r] \/ version'[r] = 0)
          /\ \A q \in Request \ {r} :
                /\ version'[q] = version[q] /\ flow'[q] = flow[q] /\ op'[q] = op[q]
                /\ pc'[q] = pc[q] /\ gid'[q] = gid[q]
      BY <2>10 DEF ClientCheck
    <3>2. VersionOf(r)'
      BY <2>10 DEF VersionInv, VersionOf, ControlInv, BornInv, ClientCheck
    <3> QED
      BY <3>1, <3>2, VersionOthers
  <2>11. ASSUME NEW g \in Grant, ListGet(r, g) PROVE VersionInv'
    <3>1. /\ rotations' = rotations /\ (version'[r] = version[r] \/ version'[r] = 0)
          /\ \A q \in Request \ {r} :
                /\ version'[q] = version[q] /\ flow'[q] = flow[q] /\ op'[q] = op[q]
                /\ pc'[q] = pc[q] /\ gid'[q] = gid[q]
      BY <2>11 DEF ListGet
    <3>2. VersionOf(r)'
      BY <2>11 DEF VersionInv, VersionOf, ControlInv, BornInv, ListGet
    <3> QED
      BY <3>1, <3>2, VersionOthers
  <2>12. ASSUME NEW g \in Grant, RevokeTokens(r, g) PROVE VersionInv'
    <3>1. /\ rotations' = rotations /\ (version'[r] = version[r] \/ version'[r] = 0)
          /\ \A q \in Request \ {r} :
                /\ version'[q] = version[q] /\ flow'[q] = flow[q] /\ op'[q] = op[q]
                /\ pc'[q] = pc[q] /\ gid'[q] = gid[q]
      BY <2>12 DEF RevokeTokens, Listed, Handled
    <3>2. VersionOf(r)'
      BY <2>12 DEF VersionInv, VersionOf, ControlInv, BornInv, RevokeTokens, Listed, Handled
    <3> QED
      BY <3>1, <3>2, VersionOthers
  <2>13. ASSUME NEW g \in Grant, TerminateDel(r, g) PROVE VersionInv'
    <3>1. /\ rotations' = rotations /\ (version'[r] = version[r] \/ version'[r] = 0)
          /\ \A q \in Request \ {r} :
                /\ version'[q] = version[q] /\ flow'[q] = flow[q] /\ op'[q] = op[q]
                /\ pc'[q] = pc[q] /\ gid'[q] = gid[q]
      BY <2>13 DEF TerminateDel, Listed, Handled, Gone
    <3>2. VersionOf(r)'
      BY <2>13 DEF VersionInv, VersionOf, ControlInv, BornInv, TerminateDel, Listed, Handled, Gone
    <3> QED
      BY <3>1, <3>2, VersionOthers
  <2>14. CASE ListHDel(r)
    <3>1. /\ rotations' = rotations /\ (version'[r] = version[r] \/ version'[r] = 0)
          /\ \A q \in Request \ {r} :
                /\ version'[q] = version[q] /\ flow'[q] = flow[q] /\ op'[q] = op[q]
                /\ pc'[q] = pc[q] /\ gid'[q] = gid[q]
      BY <2>14 DEF ListHDel
    <3>2. VersionOf(r)'
      BY <2>14 DEF VersionInv, VersionOf, ControlInv, BornInv, ListHDel
    <3> QED
      BY <3>1, <3>2, VersionOthers
  <2>15. CASE DeleteAuthorization(r)
    <3>1. /\ rotations' = rotations /\ (version'[r] = version[r] \/ version'[r] = 0)
          /\ \A q \in Request \ {r} :
                /\ version'[q] = version[q] /\ flow'[q] = flow[q] /\ op'[q] = op[q]
                /\ pc'[q] = pc[q] /\ gid'[q] = gid[q]
      BY <2>15 DEF DeleteAuthorization
    <3>2. VersionOf(r)'
      BY <2>15 DEF VersionInv, VersionOf, ControlInv, BornInv, DeleteAuthorization
    <3> QED
      BY <3>1, <3>2, VersionOthers
  <2>16. CASE Terminated(r)
    <3>1. /\ rotations' = rotations /\ (version'[r] = version[r] \/ version'[r] = 0)
          /\ \A q \in Request \ {r} :
                /\ version'[q] = version[q] /\ flow'[q] = flow[q] /\ op'[q] = op[q]
                /\ pc'[q] = pc[q] /\ gid'[q] = gid[q]
      BY <2>16 DEF Terminated
    <3>2. VersionOf(r)'
      BY <2>16 DEF VersionInv, VersionOf, ControlInv, BornInv, Terminated
    <3> QED
      BY <3>1, <3>2, VersionOthers
  <2>17. CASE Return(r)
    <3>1. /\ rotations' = rotations /\ (version'[r] = version[r] \/ version'[r] = 0)
          /\ \A q \in Request \ {r} :
                /\ version'[q] = version[q] /\ flow'[q] = flow[q] /\ op'[q] = op[q]
                /\ pc'[q] = pc[q] /\ gid'[q] = gid[q]
      BY <2>17 DEF Return, Forget
    <3>2. VersionOf(r)'
      BY <2>17 DEF VersionInv, VersionOf, ControlInv, BornInv, Return, Forget
    <3> QED
      BY <3>1, <3>2, VersionOthers
  <2> HIDE DEF VersionType, Goto, redis, locals, history
  <2> QED
    BY <1>2, <2>1, <2>2, <2>3, <2>4, <2>5, <2>6, <2>7, <2>8, <2>9,
       <2>10, <2>11, <2>12, <2>13, <2>14, <2>15, <2>16, <2>17 DEF Step
<1>3. ASSUME NEW r \in Request, Crash(r) PROVE VersionInv'
  <2>1. /\ rotations' = rotations /\ (version'[r] = version[r] \/ version'[r] = 0)
        /\ \A q \in Request \ {r} :
              /\ version'[q] = version[q] /\ flow'[q] = flow[q] /\ op'[q] = op[q]
              /\ pc'[q] = pc[q] /\ gid'[q] = gid[q]
    BY <1>3 DEF Crash, Forget
  <2>2. VersionOf(r)'
    BY <1>3 DEF VersionInv, VersionOf, ControlInv, BornInv, Crash, Forget
  <2> QED
    BY <2>1, <2>2, VersionOthers
<1>4. ASSUME NEW g \in Grant, LeaseExpires(g) PROVE VersionInv'
  <2>1. UNCHANGED <<rotations, version, applied, flow, op, pc, gid>> /\ stored' \subseteq stored
    BY <1>4 DEF LeaseExpires
  <2> QED
    BY <2>1 DEF VersionInv, VersionOf
<1>5. CASE Tick
  <2>1. UNCHANGED <<rotations, version, applied, flow, op, pc, gid>> /\ stored' \subseteq stored
    BY <1>5 DEF Tick, Gone
  <2> QED
    BY <2>1 DEF VersionInv, VersionOf
<1>6. CASE UNCHANGED vars
  <2>1. UNCHANGED <<rotations, version, applied, flow, op, pc, gid>> /\ stored' \subseteq stored
    BY <1>6 DEF vars
  <2> QED
    BY <2>1 DEF VersionInv, VersionOf
<1> QED
  BY <1>1, <1>2, <1>3, <1>4, <1>5, <1>6 DEF Next

----------------------------------------------------------------------------
(* What a revocation or a termination still has to do *)

SweepType ==
    /\ KeyType
    /\ copy \in [Request -> [Grant -> GrantData]] /\ remove \in [Request -> SUBSET TokenId]
    /\ doomed \in [Request -> SUBSET (Grant \X TokenId)]

Sweeping(q) ==
    /\ pc'[q] = pc[q] /\ flow'[q] = flow[q] /\ az'[q] = az[q] /\ gid'[q] = gid[q]
    /\ todo'[q] = todo[q] /\ seen'[q] = seen[q] /\ copy'[q] = copy[q]
    /\ remove'[q] = remove[q] /\ doomed'[q] = doomed[q]

\* A token that exists keeps its authorization, and stays only where nobody removes it.
LEMMA OwedShrinks ==
    ASSUME KeyType, BornInv, MemInv, StoreStep, missed \subseteq missed',
           NEW g \in Grant, NEW t \in TokenId, g \in born, t <= appended[g]
    PROVE  /\ g \in born' /\ t <= appended'[g]
           /\ g \in stored' \ missed' /\ t \in value'[g].tokens =>
                 /\ g \in stored \ missed /\ t \in value[g].tokens
                 /\ value'[g].info[t].authorization = value[g].info[t].authorization
                 /\ \A r \in Request : Written(r) /\ gid[r] = g /\ op[r] \in {"trim", "revoke"} =>
                       t \notin remove[r]
<1> USE DEF KeyType
<1>1. ASSUME NEW r \in Request, Written(r), gid[r] = g
      PROVE  /\ value'[g] = mem[r] /\ g \in stored
             /\ Changed(r, mem[r], value[g])
  BY <1>1 DEF Written, MemInv, MemOf
<1>2. ASSUME NEW r \in Request, Written(r), gid[r] = g, t \in value'[g].tokens
      PROVE  /\ t \in value[g].tokens
             /\ value'[g].info[t].authorization = value[g].info[t].authorization
             /\ op[r] \in {"trim", "revoke"} => t \notin remove[r]
  <2>1. value'[g] = mem[r] /\ Changed(r, mem[r], value[g]) /\ t \in mem[r].tokens
    BY <1>1, <1>2
  <2>2. t # appended[gid[r]] + 1
    BY <1>2
  <2>3. t \in value[g].tokens /\ (op[r] \in {"trim", "revoke"} => t \notin remove[r])
    BY <2>1, <2>2 DEF Changed
  <2>4. mem[r].info[t].authorization = value[g].info[t].authorization
    BY <2>1, <2>3 DEF Changed
  <2> QED
    BY <2>1, <2>3, <2>4
<1>3. g \in born' /\ t <= appended'[g]
  <2>1. CASE Unchanged \/ Ended
    BY <2>1 DEF Unchanged, Ended
  <2>2. ASSUME NEW r \in Request, Created(r) PROVE g \in born' /\ t <= appended'[g]
    BY <2>2 DEF Created, BornInv
  <2>3. ASSUME NEW r \in Request, Written(r) PROVE g \in born' /\ t <= appended'[g]
    <3>1. \/ appended' = appended \/ appended' = [appended EXCEPT ![gid[r]] = @ + 1]
      BY <2>3 DEF Written
    <3>2. appended'[g] = appended[g] \/ appended'[g] = appended[g] + 1
      BY <3>1
    <3>3. appended[g] \in Nat /\ t \in Nat
      BY DEF TokenId
    <3>4. t <= appended'[g]
      BY <3>2, <3>3
    <3> QED
      BY <2>3, <3>4 DEF Written
  <2> QED
    BY <2>1, <2>2, <2>3 DEF StoreStep
<1>4. g \in stored' => g \in stored /\ (value'[g] = value[g] \/ \E r \in Request : Written(r)
   /\ gid[r] = g)
  <2>1. CASE Unchanged
    BY <2>1 DEF Unchanged
  <2>2. CASE Ended
    BY <2>2 DEF Ended, Gone
  <2>3. ASSUME NEW r \in Request, Created(r)
        PROVE  g \in stored' => g \in stored /\ value'[g] = value[g]
    BY <2>3 DEF Created, BornInv
  <2>4. ASSUME NEW r \in Request, Written(r)
        PROVE  g \in stored' => g \in stored /\ (value'[g] = value[g] \/ gid[r] = g)
    BY <2>4 DEF Written
  <2> QED
    BY <2>1, <2>2, <2>3, <2>4 DEF StoreStep
<1>5. ASSUME g \in stored' \ missed', t \in value'[g].tokens
      PROVE  \A r \in Request : Written(r) /\ gid[r] = g /\ op[r] \in {"trim", "revoke"} =>
                 t \notin remove[r]
  BY <1>2, <1>5
<1> QED
  BY <1>2, <1>3, <1>4, <1>5

\* A revocation or termination that does not move owes nothing new.
LEMMA SweepKept ==
    ASSUME SweepType, BornInv, MemInv, SweepInv, StoreStep, missed \subseteq missed',
           NEW q \in Request, Sweeping(q)
    PROVE  SweepOf(q)'
<1> USE DEF SweepType, KeyType
<1>1. SweepOf(q)
  BY DEF SweepInv
<1>2. ASSUME NEW g \in Grant, NEW t \in TokenId, <<g, t>> \in doomed[q]
      PROVE  /\ g \in born' /\ t <= appended'[g]
             /\ Owed(q, g, t)' =>
                   /\ Owed(q, g, t)
                   /\ value'[g].info[t].authorization = value[g].info[t].authorization
  BY <1>1, <1>2, OwedShrinks DEF SweepOf, Owed, Sweeping
<1>3. (pc[q] = "idle" => doomed[q] = {} /\ seen[q] = {})'
      /\ (doomed[q] # {} => flow[q] \in {"revoke", "terminate"})'
  BY <1>1 DEF SweepOf, Sweeping
<1>4. ASSUME NEW g \in Grant, NEW t \in TokenId, Owed(q, g, t)'
      PROVE  /\ Pursued(q, g, t)'
             /\ flow'[q] = "revoke" => value'[g].info[t].authorization = az'[q]
  <2>1. Owed(q, g, t) /\ value'[g].info[t].authorization = value[g].info[t].authorization
    BY <1>2, <1>4 DEF Owed, Sweeping
  <2>2. Pursued(q, g, t) /\ (flow[q] = "revoke" => value[g].info[t].authorization = az[q])
    BY <1>1, <2>1 DEF SweepOf
  <2>3. Pursued(q, g, t)'
    BY <2>2 DEF Pursued, Sweeping
  <2> QED
    BY <2>1, <2>2, <2>3 DEF Sweeping
<1>5. \A g \in Grant, t \in TokenId : <<g, t>> \in doomed'[q] => g \in born' /\ t <= appended'[g]
  BY <1>2 DEF Sweeping
<1> QED
  BY <1>3, <1>4, <1>5 DEF SweepOf

\* A request without a list of tokens to remove owes nothing.
LEMMA SweepVoid ==
    ASSUME NEW q \in Request, doomed'[q] = {}, pc'[q] = "idle" => seen'[q] = {}
    PROVE  SweepOf(q)'
  BY DEF SweepOf, Owed

\* If the request that moves pursues what it owes, all do.
LEMMA SweepOthers ==
    ASSUME SweepType, BornInv, MemInv, SweepInv, StoreStep, missed \subseteq missed',
           NEW r \in Request, \A q \in Request \ {r} : Sweeping(q), SweepOf(r)'
    PROVE  SweepInv'
  BY SweepKept DEF SweepInv

\* The request that moves: the tokens it owed before, and what it knows of them.
LEMMA SweepMoves ==
    ASSUME SweepType, BornInv, MemInv, SweepInv, StoreStep, missed \subseteq missed',
           NEW r \in Request, UNCHANGED <<flow[r], az[r], doomed[r]>>,
           pc[r] # "idle", pc'[r] # "idle",
           \A g \in Grant, t \in TokenId :
              Owed(r, g, t) /\ Pursued(r, g, t) /\ Owed(r, g, t)' => Pursued(r, g, t)'
    PROVE  SweepOf(r)'
<1> USE DEF SweepType, KeyType
<1>1. SweepOf(r)
  BY DEF SweepInv
<1>2. ASSUME NEW g \in Grant, NEW t \in TokenId, <<g, t>> \in doomed[r]
      PROVE  /\ g \in born' /\ t <= appended'[g]
             /\ Owed(r, g, t)' =>
                   /\ Owed(r, g, t)
                   /\ value'[g].info[t].authorization = value[g].info[t].authorization
  BY <1>1, <1>2, OwedShrinks DEF SweepOf, Owed
<1>3. ASSUME NEW g \in Grant, NEW t \in TokenId, Owed(r, g, t)'
      PROVE  /\ Pursued(r, g, t)'
             /\ flow'[r] = "revoke" => value'[g].info[t].authorization = az'[r]
  <2>1. Owed(r, g, t) /\ value'[g].info[t].authorization = value[g].info[t].authorization
    BY <1>2, <1>3 DEF Owed
  <2>2. Pursued(r, g, t) /\ (flow[r] = "revoke" => value[g].info[t].authorization = az[r])
    BY <1>1, <2>1 DEF SweepOf
  <2> QED
    BY <1>3, <2>1, <2>2
<1>4. (doomed[r] # {} => flow[r] \in {"revoke", "terminate"})'
  BY <1>1 DEF SweepOf
<1>5. \A g \in Grant, t \in TokenId : <<g, t>> \in doomed'[r] => g \in born' /\ t <= appended'[g]
  BY <1>2
<1> QED
  BY <1>3, <1>4, <1>5 DEF SweepOf

\* Every step leaves to a revocation or termination a way to what it still owes.
LEMMA SweepStep ==
    SweepType /\ ControlInv /\ BornInv /\ ListInv /\ TokenInv /\ MemInv
    /\ SweepInv /\ StoreStep /\ [Next]_vars => SweepInv'
<1> SUFFICES ASSUME SweepType, ControlInv, BornInv, ListInv, TokenInv, MemInv, SweepInv,
   StoreStep, [Next]_vars PROVE SweepInv'
  OBVIOUS
<1> USE DEF SweepType, KeyType, Goto, redis, locals, history
<1>1. ASSUME NEW r \in Request, Begin(r) PROVE SweepInv'
  <2>1. ASSUME NEW g \in Grant, NEW a \in Authorization, BeginCreate(r, g, a) PROVE SweepInv'
    <3>1. (\A q \in Request \ {r} : Sweeping(q)) /\ missed' = missed
      BY <2>1 DEF Sweeping, BeginCreate
    <3>2. doomed'[r] = {} /\ (pc'[r] = "idle" => seen'[r] = {})
      BY <2>1 DEF SweepInv, SweepOf, ControlInv, BeginCreate
    <3> QED
      BY <3>1, <3>2, SweepVoid, SweepOthers
  <2>2. ASSUME NEW g \in Grant, NEW a \in Authorization,
               NEW o \in {"add", "addShortLived"}, BeginIssue(r, g, a, o) PROVE SweepInv'
    <3>1. (\A q \in Request \ {r} : Sweeping(q)) /\ missed' = missed
      BY <2>2 DEF Sweeping, BeginIssue, Resolved, GetOfflineGrant
    <3>2. doomed'[r] = {} /\ (pc'[r] = "idle" => seen'[r] = {})
      BY <2>2 DEF SweepInv, SweepOf, ControlInv, BeginIssue, Resolved, GetOfflineGrant
    <3> QED
      BY <3>1, <3>2, SweepVoid, SweepOthers
  <2>3. ASSUME NEW g \in Grant, NEW t \in TokenId, BeginRefresh(r, g, t) PROVE SweepInv'
    <3>1. (\A q \in Request \ {r} : Sweeping(q)) /\ missed' = missed
      BY <2>3 DEF Sweeping, BeginRefresh, Resolved, GetOfflineGrant, Preparation
    <3>2. doomed'[r] = {} /\ (pc'[r] = "idle" => seen'[r] = {})
      BY <2>3 DEF SweepInv, SweepOf, ControlInv, BeginRefresh, Resolved, GetOfflineGrant,
         Preparation
    <3> QED
      BY <3>1, <3>2, SweepVoid, SweepOthers
  <2>4. ASSUME NEW g \in Grant, NEW t \in TokenId,
               NEW f \in {"cookie", "bearer"}, BeginResolve(r, f, g, t) PROVE SweepInv'
    <3>1. (\A q \in Request \ {r} : Sweeping(q)) /\ missed' = missed
      BY <2>4 DEF Sweeping, BeginResolve, Resolved, GetOfflineGrant
    <3>2. doomed'[r] = {} /\ (pc'[r] = "idle" => seen'[r] = {})
      BY <2>4 DEF SweepInv, SweepOf, ControlInv, BeginResolve, Resolved, GetOfflineGrant
    <3> QED
      BY <3>1, <3>2, SweepVoid, SweepOthers
  <2>5. ASSUME NEW g \in Grant,
               NEW o \in {"authTime", "deviceSecret", "deviceKey"}, BeginReauth(r, g, o)
        PROVE  SweepInv'
    <3>1. (\A q \in Request \ {r} : Sweeping(q)) /\ missed' = missed
      BY <2>5 DEF Sweeping, BeginReauth, Resolved, GetOfflineGrant
    <3>2. doomed'[r] = {} /\ (pc'[r] = "idle" => seen'[r] = {})
      BY <2>5 DEF SweepInv, SweepOf, ControlInv, BeginReauth, Resolved, GetOfflineGrant
    <3> QED
      BY <3>1, <3>2, SweepVoid, SweepOthers
  <2>6. ASSUME NEW g \in Grant, BeginSAML(r, g) PROVE SweepInv'
    <3>1. (\A q \in Request \ {r} : Sweeping(q)) /\ missed' = missed
      BY <2>6 DEF Sweeping, BeginSAML, Resolved, GetOfflineGrant
    <3>2. doomed'[r] = {} /\ (pc'[r] = "idle" => seen'[r] = {})
      BY <2>6 DEF SweepInv, SweepOf, ControlInv, BeginSAML, Resolved, GetOfflineGrant
    <3> QED
      BY <3>1, <3>2, SweepVoid, SweepOthers
  <2>7. ASSUME NEW a \in Authorization,
               NEW f \in {"revoke", "terminate"}, BeginList(r, f, a) PROVE SweepInv'
    <3>1. (\A q \in Request \ {r} : Sweeping(q)) /\ UNCHANGED <<missed, stored, value, born,
       appended>>
      BY <2>7 DEF Sweeping, BeginList
    <3>2. /\ pc[r] = "idle" /\ pc'[r] = "list.get" /\ flow'[r] = f /\ az'[r] = a
          /\ todo'[r] = list /\ seen'[r] = seen[r]
      BY <2>7 DEF BeginList
    <3>3. \A k \in Grant, t \in TokenId : <<k, t>> \in doomed'[r] =>
              /\ k \in stored /\ t \in value[k].tokens
              /\ f = "revoke" => value[k].info[t].authorization = a
      BY <2>7 DEF BeginList
    <3>4. seen[r] = {} /\ stored \subseteq list \cup missed
      BY <3>2 DEF SweepInv, SweepOf, ListInv
    <3>5. ASSUME NEW k \in Grant, NEW t \in TokenId, <<k, t>> \in doomed'[r]
          PROVE  k \in born /\ t <= appended[k]
      <4>1. k \in stored /\ t \in value[k].tokens
        BY <3>3, <3>5
      <4>2. stored \subseteq born /\ value[k].tokens \subseteq 1 .. appended[k]
        BY DEF BornInv, TokenInv
      <4>3. t \in 1 .. appended[k] /\ appended[k] \in Nat
        BY <4>1, <4>2
      <4> QED
        BY <4>1, <4>2, <4>3
    <3>6. \A k \in Grant, t \in TokenId : Owed(r, k, t)' =>
              /\ Pursued(r, k, t)'
              /\ f = "revoke" => value'[k].info[t].authorization = a
      BY <3>1, <3>2, <3>3, <3>4 DEF Owed, Pursued
    <3>7. SweepOf(r)'
      BY <3>1, <3>2, <3>5, <3>6 DEF SweepOf
    <3> QED
      BY <3>1, <3>7, SweepOthers
  <2> HIDE DEF SweepType, KeyType, Goto, redis, locals, history
  <2>8. az[r] \in Authorization /\ authorizations \subseteq Authorization
    BY DEF SweepType, KeyType
  <2> QED
    BY <1>1, <2>1, <2>2, <2>3, <2>4, <2>5, <2>6, <2>7, <2>8 DEF Begin
<1>2. ASSUME NEW r \in Request, Step(r) PROVE SweepInv'
  <2>1. CASE CreateSetNX(r)
    <3>1. (\A q \in Request \ {r} : Sweeping(q)) /\ missed' = missed
      BY <2>1 DEF Sweeping, CreateSetNX
    <3>2. doomed'[r] = {} /\ (pc'[r] = "idle" => seen'[r] = {})
      BY <2>1 DEF SweepInv, SweepOf, ControlInv, CreateSetNX
    <3> QED
      BY <3>1, <3>2, SweepVoid, SweepOthers
  <2>2. CASE LockAndGet(r)
    <3>1. (\A q \in Request \ {r} : Sweeping(q)) /\ missed' = missed
      BY <2>2 DEF Sweeping, LockAndGet
    <3>2. /\ UNCHANGED <<flow[r], az[r], doomed[r]>>
          /\ pc[r] = "lock" /\ pc'[r] \in {"hset", "failed"}
          /\ UNCHANGED <<todo[r], seen[r], copy[r], gid[r], remove[r]>>
      BY <2>2 DEF LockAndGet
    <3>3. ASSUME NEW k \in Grant, NEW t \in TokenId,
                 Owed(r, k, t), Pursued(r, k, t), Owed(r, k, t)'
          PROVE  Pursued(r, k, t)'
      BY <3>2, <3>3 DEF Pursued, Owed
    <3>4. SweepOf(r)'
      BY <3>1, <3>2, <3>3, SweepMoves
    <3> QED
      BY <3>1, <3>4, SweepOthers
  <2>3. CASE LockGivesUp(r)
    <3>1. (\A q \in Request \ {r} : Sweeping(q)) /\ missed' = missed
      BY <2>3 DEF Sweeping, LockGivesUp
    <3>2. /\ UNCHANGED <<flow[r], az[r], doomed[r]>>
          /\ pc[r] = "lock" /\ pc'[r] = "failed"
          /\ UNCHANGED <<todo[r], seen[r], copy[r], gid[r], remove[r]>>
      BY <2>3 DEF LockGivesUp
    <3>3. ASSUME NEW k \in Grant, NEW t \in TokenId,
                 Owed(r, k, t), Pursued(r, k, t), Owed(r, k, t)'
          PROVE  Pursued(r, k, t)'
      BY <3>2, <3>3 DEF Pursued, Owed
    <3>4. SweepOf(r)'
      BY <3>1, <3>2, <3>3, SweepMoves
    <3> QED
      BY <3>1, <3>4, SweepOthers
  <2>4. CASE UpdateHSet(r)
    <3>1. (\A q \in Request \ {r} : Sweeping(q)) /\ missed' = missed
      BY <2>4 DEF Sweeping, UpdateHSet
    <3>2. /\ UNCHANGED <<flow[r], az[r], doomed[r]>>
          /\ pc[r] = "hset" /\ pc'[r] = "set"
          /\ UNCHANGED <<todo[r], seen[r], copy[r], gid[r], remove[r]>>
      BY <2>4 DEF UpdateHSet
    <3>3. ASSUME NEW k \in Grant, NEW t \in TokenId,
                 Owed(r, k, t), Pursued(r, k, t), Owed(r, k, t)'
          PROVE  Pursued(r, k, t)'
      BY <3>2, <3>3 DEF Pursued, Owed
    <3>4. SweepOf(r)'
      BY <3>1, <3>2, <3>3, SweepMoves
    <3> QED
      BY <3>1, <3>4, SweepOthers
  <2>5. CASE UpdateSetXX(r)
    <3>1. (\A q \in Request \ {r} : Sweeping(q)) /\ missed' = missed
      BY <2>5 DEF Sweeping, UpdateSetXX, Continue
    <3>2. /\ UNCHANGED <<flow[r], az[r], doomed[r], todo[r], seen[r], copy[r], gid, stored>>
          /\ pc[r] = "set" /\ pc'[r] \in {After(r)[1], "failed"}
      BY <2>5 DEF UpdateSetXX, Continue
    <3>3. (flow[r] = "revoke" => op[r] = "revoke") /\ flow[r] # "terminate"
      BY <3>2 DEF ControlInv
    <3>4. CASE flow[r] # "revoke"
      <4>1. doomed'[r] = {} /\ pc'[r] # "idle"
        BY <3>2, <3>3, <3>4 DEF SweepInv, SweepOf, After, Preparation
      <4> QED
        BY <3>1, <4>1, SweepVoid, SweepOthers
    <3>5. CASE flow[r] = "revoke"
      <4>1. pc'[r] \in {"list.get", "failed"}
        BY <3>2, <3>3, <3>5 DEF After
      <4>2. pc'[r] = "list.get" /\ gid[r] \in stored => value'[gid[r]] = mem[r]
        <5> PICK g \in Grant : g = gid[r]
          OBVIOUS
        <5> QED
          BY <2>5 DEF UpdateSetXX, Continue
      <4>3. ASSUME NEW k \in Grant, NEW t \in TokenId,
                   Owed(r, k, t), Pursued(r, k, t), Owed(r, k, t)', pc'[r] = "list.get",
                   k = gid[r], t \in remove[r]
            PROVE  FALSE
        <5>1. Changed(r, mem[r], value[k]) /\ t \in mem[r].tokens
          BY <3>2, <4>2, <4>3 DEF MemInv, MemOf, Owed
        <5> QED
          BY <3>3, <3>5, <4>3, <5>1 DEF Changed
      <4>4. ASSUME NEW k \in Grant, NEW t \in TokenId,
                   Owed(r, k, t), Pursued(r, k, t), Owed(r, k, t)'
            PROVE  Pursued(r, k, t)'
        BY <3>2, <3>5, <4>1, <4>3, <4>4 DEF Pursued
      <4>5. SweepOf(r)'
        BY <3>1, <3>2, <4>1, <4>4, SweepMoves
      <4> QED
        BY <3>1, <4>5, SweepOthers
    <3> QED
      BY <3>4, <3>5
  <2>6. CASE RemoveDel(r)
    <3>1. (\A q \in Request \ {r} : Sweeping(q)) /\ missed' = missed
      BY <2>6 DEF Sweeping, RemoveDel
    <3>2. /\ UNCHANGED <<flow[r], az[r], doomed[r]>>
          /\ pc[r] = "hset" /\ pc'[r] = "hdel"
          /\ UNCHANGED <<todo[r], seen[r], copy[r], gid[r], remove[r]>>
      BY <2>6 DEF RemoveDel
    <3>3. ASSUME NEW k \in Grant, NEW t \in TokenId,
                 Owed(r, k, t), Pursued(r, k, t), Owed(r, k, t)'
          PROVE  Pursued(r, k, t)'
      BY <3>2, <3>3 DEF Pursued, Owed
    <3>4. SweepOf(r)'
      BY <3>1, <3>2, <3>3, SweepMoves
    <3> QED
      BY <3>1, <3>4, SweepOthers
  <2>7. CASE RemoveHDel(r)
    <3>1. (\A q \in Request \ {r} : Sweeping(q)) /\ missed' = missed
      BY <2>7 DEF Sweeping, RemoveHDel, Continue
    <3>2. /\ UNCHANGED <<flow[r], az[r], doomed[r], todo[r], seen[r], copy[r], gid[r]>>
          /\ pc[r] = "hdel" /\ pc'[r] = After(r)[1]
      BY <2>7 DEF RemoveHDel, Continue
    <3>3. gid[r] \notin stored /\ (flow[r] = "revoke" => op[r] = "revoke") /\ flow[r] # "terminate"
      BY <3>2 DEF ListInv, ControlInv
    <3>4. CASE flow[r] # "revoke"
      <4>1. doomed'[r] = {} /\ pc'[r] # "idle"
        BY <3>2, <3>3, <3>4 DEF SweepInv, SweepOf, After, Preparation
      <4> QED
        BY <3>1, <4>1, SweepVoid, SweepOthers
    <3>5. CASE flow[r] = "revoke"
      <4>1. pc'[r] = "list.get"
        BY <3>2, <3>3, <3>5 DEF After
      <4>2. ASSUME NEW k \in Grant, NEW t \in TokenId,
                   Owed(r, k, t), Pursued(r, k, t), Owed(r, k, t)'
            PROVE  Pursued(r, k, t)'
        BY <3>2, <3>3, <3>5, <4>1, <4>2 DEF Pursued, Owed
      <4>3. SweepOf(r)'
        BY <3>1, <3>2, <4>1, <4>2, SweepMoves
      <4> QED
        BY <3>1, <4>3, SweepOthers
    <3> QED
      BY <3>4, <3>5
  <2>8. CASE Reread(r)
    <3>1. (\A q \in Request \ {r} : Sweeping(q)) /\ missed' = missed
      BY <2>8 DEF Sweeping, Reread
    <3>2. doomed'[r] = {} /\ (pc'[r] = "idle" => seen'[r] = {})
      BY <2>8 DEF SweepInv, SweepOf, ControlInv, Reread
    <3> QED
      BY <3>1, <3>2, SweepVoid, SweepOthers
  <2>9. CASE HousekeepOfflineGrant(r)
    <3>1. (\A q \in Request \ {r} : Sweeping(q)) /\ missed' = missed
      BY <2>9 DEF Sweeping, HousekeepOfflineGrant
    <3>2. doomed'[r] = {} /\ (pc'[r] = "idle" => seen'[r] = {})
      BY <2>9 DEF SweepInv, SweepOf, ControlInv, HousekeepOfflineGrant
    <3> QED
      BY <3>1, <3>2, SweepVoid, SweepOthers
  <2>10. CASE ClientCheck(r)
    <3>1. (\A q \in Request \ {r} : Sweeping(q)) /\ missed' = missed
      BY <2>10 DEF Sweeping, ClientCheck
    <3>2. doomed'[r] = {} /\ (pc'[r] = "idle" => seen'[r] = {})
      BY <2>10 DEF SweepInv, SweepOf, ControlInv, ClientCheck
    <3> QED
      BY <3>1, <3>2, SweepVoid, SweepOthers
  <2>11. ASSUME NEW g \in Grant, ListGet(r, g) PROVE SweepInv'
    <3>1. (\A q \in Request \ {r} : Sweeping(q)) /\ missed \subseteq missed'
      BY <2>11 DEF Sweeping, ListGet
    <3>2. /\ UNCHANGED <<flow[r], az[r], doomed[r]>>
          /\ pc[r] = "list.get" /\ todo'[r] = todo[r] \ {g}
          /\ \/ /\ g \in stored /\ pc'[r] = "list.get" /\ seen'[r] = seen[r] \cup {g}
                /\ copy'[r] = [copy[r] EXCEPT ![g] = value[g]]
             \/ /\ g \notin stored /\ pc'[r] = "list.hdel" /\ seen'[r] = seen[r]
                /\ copy'[r] = copy[r]
      BY <2>11 DEF ListGet
    <3>3. \A k \in Grant, t \in TokenId :
             Owed(r, k, t) /\ flow[r] = "revoke" => value[k].info[t].authorization = az[r]
      BY DEF SweepInv, SweepOf
    <3>4. ASSUME NEW k \in Grant, NEW t \in TokenId,
                 Owed(r, k, t), Pursued(r, k, t), Owed(r, k, t)'
          PROVE  Pursued(r, k, t)'
      BY <3>2, <3>3, <3>4 DEF Pursued, Owed
    <3>5. SweepOf(r)'
      BY <3>1, <3>2, <3>4, SweepMoves
    <3> QED
      BY <3>1, <3>5, SweepOthers
  <2>12. ASSUME NEW g \in Grant, RevokeTokens(r, g) PROVE SweepInv'
    <3>1. (\A q \in Request \ {r} : Sweeping(q)) /\ missed' = missed
      BY <2>12 DEF Sweeping, RevokeTokens, Listed, Handled
    <3>2. /\ UNCHANGED <<flow[r], az[r], doomed[r]>>
          /\ pc[r] = "list.get" /\ flow[r] = "revoke"
          /\ seen'[r] = seen[r] \ {g} /\ todo[r] = {}
          /\ gid'[r] = g /\ \A k \in Grant \ {g} : copy'[r][k] = copy[r][k]
          /\ \/ pc'[r] = "list.get" /\ Removable(copy[r][g], az[r]) = {}
             \/ pc'[r] = "lock" /\ remove'[r] = Removable(copy[r][g], az[r])
      BY <2>12 DEF RevokeTokens, Listed, Handled
    <3>3. ASSUME NEW k \in Grant, NEW t \in TokenId,
                 Owed(r, k, t), Pursued(r, k, t), Owed(r, k, t)'
          PROVE  Pursued(r, k, t)'
      BY <3>2, <3>3 DEF Pursued, Owed, Removable
    <3>4. SweepOf(r)'
      BY <3>1, <3>2, <3>3, SweepMoves
    <3> QED
      BY <3>1, <3>4, SweepOthers
  <2>13. ASSUME NEW g \in Grant, TerminateDel(r, g) PROVE SweepInv'
    <3>1. (\A q \in Request \ {r} : Sweeping(q)) /\ missed' = missed
      BY <2>13 DEF Sweeping, TerminateDel, Listed, Handled, Gone
    <3>2. /\ UNCHANGED <<flow[r], az[r], doomed[r]>>
          /\ pc[r] = "list.get" /\ pc'[r] = "list.hdel" /\ flow[r] = "terminate"
          /\ g \notin stored' /\ todo'[r] = todo[r] /\ seen'[r] = seen[r] \ {g}
      BY <2>13 DEF TerminateDel, Listed, Handled, Gone
    <3>3. ASSUME NEW k \in Grant, NEW t \in TokenId,
                 Owed(r, k, t), Pursued(r, k, t), Owed(r, k, t)'
          PROVE  Pursued(r, k, t)'
      BY <3>2, <3>3 DEF Pursued, Owed
    <3>4. SweepOf(r)'
      BY <3>1, <3>2, <3>3, SweepMoves
    <3> QED
      BY <3>1, <3>4, SweepOthers
  <2>14. CASE ListHDel(r)
    <3>1. (\A q \in Request \ {r} : Sweeping(q)) /\ missed' = missed
      BY <2>14 DEF Sweeping, ListHDel
    <3>2. /\ UNCHANGED <<flow[r], az[r], doomed[r]>>
          /\ pc[r] = "list.hdel" /\ pc'[r] = "list.get"
          /\ UNCHANGED <<todo[r], seen[r], copy[r], gid[r], remove[r]>>
      BY <2>14 DEF ListHDel
    <3>3. ASSUME NEW k \in Grant, NEW t \in TokenId,
                 Owed(r, k, t), Pursued(r, k, t), Owed(r, k, t)'
          PROVE  Pursued(r, k, t)'
      BY <3>2, <3>3 DEF Pursued, Owed
    <3>4. SweepOf(r)'
      BY <3>1, <3>2, <3>3, SweepMoves
    <3> QED
      BY <3>1, <3>4, SweepOthers
  <2>15. CASE DeleteAuthorization(r)
    <3>1. (\A q \in Request \ {r} : Sweeping(q)) /\ missed' = missed
      BY <2>15 DEF Sweeping, DeleteAuthorization
    <3>2. /\ UNCHANGED <<flow[r], az[r], doomed[r]>>
          /\ pc[r] = "list.get" /\ pc'[r] = "done" /\ todo[r] = {} /\ seen[r] = {}
      BY <2>15 DEF DeleteAuthorization
    <3>3. ASSUME NEW k \in Grant, NEW t \in TokenId,
                 Owed(r, k, t), Pursued(r, k, t), Owed(r, k, t)'
          PROVE  Pursued(r, k, t)'
      BY <3>2, <3>3 DEF Pursued, Owed
    <3>4. SweepOf(r)'
      BY <3>1, <3>2, <3>3, SweepMoves
    <3> QED
      BY <3>1, <3>4, SweepOthers
  <2>16. CASE Terminated(r)
    <3>1. (\A q \in Request \ {r} : Sweeping(q)) /\ missed' = missed
      BY <2>16 DEF Sweeping, Terminated
    <3>2. /\ UNCHANGED <<flow[r], az[r], doomed[r]>>
          /\ pc[r] = "list.get" /\ pc'[r] = "done" /\ todo[r] = {} /\ seen[r] = {}
      BY <2>16 DEF Terminated
    <3>3. ASSUME NEW k \in Grant, NEW t \in TokenId,
                 Owed(r, k, t), Pursued(r, k, t), Owed(r, k, t)'
          PROVE  Pursued(r, k, t)'
      BY <3>2, <3>3 DEF Pursued, Owed
    <3>4. SweepOf(r)'
      BY <3>1, <3>2, <3>3, SweepMoves
    <3> QED
      BY <3>1, <3>4, SweepOthers
  <2>17. CASE Return(r)
    <3>1. (\A q \in Request \ {r} : Sweeping(q)) /\ missed' = missed
      BY <2>17 DEF Sweeping, Return, Forget
    <3>2. doomed'[r] = {} /\ (pc'[r] = "idle" => seen'[r] = {})
      BY <2>17 DEF SweepInv, SweepOf, ControlInv, Return, Forget
    <3> QED
      BY <3>1, <3>2, SweepVoid, SweepOthers
  <2> HIDE DEF SweepType, KeyType, Goto, redis, locals, history
  <2> QED
    BY <1>2, <2>1, <2>2, <2>3, <2>4, <2>5, <2>6, <2>7, <2>8, <2>9,
       <2>10, <2>11, <2>12, <2>13, <2>14, <2>15, <2>16, <2>17 DEF Step
<1>3. ASSUME NEW r \in Request, Crash(r) PROVE SweepInv'
  <2>1. (\A q \in Request \ {r} : Sweeping(q)) /\ missed' = missed
    BY <1>3 DEF Sweeping, Crash, Forget
  <2>2. doomed'[r] = {} /\ (pc'[r] = "idle" => seen'[r] = {})
    BY <1>3 DEF SweepInv, SweepOf, ControlInv, Crash, Forget
  <2> QED
    BY <2>1, <2>2, SweepVoid, SweepOthers
<1>4. ASSUME NEW g \in Grant, LeaseExpires(g) PROVE SweepInv'
  <2>1. (\A q \in Request : Sweeping(q)) /\ missed' = missed
    BY <1>4 DEF Sweeping, LeaseExpires
  <2> QED
    BY <2>1, SweepKept DEF SweepInv
<1>5. CASE Tick
  <2>1. (\A q \in Request : Sweeping(q)) /\ missed' = missed
    BY <1>5 DEF Sweeping, Tick
  <2> QED
    BY <2>1, SweepKept DEF SweepInv
<1>6. CASE UNCHANGED vars
  <2>1. (\A q \in Request : Sweeping(q)) /\ missed' = missed
    BY <1>6 DEF Sweeping, vars
  <2> QED
    BY <2>1, SweepKept DEF SweepInv
<1> QED
  BY <1>1, <1>2, <1>3, <1>4, <1>5, <1>6 DEF Next

----------------------------------------------------------------------------
(* The inductive invariant, and what follows from it *)

IndInv ==
    /\ TypeOK /\ CountInv /\ ControlInv /\ BornInv /\ ListInv /\ MutexInv
    /\ TokenInv /\ MemInv /\ VersionInv /\ SweepInv

\* The types that the lemmas above use are part of the type invariant.
LEMMA TypesSuffice == TypeOK => KeyType /\ VersionType /\ SweepType
  BY BoundAssumption DEF TypeOK, KeyType, VersionType, SweepType, Version

\* The invariants hold when there is no grant and no request.
LEMMA IndInit == Init => IndInv
<1> SUFFICES ASSUME Init PROVE IndInv
  OBVIOUS
<1>1. TypeOK
  <2>1. /\ now \in Time /\ crashes \in 0 .. MaxCrashes
        /\ ttl \in [Grant -> Expiry] /\ event \in [Request -> Time]
        /\ session \in [Request -> Expiry] /\ expireAt \in [Request -> Expiry]
        /\ token \in [Request -> TokenId] /\ version \in [Request -> Version]
        /\ rotations \in Version /\ appended \in [Grant -> 0 .. MaxTokens]
    BY ZeroType, BoundAssumption DEF Init
  <2>2. /\ value \in [Grant -> GrantData] /\ mem \in [Request -> GrantData]
        /\ copy \in [Request -> [Grant -> GrantData]] /\ az \in [Request -> Authorization]
    BY ZeroType DEF Init
  <2>3. /\ pc \in [Request -> Steps] /\ flow \in [Request -> Flows]
        /\ op \in [Request -> Operations]
    BY NameType DEF Init
  <2>4. /\ stored \subseteq Grant /\ list \subseteq Grant
        /\ mutex \in [Grant -> Request \cup {Free, Abandoned}]
        /\ authorizations \subseteq Authorization /\ gid \in [Request -> Grant]
        /\ remove \in [Request -> SUBSET TokenId]
        /\ todo \in [Request -> SUBSET Grant] /\ seen \in [Request -> SUBSET Grant]
        /\ doomed \in [Request -> SUBSET (Grant \X TokenId)]
        /\ issued \subseteq Grant /\ born \subseteq Grant /\ missed \subseteq Grant
        /\ applied \subseteq 1 .. MaxRotations
    BY DEF Init
  <2> QED
    BY <2>1, <2>2, <2>3, <2>4 DEF TypeOK
<1>2. CountInv
  <2>1. ASSUME NEW g \in Grant PROVE Issuing(g) = {} /\ appended[g] = 0
    BY DEF Init, Issuing
  <2> QED
    BY <2>1, FS_EmptySet, BoundAssumption DEF CountInv
<1>3. ControlInv /\ ListInv /\ MutexInv
  BY DEF Init, ControlInv, ListInv, MutexInv
<1>4. BornInv
  BY DEF Init, BornInv
<1>5. TokenInv
  <2>1. \A g \in Grant : value[g].tokens = {} /\ \A t \in TokenId : value[g].info[t].current = 0
    BY DEF Init, NoGrant, NoToken
  <2> QED
    BY <2>1 DEF TokenInv, Init
<1>6. MemInv
  BY DEF Init, MemInv, MemOf
<1>7. VersionInv
  BY DEF Init, VersionInv, VersionOf
<1>8. SweepInv
  BY DEF Init, SweepInv, SweepOf, Owed
<1> QED
  BY <1>1, <1>2, <1>3, <1>4, <1>5, <1>6, <1>7, <1>8 DEF IndInv

\* Every step keeps the invariants, and does one of four things to the stored grants.
LEMMA IndStep == IndInv /\ [Next]_vars => IndInv' /\ StoreStep
<1> SUFFICES ASSUME IndInv, [Next]_vars PROVE IndInv' /\ StoreStep
  OBVIOUS
<1>1. /\ TypeOK /\ CountInv /\ ControlInv /\ BornInv /\ ListInv /\ MutexInv
      /\ TokenInv /\ MemInv /\ VersionInv /\ SweepInv
      /\ KeyType /\ VersionType /\ SweepType
  BY TypesSuffice DEF IndInv
<1>2. StoreStep
  BY <1>1, StoreStepThm
<1>3. TypeOK' /\ CountInv' /\ ControlInv' /\ BornInv' /\ ListInv' /\ MutexInv'
  BY <1>1, TypeStep, CountStep, ControlStep, BornStep, ListStep, MutexStep
<1>4. TokenInv' /\ MemInv' /\ VersionInv' /\ SweepInv'
  BY <1>1, <1>2, TokenStep, MemStep, VersionStep, SweepStep
<1> QED
  BY <1>2, <1>3, <1>4 DEF IndInv

\* The invariants hold at all times.
LEMMA IndThm == Spec => []IndInv
<1>1. IndInv /\ [Next]_vars => IndInv'
  BY IndStep
<1> QED
  BY IndInit, <1>1, PTL DEF Spec

\* Every variable keeps the type that the store and the requests give it; in particular a
\* grant is never given more tokens, nor a token more hashes, than the bounds allow for.
THEOREM TypeCorrect == Spec => []TypeOK
<1>1. IndInv => TypeOK
  BY DEF IndInv
<1> QED
  BY IndThm, <1>1, PTL

\* A grant in the store always has a refresh token, whatever revocations, rotations and
\* housekeeping do to it at the same time (redis/store.go:585).
THEOREM GrantHasTokenThm == Spec => []GrantHasToken
<1>1. IndInv => GrantHasToken
  BY DEF IndInv, TypeOK, TokenInv, GrantHasToken
<1> QED
  BY IndThm, <1>1, PTL

\* A refresh token that the token endpoint returns after a rotation has been in force,
\* unless the grant is gone.
THEOREM ReturnedTokenWasInForceThm == Spec => []ReturnedTokenWasInForce
<1>1. IndInv => ReturnedTokenWasInForce
  <2> SUFFICES ASSUME IndInv, NEW r \in Request,
                      pc[r] = "done", flow[r] = "refresh", version[r] > 0
               PROVE  version[r] \in applied \/ gid[r] \notin stored
    BY DEF ReturnedTokenWasInForce
  <2>1. VersionOf(r) /\ VersionInv /\ version[r] \in Nat
    BY TypesSuffice DEF IndInv, VersionInv, VersionType
  <2>2. RotationEnabled
    BY <2>1, TypesSuffice DEF IndInv, VersionInv, VersionType
  <2> QED
    BY <2>1, <2>2 DEF VersionOf
<1> QED
  BY IndThm, <1>1, PTL

\* When the deletion of an authorization or the termination of sessions is over, no token
\* it was about is left, except in a grant whose creation a List cut in two.
THEOREM RevocationIsCompleteThm == Spec => []RevocationIsComplete
<1>1. IndInv => RevocationIsComplete
  <2> SUFFICES ASSUME IndInv, NEW r \in Request, pc[r] = "done", NEW x \in doomed[r],
                      x[1] \in stored \ missed, x[2] \in value[x[1]].tokens
               PROVE  FALSE
    BY DEF RevocationIsComplete
  <2>1. x[1] \in Grant /\ x[2] \in TokenId /\ x = <<x[1], x[2]>>
    BY DEF IndInv, TypeOK
  <2>2. SweepOf(r) /\ Owed(r, x[1], x[2])
    BY <2>1 DEF IndInv, SweepInv, Owed
  <2> QED
    BY <2>1, <2>2 DEF SweepOf, Pursued
<1> QED
  BY IndThm, <1>1, PTL

----------------------------------------------------------------------------
(* The store implements RefreshTokenLedger *)

\* The store as the ledger sees it
PhaseOf(S, B) == [g \in Grant |-> IF g \in S THEN "live" ELSE IF g \in B THEN "ended" ELSE "unborn"]
TokensOf(v)   == [g \in Grant |-> v[g].tokens]
CurrentOf(v)  == [g \in Grant |-> [t \in TokenId |-> v[g].info[t].current]]

\* When the ledger sees a creation, in terms of the store
LEMMA LedgerCreate ==
    ASSUME NEW g \in Grant, g \notin stored, g \notin born,
           PhaseOf(stored', born') = [PhaseOf(stored, born) EXCEPT ![g] = "live"],
           appended' = [appended EXCEPT ![g] = 1],
           TokensOf(value') = [TokensOf(value) EXCEPT ![g] = {1}],
           CurrentOf(value') = CurrentOf(value), applied' = applied
    PROVE  Ledger!Create(g)
  BY DEF Ledger!Create, PhaseOf, TokensOf, CurrentOf, Ledger!TokenId, TokenId

\* The same of an addition
LEMMA LedgerAdd ==
    ASSUME NEW g \in Grant, g \in stored, UNCHANGED <<stored, born>>,
           appended' = [appended EXCEPT ![g] = @ + 1],
           TokensOf(value') = [TokensOf(value) EXCEPT ![g] = @ \cup {appended[g] + 1}],
           CurrentOf(value') = CurrentOf(value), applied' = applied
    PROVE  Ledger!Add(g)
  BY DEF Ledger!Add, PhaseOf, TokensOf, CurrentOf, Ledger!TokenId, TokenId

\* The same of a rotation
LEMMA LedgerRotate ==
    ASSUME NEW g \in Grant, NEW t \in value[g].tokens, NEW v, g \in stored, v \notin applied,
           UNCHANGED <<stored, born>>, appended' = appended,
           TokensOf(value') = TokensOf(value),
           CurrentOf(value') = [CurrentOf(value) EXCEPT ![g][t] = v],
           applied' = applied \cup {v}
    PROVE  Ledger!Rotate(g, t, v)
  BY DEF Ledger!Rotate, PhaseOf, TokensOf, CurrentOf, Ledger!TokenId, TokenId

\* The same of a removal
LEMMA LedgerRemove ==
    ASSUME NEW g \in Grant, NEW T \in SUBSET value[g].tokens, g \in stored,
           value[g].tokens \ T # {}, UNCHANGED <<stored, born, appended, applied>>,
           TokensOf(value') = [TokensOf(value) EXCEPT ![g] = @ \ T],
           CurrentOf(value') = [CurrentOf(value) EXCEPT ![g] =
                                   [t \in TokenId |-> IF t \in T THEN 0 ELSE @[t]]]
    PROVE  Ledger!RemoveTokens(g, T)
  BY DEF Ledger!RemoveTokens, PhaseOf, TokensOf, CurrentOf, Ledger!TokenId, TokenId

\* A removal of tokens is a step of the ledger.
LEMMA RemoveIsNext ==
    ASSUME NEW g \in Grant, NEW T \in SUBSET value[g].tokens, Ledger!RemoveTokens(g, T)
    PROVE  Ledger!Next
<1>1. TokensOf(value)[g] = value[g].tokens
  BY DEF TokensOf
<1>2. \E k \in Grant : \E U \in SUBSET TokensOf(value)[k] : Ledger!RemoveTokens(k, U)
  BY <1>1
<1> QED
  BY <1>2 DEF Ledger!Next, TokensOf

\* What the ledger sees when one grant changes
LEMMA OneGrantChanges ==
    ASSUME NEW g \in Grant, \A k \in Grant \ {g} : value'[k] = value[k]
    PROVE  /\ TokensOf(value') = [TokensOf(value) EXCEPT ![g] = value'[g].tokens]
           /\ CurrentOf(value') = [CurrentOf(value) EXCEPT ![g] =
                                      [t \in TokenId |-> value'[g].info[t].current]]
           /\ TokensOf(value)[g] = value[g].tokens
           /\ CurrentOf(value)[g] = [t \in TokenId |-> value[g].info[t].current]
           /\ value'[g].tokens = value[g].tokens => TokensOf(value') = TokensOf(value)
           /\ (\A t \in TokenId : value'[g].info[t].current = value[g].info[t].current) =>
                 CurrentOf(value') = CurrentOf(value)
<1>1. /\ TokensOf(value') = [TokensOf(value) EXCEPT ![g] = value'[g].tokens]
      /\ TokensOf(value)[g] = value[g].tokens
      /\ value'[g].tokens = value[g].tokens => TokensOf(value') = TokensOf(value)
  BY DEF TokensOf
<1> DEFINE C(v, k) == [t \in TokenId |-> v[k].info[t].current]
<1>2. /\ \A k \in Grant \ {g} : C(value', k) = C(value, k)
      /\ (\A t \in TokenId : value'[g].info[t].current = value[g].info[t].current) =>
            C(value', g) = C(value, g)
  OBVIOUS
<1>3. \A v : CurrentOf(v) = [k \in Grant |-> C(v, k)]
  BY DEF CurrentOf
<1> HIDE DEF C
<1>4. /\ CurrentOf(value') = [CurrentOf(value) EXCEPT ![g] = C(value', g)]
      /\ CurrentOf(value)[g] = C(value, g)
      /\ C(value', g) = C(value, g) => CurrentOf(value') = CurrentOf(value)
  BY <1>2, <1>3
<1> QED
  BY <1>1, <1>2, <1>4 DEF C

\* A store with a written grant is, seen by the ledger, the same with other tokens.
LEMMA LedgerWrite ==
    ASSUME IndInv, NEW r \in Request, Written(r)
    PROVE  Ledger!Next \/ UNCHANGED Ledger!vars
<1> PICK g \in Grant : g = gid[r]
  BY TypesSuffice DEF IndInv, KeyType
<1>1. /\ KeyType /\ VersionType /\ SweepType
      /\ BornInv /\ TokenInv /\ MemInv /\ VersionInv /\ ControlInv
  BY TypesSuffice DEF IndInv
<1>2. /\ g \in stored /\ mem[r].tokens # {} /\ Changed(r, mem[r], value[g])
      /\ value[g] \in GrantData /\ appended \in [Grant -> Nat]
  BY <1>1 DEF Written, MemInv, MemOf, KeyType
<1>3. UNCHANGED <<stored, born>> /\ value'[g] = mem[r]
  BY <1>1 DEF Written, KeyType
<1>4. /\ op[r] \in {"add", "addShortLived"} =>
            appended' = [appended EXCEPT ![g] = @ + 1] /\ applied' = applied
      /\ op[r] = "rotate" => appended' = appended /\ applied' = applied \cup {version[r]}
      /\ op[r] \notin {"add", "addShortLived", "rotate"} =>
            appended' = appended /\ applied' = applied
  BY <1>1 DEF Written, KeyType
<1>5. \A k \in Grant \ {g} : value'[k] = value[k]
  BY <1>1 DEF Written, KeyType
<1>6. /\ TokensOf(value') = [TokensOf(value) EXCEPT ![g] = value'[g].tokens]
      /\ TokensOf(value)[g] = value[g].tokens
      /\ value'[g].tokens = value[g].tokens => TokensOf(value') = TokensOf(value)
  BY <1>5, OneGrantChanges
<1>7. /\ CurrentOf(value') = [CurrentOf(value) EXCEPT ![g] =
                                 [t \in TokenId |-> value'[g].info[t].current]]
      /\ CurrentOf(value)[g] = [t \in TokenId |-> value[g].info[t].current]
      /\ (\A t \in TokenId : value'[g].info[t].current = value[g].info[t].current) =>
            CurrentOf(value') = CurrentOf(value)
  BY <1>5, OneGrantChanges
<1>8. CASE op[r] \in {"add", "addShortLived"}
  <2>1. /\ mem[r].tokens = value[g].tokens \cup {appended[g] + 1}
        /\ \A t \in TokenId : mem[r].info[t].current = value[g].info[t].current
    BY <1>2, <1>8 DEF Changed
  <2>2. /\ TokensOf(value') = [TokensOf(value) EXCEPT ![g] = @ \cup {appended[g] + 1}]
        /\ CurrentOf(value') = CurrentOf(value)
        /\ appended' = [appended EXCEPT ![g] = @ + 1] /\ applied' = applied
    BY <1>3, <1>8, <1>4, <1>6, <1>7, <2>1
  <2>3. Ledger!Add(g)
    BY <1>2, <1>3, <2>2, LedgerAdd
  <2> QED
    BY <2>3 DEF Ledger!Next
<1>9. CASE op[r] = "rotate"
  <2>1. /\ mem[r].tokens = value[g].tokens /\ token[r] \in value[g].tokens
        /\ \A t \in TokenId : mem[r].info[t].current =
              IF t = token[r] THEN version[r] ELSE value[g].info[t].current
    BY <1>2, <1>9 DEF Changed
  <2>2. version[r] \in 1 .. MaxRotations /\ version[r] \notin applied
    <3>1. flow[r] = "refresh" /\ RotationEnabled
      BY <1>1, <1>9 DEF ControlInv
    <3>2. version[r] \in Version /\ MaxRotations \in Nat
      BY BoundAssumption DEF IndInv, TypeOK
    <3> QED
      BY <1>1, <1>9, <3>1, <3>2 DEF VersionInv, VersionOf, Version
  <2>3. token[r] \in TokenId
    BY <2>1, <1>2 DEF GrantData
  <2> PICK t \in TokenId, v \in 1 .. MaxRotations : t = token[r] /\ v = version[r]
    BY <2>2, <2>3
  <2>4. /\ TokensOf(value') = TokensOf(value)
        /\ appended' = appended /\ applied' = applied \cup {v}
    BY <1>3, <1>9, <1>4, <1>6, <2>1
  <2>5. [u \in TokenId |-> value'[g].info[u].current] =
          [[u \in TokenId |-> value[g].info[u].current] EXCEPT ![t] = v]
    <3>1. \A u \in TokenId : value'[g].info[u].current =
             IF u = t THEN v ELSE value[g].info[u].current
      BY <1>3, <2>1
    <3> QED
      BY <3>1
  <2>6. CurrentOf(value') = [CurrentOf(value) EXCEPT ![g][t] = v]
    BY <1>7, <2>5
  <2>7. Ledger!Rotate(g, t, v)
    BY <1>2, <1>3, <2>1, <2>2, <2>4, <2>6, LedgerRotate
  <2> QED
    BY <2>7 DEF Ledger!Next, Ledger!TokenId, TokenId
<1>10. CASE op[r] \in {"trim", "revoke"}
  <2> PICK T \in SUBSET value[g].tokens : T = remove[r] \cap value[g].tokens
    OBVIOUS
  <2>1. /\ mem[r].tokens = value[g].tokens \ T
        /\ \A t \in TokenId : mem[r].info[t].current =
              IF t \in T THEN 0 ELSE value[g].info[t].current
    BY <1>1, <1>2, <1>10 DEF Changed, TokenInv
  <2>2. value[g].tokens \ T # {}
    BY <1>2, <2>1
  <2>3. /\ TokensOf(value') = [TokensOf(value) EXCEPT ![g] = @ \ T]
        /\ appended' = appended /\ applied' = applied
    BY <1>3, <1>10, <1>4, <1>6, <2>1
  <2> DEFINE old == [u \in TokenId |-> value[g].info[u].current]
  <2>4. [u \in TokenId |-> value'[g].info[u].current] =
          [u \in TokenId |-> IF u \in T THEN 0 ELSE old[u]]
    BY <1>3, <2>1
  <2>5. CurrentOf(value)[g] = old
    BY <1>7
  <2> HIDE DEF old
  <2>6. CurrentOf(value') =
          [CurrentOf(value) EXCEPT ![g] = [u \in TokenId |-> IF u \in T THEN 0 ELSE @[u]]]
    BY <1>7, <2>4, <2>5
  <2>7. Ledger!RemoveTokens(g, T)
    <3>1. g \in stored /\ UNCHANGED <<stored, born, appended, applied>>
      BY <1>2, <1>3, <2>3
    <3> QED
      BY <2>2, <2>3, <2>6, <3>1, LedgerRemove
  <2> QED
    BY <2>7, RemoveIsNext
<1>11. CASE op[r] \notin {"add", "addShortLived", "rotate", "trim", "revoke"}
  <2>1. /\ mem[r].tokens = value[g].tokens
        /\ \A t \in TokenId : mem[r].info[t].current = value[g].info[t].current
    BY <1>2, <1>11 DEF Changed
  <2> QED
    BY <1>3, <1>11, <1>4, <1>5, <2>1 DEF Ledger!vars
<1> QED
  BY <1>8, <1>9, <1>10, <1>11

\* What a step does to the stored grants is a step of the ledger.
LEMMA LedgerStep == IndInv /\ StoreStep => [Ledger!Next]_(Ledger!vars)
<1> SUFFICES ASSUME IndInv, StoreStep PROVE Ledger!Next \/ UNCHANGED Ledger!vars
  OBVIOUS
<1>1. KeyType /\ BornInv /\ TokenInv /\ MemInv
  BY TypesSuffice DEF IndInv
<1>2. CASE Unchanged
  BY <1>2 DEF Unchanged, Ledger!vars
<1>3. CASE Ended
  <2>1. PICK G \in SUBSET stored : Gone(G) /\ UNCHANGED <<born, appended, applied>>
    BY <1>3 DEF Ended
  <2>2. G \subseteq Grant /\ stored \subseteq born
    BY <1>1 DEF BornInv, IndInv, TypeOK
  <2>3. Ledger!End(G)
    BY <2>1, <2>2 DEF Ledger!End, Gone, NoGrant, NoToken, Ledger!TokenId, TokenId
  <2> QED
    BY <2>2, <2>3 DEF Ledger!Next
<1>4. ASSUME NEW r \in Request, Created(r) PROVE Ledger!Next
  <2> PICK g \in Grant : g = gid[r]
    BY <1>1 DEF KeyType
  <2>1. /\ g \notin stored /\ g \notin born /\ value[g] = NoGrant /\ appended \in [Grant -> Nat]
        /\ mem[r].tokens = {1} /\ \A t \in TokenId : mem[r].info[t].current = 0
    BY <1>1, <1>4 DEF Created, BornInv, MemInv, MemOf, KeyType
  <2>2. /\ stored' = stored \cup {g} /\ born' = born \cup {g} /\ applied' = applied
        /\ appended' = [appended EXCEPT ![g] = 1]
        /\ value'[g] = mem[r] /\ \A k \in Grant \ {g} : value'[k] = value[k]
    BY <1>1, <1>4 DEF Created, KeyType
  <2>3. /\ TokensOf(value') = [TokensOf(value) EXCEPT ![g] = {1}]
        /\ CurrentOf(value') = CurrentOf(value)
    <3>1. \A t \in TokenId : value'[g].info[t].current = value[g].info[t].current
      BY <2>1, <2>2 DEF NoGrant, NoToken
    <3>2. /\ TokensOf(value') = [TokensOf(value) EXCEPT ![g] = value'[g].tokens]
          /\ CurrentOf(value') = CurrentOf(value)
      BY <2>2, <3>1, OneGrantChanges
    <3> QED
      BY <2>1, <2>2, <3>2
  <2>4. PhaseOf(stored', born') = [PhaseOf(stored, born) EXCEPT ![g] = "live"]
    BY <2>1, <2>2 DEF PhaseOf
  <2>5. Ledger!Create(g)
    BY <2>1, <2>2, <2>3, <2>4, LedgerCreate
  <2> QED
    BY <2>5 DEF Ledger!Next
<1> QED
  BY <1>2, <1>3, <1>4, LedgerWrite DEF StoreStep

\* The store implements the ledger of refresh tokens: a removed token never returns, an
\* added one is lost only by a removal that names it, a superseded hash is never in force
\* again, although every update writes back the whole grant it has read.
THEOREM ImplementsLedgerThm == Spec => ImplementsLedger
<1>1. Init => Ledger!Init
  BY DEF Init, Ledger!Init, NoGrant, NoToken, Ledger!TokenId, TokenId
<1>2. IndInv /\ [Next]_vars => [Ledger!Next]_(Ledger!vars)
  BY IndStep, LedgerStep
<1> QED
  BY <1>1, <1>2, IndThm, PTL DEF Spec, ImplementsLedger, Ledger!Spec

----------------------------------------------------------------------------
(* A grant without an idle timeout lives as long as its client allows *)

\* ExpiryOf of a grant or a token, if there is no idle timeout
Ends(x) == x.createdAt + Lifetime

\* The time of creation is what an update may not change: every update writes a TTL that
\* was computed from a grant read earlier, some of them from the grant that the request
\* was resolved with, several updates ago.
LifetimeOf(r) ==
    /\ pc[r] = "client" => flow[r] = "refresh"
    /\ gid[r] \in stored =>
          /\ pc[r] \in {"hset", "set", "housekeep"} =>
                mem[r].createdAt = value[gid[r]].createdAt
          /\ pc[r] \in {"lock", "hset", "set"} => expireAt[r] = Ends(value[gid[r]])
          /\ flow[r] = "refresh" => session[r] = Ends(value[gid[r]])
    /\ \A g \in seen[r] \cap stored : copy[r][g].createdAt = value[g].createdAt
TTLInv == \A g \in stored : ttl[g] = Ends(value[g])
LifetimeInv == TTLInv /\ \A r \in Request : LifetimeOf(r)

LifetimeType ==
    /\ stored \subseteq Grant /\ born \subseteq Grant
    /\ ttl \in [Grant -> Expiry] /\ session \in [Request -> Expiry]
    /\ expireAt \in [Request -> Expiry] /\ copy \in [Request -> [Grant -> GrantData]]

\* Without an idle timeout it is the lifetime that ends a grant.
LEMMA ExpiryIsEnd ==
    ASSUME ~IdleTimeoutEnabled, NEW x
    PROVE  ExpiryOf(x) = Ends(x)
  BY DEF ExpiryOf, Ends

\* No update changes the time of creation.
LEMMA MutatedBirth ==
    ASSUME NEW r \in Request, mem[r] \in GrantData
    PROVE  Mutated(r).createdAt = mem[r].createdAt
  BY DEF Mutated, WithoutTokens, Accessed, GrantData

Stays(q) ==
    /\ pc'[q] = pc[q] /\ flow'[q] = flow[q] /\ gid'[q] = gid[q] /\ mem'[q] = mem[q]
    /\ expireAt'[q] = expireAt[q] /\ session'[q] = session[q]
    /\ seen'[q] = seen[q] /\ copy'[q] = copy[q]

\* A grant that stays in the store keeps the time of its creation.
LEMMA BirthKept ==
    ASSUME KeyType, LifetimeType, BornInv, LifetimeInv, StoreStep,
           NEW g \in born, g \in stored'
    PROVE  g \in stored /\ value'[g].createdAt = value[g].createdAt
<1> USE DEF KeyType, LifetimeType
<1>1. CASE Unchanged
  BY <1>1 DEF Unchanged, BornInv
<1>2. CASE Ended
  BY <1>2 DEF Ended, Gone
<1>3. ASSUME NEW r \in Request, Created(r) PROVE g # gid[r]
  BY <1>3 DEF Created, BornInv
<1>4. ASSUME NEW r \in Request, Written(r)
      PROVE  mem[r].createdAt = value[gid[r]].createdAt
  BY <1>4 DEF Written, LifetimeInv, LifetimeOf
<1>5. ASSUME NEW r \in Request, Created(r) PROVE value'[g] = value[g] /\ g \in stored
  BY <1>3, <1>5 DEF Created
<1>6. ASSUME NEW r \in Request, Written(r)
      PROVE  value'[g].createdAt = value[g].createdAt /\ g \in stored
  BY <1>4, <1>6 DEF Written
<1> QED
  BY <1>1, <1>2, <1>5, <1>6 DEF StoreStep

\* So do the expiries that others have computed.
LEMMA LifetimeOthers ==
    ASSUME KeyType, LifetimeType, ControlInv, BornInv, LifetimeInv, [Next]_vars,
           NEW q \in Request, Stays(q)
    PROVE  LifetimeOf(q)'
<1> USE DEF KeyType, LifetimeType
<1>1. \A g \in born : g \in stored' =>
         g \in stored /\ value'[g].createdAt = value[g].createdAt
  BY StoreStepThm, BirthKept
<1>2. LifetimeOf(q) /\ seen[q] \subseteq born
  BY DEF LifetimeInv, BornInv
<1>3. pc[q] \in {"lock", "hset", "set", "housekeep"} \/ flow[q] = "refresh" => gid[q] \in born
  BY DEF ControlInv
<1> QED
  BY <1>1, <1>2, <1>3 DEF LifetimeOf, Stays, Ends

\* Every step keeps the end of a grant where it was when the grant was created.
LEMMA LifetimeStep ==
    /\ ~IdleTimeoutEnabled /\ KeyType /\ LifetimeType /\ ControlInv /\ BornInv /\ ListInv
    /\ LifetimeInv /\ [Next]_vars
    => LifetimeInv'
<1> SUFFICES ASSUME ~IdleTimeoutEnabled, KeyType, LifetimeType, ControlInv, BornInv, ListInv,
                    LifetimeInv, [Next]_vars
             PROVE  LifetimeInv'
  OBVIOUS
<1> DEFINE Kept(r) == TTLInv' /\ LifetimeOf(r)' /\ \A q \in Request \ {r} : Stays(q)
<1>0. ASSUME NEW r \in Request, Kept(r) PROVE LifetimeInv'
  BY <1>0, LifetimeOthers DEF LifetimeInv
<1> USE DEF KeyType, LifetimeType, Goto, redis, locals, history, Stays
<1>1. ASSUME NEW r \in Request, Begin(r) PROVE LifetimeInv'
  <2>0. LifetimeOf(r) /\ TTLInv /\ seen[r] \subseteq born
    BY DEF LifetimeInv, BornInv
  <2> USE DEF TTLInv, LifetimeOf
  <2>1. ASSUME NEW g \in Grant, NEW a \in Authorization, BeginCreate(r, g, a) PROVE Kept(r)
    BY <2>0, <2>1 DEF BeginCreate
  <2>2. ASSUME NEW g \in Grant, NEW a \in Authorization,
               NEW o \in {"add", "addShortLived"}, BeginIssue(r, g, a, o) PROVE Kept(r)
    BY <2>0, <2>2, ExpiryIsEnd DEF BeginIssue, Resolved, GetOfflineGrant
  <2>3. ASSUME NEW g \in Grant, NEW t \in TokenId, BeginRefresh(r, g, t) PROVE Kept(r)
    BY <2>0, <2>3, ExpiryIsEnd DEF BeginRefresh, Resolved, GetOfflineGrant, Preparation
  <2>4. ASSUME NEW g \in Grant, NEW t \in TokenId,
               NEW f \in {"cookie", "bearer"}, BeginResolve(r, f, g, t) PROVE Kept(r)
    BY <2>0, <2>4, ExpiryIsEnd DEF BeginResolve, Resolved, GetOfflineGrant
  <2>5. ASSUME NEW g \in Grant,
               NEW o \in {"authTime", "deviceSecret", "deviceKey"}, BeginReauth(r, g, o)
        PROVE  Kept(r)
    BY <2>0, <2>5, ExpiryIsEnd DEF BeginReauth, Resolved, GetOfflineGrant
  <2>6. ASSUME NEW g \in Grant, BeginSAML(r, g) PROVE Kept(r)
    BY <2>0, <2>6, ExpiryIsEnd DEF BeginSAML, Resolved, GetOfflineGrant
  <2>7. ASSUME NEW a \in Authorization,
               NEW f \in {"revoke", "terminate"}, BeginList(r, f, a) PROVE Kept(r)
    BY <2>0, <2>7 DEF BeginList
  <2> HIDE DEF KeyType, LifetimeType, Goto, redis, locals, history, Stays, TTLInv, LifetimeOf, Kept
  <2>8. az[r] \in Authorization /\ authorizations \subseteq Authorization
    BY DEF KeyType
  <2> QED
    BY <1>0, <1>1, <2>1, <2>2, <2>3, <2>4, <2>5, <2>6, <2>7, <2>8 DEF Begin
<1>2. ASSUME NEW r \in Request, Step(r) PROVE LifetimeInv'
  <2>0. LifetimeOf(r) /\ TTLInv /\ seen[r] \subseteq born
    BY DEF LifetimeInv, BornInv
  <2> USE DEF TTLInv, LifetimeOf
  <2>1. ASSUME CreateSetNX(r) PROVE Kept(r)
    <3>1. /\ pc[r] = "create.setnx" /\ flow[r] = "create"
          /\ gid[r] \notin born /\ stored \subseteq born
      BY <2>1 DEF CreateSetNX, ControlInv, BornInv
    <3>2. TTLInv' /\ \A q \in Request \ {r} : Stays(q)
      BY <2>0, <2>1, ExpiryIsEnd DEF CreateSetNX
    <3>3. LifetimeOf(r)'
      <4>1. /\ flow' = flow /\ pc'[r] \in {"done", "failed"} /\ seen' = seen /\ copy' = copy
            /\ \A g \in Grant \ {gid[r]} : value'[g] = value[g] /\ (g \in stored' => g \in stored)
        BY <2>1 DEF CreateSetNX
      <4> QED
        BY <2>0, <3>1, <4>1
    <3> QED
      BY <3>2, <3>3
  <2>2. ASSUME LockAndGet(r) PROVE Kept(r)
    BY <2>0, <2>2 DEF LockAndGet
  <2>3. ASSUME LockGivesUp(r) PROVE Kept(r)
    BY <2>0, <2>3 DEF LockGivesUp
  <2>4. ASSUME UpdateHSet(r) PROVE Kept(r)
    BY <2>0, <2>4, MutatedBirth DEF UpdateHSet
  <2>5. ASSUME UpdateSetXX(r) PROVE Kept(r)
    <3>1. /\ pc[r] = "set" /\ UNCHANGED <<stored, flow, gid, session, expireAt, mem, seen, copy>>
          /\ pc'[r] = "client" => flow[r] = "refresh"
          /\ \A q \in Request \ {r} : Stays(q)
      BY <2>5 DEF UpdateSetXX, Continue, After, Preparation
    <3>2. pc'[r] \notin {"hset", "set"}
      BY <2>5 DEF UpdateSetXX, Continue, After, Preparation
    <3>3. /\ gid[r] \notin stored => value' = value /\ ttl' = ttl
          /\ \A g \in Grant \ {gid[r]} : value'[g] = value[g] /\ ttl'[g] = ttl[g]
          /\ gid[r] \in stored =>
                \/ value' = value /\ ttl' = ttl /\ pc'[r] = "failed"
                \/ value'[gid[r]] = mem[r] /\ ttl'[gid[r]] = expireAt[r]
      BY <2>5 DEF UpdateSetXX, Continue
    <3>4. gid[r] \in stored =>
             /\ mem[r].createdAt = value[gid[r]].createdAt
             /\ expireAt[r] = Ends(value[gid[r]])
      BY <2>0, <3>1
    <3>5. \A g \in stored : value'[g].createdAt = value[g].createdAt
      BY <3>3, <3>4
    <3>6. TTLInv'
      BY <2>0, <3>1, <3>3, <3>4, <3>5 DEF Ends
    <3>7. gid[r] \in stored /\ pc'[r] = "housekeep" => mem[r] = value'[gid[r]]
      BY <3>3
    <3>8. LifetimeOf(r)'
      BY <2>0, <3>1, <3>2, <3>4, <3>5, <3>7 DEF Ends
    <3> QED
      BY <3>1, <3>6, <3>8
  <2>6. ASSUME RemoveDel(r) PROVE Kept(r)
    BY <2>0, <2>6 DEF RemoveDel, Gone
  <2>7. ASSUME RemoveHDel(r) PROVE Kept(r)
    BY <2>0, <2>7 DEF RemoveHDel, Continue, After, Preparation, ListInv
  <2>8. ASSUME Reread(r) PROVE Kept(r)
    BY <2>0, <2>8, ExpiryIsEnd DEF Reread, GetOfflineGrant
  <2>9. ASSUME HousekeepOfflineGrant(r) PROVE Kept(r)
    BY <2>0, <2>9, ExpiryIsEnd DEF HousekeepOfflineGrant, Ends
  <2>10. ASSUME ClientCheck(r) PROVE Kept(r)
    BY <2>0, <2>10 DEF ClientCheck
  <2>11. ASSUME NEW g \in Grant, ListGet(r, g) PROVE Kept(r)
    <3>1. flow[r] # "refresh" /\ flow' = flow /\ pc'[r] \in {"list.get", "list.hdel"}
      BY <2>11 DEF ListGet, ControlInv
    <3>2. TTLInv' /\ UNCHANGED <<stored, value>> /\ \A q \in Request \ {r} : Stays(q)
      BY <2>0, <2>11 DEF ListGet
    <3>3. \A h \in seen'[r] \cap stored : copy'[r][h].createdAt = value[h].createdAt
      BY <2>0, <2>11 DEF ListGet
    <3> QED
      BY <3>1, <3>2, <3>3
  <2>12. ASSUME NEW g \in Grant, RevokeTokens(r, g) PROVE Kept(r)
    <3>1. flow[r] = "revoke" /\ flow' = flow /\ pc'[r] \in {"list.get", "lock"} /\ gid'[r] = g
      BY <2>12 DEF RevokeTokens, Listed, Handled
    <3>2. TTLInv' /\ UNCHANGED <<stored, value>> /\ \A q \in Request \ {r} : Stays(q)
      BY <2>0, <2>12 DEF RevokeTokens, Listed, Handled
    <3>3. \A h \in seen'[r] \cap stored : copy'[r][h].createdAt = value[h].createdAt
      BY <2>0, <2>12 DEF RevokeTokens, Listed, Handled
    <3>4. ExpiryOf(copy[r][g]) = Ends(copy[r][g]) /\ g \in seen[r]
      BY <2>12, ExpiryIsEnd DEF RevokeTokens, Listed
    <3>5. pc'[r] = "lock" => expireAt'[r] = Ends(copy[r][g])
      BY <2>12, <3>4 DEF RevokeTokens, Listed
    <3>6. g \in stored /\ pc'[r] = "lock" => expireAt'[r] = Ends(value[g])
      BY <2>0, <3>4, <3>5 DEF Ends
    <3> QED
      BY <3>1, <3>2, <3>3, <3>6
  <2>13. ASSUME NEW g \in Grant, TerminateDel(r, g) PROVE Kept(r)
    BY <2>0, <2>13 DEF TerminateDel, Listed, Handled, Gone
  <2>14. ASSUME ListHDel(r) PROVE Kept(r)
    BY <2>0, <2>14 DEF ListHDel
  <2>15. ASSUME DeleteAuthorization(r) PROVE Kept(r)
    BY <2>0, <2>15 DEF DeleteAuthorization
  <2>16. ASSUME Terminated(r) PROVE Kept(r)
    BY <2>0, <2>16 DEF Terminated
  <2>17. ASSUME Return(r) PROVE Kept(r)
    BY <2>0, <2>17 DEF Return, Forget
  <2> HIDE DEF KeyType, LifetimeType, Goto, redis, locals, history, Stays, TTLInv, LifetimeOf, Kept
  <2> QED
    BY <1>0, <1>2, <2>1, <2>2, <2>3, <2>4, <2>5, <2>6, <2>7, <2>8, <2>9,
       <2>10, <2>11, <2>12, <2>13, <2>14, <2>15, <2>16, <2>17 DEF Step
<1>3. ASSUME NEW r \in Request, Crash(r) PROVE Kept(r)
  BY <1>3 DEF Crash, Forget, LifetimeInv, TTLInv, LifetimeOf
<1>4. ASSUME NEW g \in Grant, LeaseExpires(g) PROVE TTLInv' /\ \A q \in Request : Stays(q)
  BY <1>4 DEF LeaseExpires, LifetimeInv, TTLInv
<1>5. ASSUME Tick PROVE TTLInv' /\ \A q \in Request : Stays(q)
  BY <1>5 DEF Tick, Gone, LifetimeInv, TTLInv
<1>6. ASSUME UNCHANGED vars PROVE TTLInv' /\ \A q \in Request : Stays(q)
  BY <1>6 DEF vars, LifetimeInv, TTLInv
<1>7. ASSUME TTLInv', \A q \in Request : Stays(q) PROVE LifetimeInv'
  BY <1>7, LifetimeOthers DEF LifetimeInv
<1> HIDE DEF KeyType, LifetimeType, Goto, redis, locals, history, Stays, Kept
<1> QED
  BY <1>0, <1>1, <1>2, <1>3, <1>4, <1>5, <1>6, <1>7 DEF Next

\* The clock alone ends no grant before its lifetime is over, whatever updates are under
\* way, if the client has no idle timeout.  (With one it does, see run grants_idle: an update
\* writes the expiry of a grant that was read before another request accessed it.)
THEOREM NotExpiredBeforeTimeoutThm == ~IdleTimeoutEnabled => (Spec => NotExpiredBeforeTimeout)
<1> SUFFICES ASSUME ~IdleTimeoutEnabled PROVE Spec => NotExpiredBeforeTimeout
  OBVIOUS
<1>1. Init => LifetimeInv
  BY DEF Init, LifetimeInv, TTLInv, LifetimeOf
<1>2. IndInv /\ LifetimeInv /\ [Next]_vars => LifetimeInv'
  <2>1. IndInv => KeyType /\ LifetimeType /\ ControlInv /\ BornInv /\ ListInv
    BY TypesSuffice DEF IndInv, TypeOK, LifetimeType
  <2> QED
    BY <2>1, LifetimeStep
<1>3. IndInv /\ LifetimeInv /\ [Next]_vars =>
          [now' # now => \A g \in stored \ stored' : ExpiryOf(value[g]) <= now']_vars
  <2> SUFFICES ASSUME IndInv, LifetimeInv, Next, now' # now, NEW g \in stored \ stored'
               PROVE  ExpiryOf(value[g]) <= now'
    BY DEF vars
  <2>1. Tick
    <3>1. ASSUME NEW r \in Request, Begin(r) \/ Step(r) \/ Crash(r) PROVE now' = now
      BY <3>1 DEF Begin, Step, Crash, Forget, Return, BeginCreate, BeginIssue, BeginRefresh,
                  BeginResolve, BeginReauth, BeginSAML, BeginList, Resolved, CreateSetNX,
                  LockAndGet, LockGivesUp, UpdateHSet, UpdateSetXX, RemoveDel, RemoveHDel,
                  Reread, HousekeepOfflineGrant, ClientCheck, ListGet, RevokeTokens,
                  TerminateDel, ListHDel, DeleteAuthorization, Terminated
    <3>2. ASSUME NEW h \in Grant, LeaseExpires(h) PROVE now' = now
      BY <3>2 DEF LeaseExpires
    <3> QED
      BY <3>1, <3>2 DEF Next
  <2>2. ttl[g] <= now'
    BY <2>1 DEF Tick, Gone
  <2>3. ttl[g] = Ends(value[g])
    BY DEF LifetimeInv, TTLInv
  <2> QED
    BY <2>2, <2>3, ExpiryIsEnd
<1> QED
  BY IndThm, <1>1, <1>2, <1>3, PTL DEF Spec, NotExpiredBeforeTimeout
=============================================================================

----------------------- MODULE IDPSessionStore_proofs -----------------------
(***************************************************************************)
(* What IDPSessionStore guarantees for every number of requests and         *)
(* sessions, every lifetime and every bound.                                *)
(***************************************************************************)
EXTENDS IDPSessionStore, TLAPS

USE RequestAssumption, TimeAssumption

LEMMA BlankType == Blank \in SessionData /\ 0 \in Time
  BY DEF Blank, SessionData, Time

\* Every action preserves the types: one step per action.
LEMMA TypeStep == TypeOK /\ [Next]_vars => TypeOK'
<1> SUFFICES ASSUME TypeOK, [Next]_vars PROVE TypeOK'
  OBVIOUS
<1> USE DEF TypeOK, Goto, Operation, Command, redis, locals, history
<1> USE BlankType
<1>1. ASSUME NEW r \in Request, Begin(r) PROVE TypeOK'
  <2>1. ASSUME NEW s \in Session, BeginCreate(r, s) PROVE TypeOK'
    BY <2>1 DEF BeginCreate, SessionData, Time
  <2>2. ASSUME NEW s \in Session, BeginAccessWithToken(r, s) PROVE TypeOK'
    BY <2>2 DEF BeginAccessWithToken, BeginUpdate
  <2>3. ASSUME NEW s \in Session, BeginAccessWithID(r, s) PROVE TypeOK'
    BY <2>3 DEF BeginAccessWithID, BeginUpdate
  <2>4. ASSUME NEW s \in Session, BeginReauthenticate(r, s) PROVE TypeOK'
    BY <2>4 DEF BeginReauthenticate, BeginUpdate
  <2>5. ASSUME NEW s \in Session, NEW sp \in SAMLProvider, BeginAddSP(r, s, sp)
        PROVE TypeOK'
    BY <2>5 DEF BeginAddSP, BeginUpdate
  <2>6. ASSUME NEW v \in SUBSET Session, BeginList(r, "list", v) PROVE TypeOK'
    BY <2>6 DEF BeginList
  <2>7. CASE BeginList(r, "cleanup", Session)
    BY <2>7 DEF BeginList
  <2>8. {} \in SUBSET Session /\ Session \in SUBSET Session
        /\ \A s \in Session : {s} \in SUBSET Session /\ Session \ {s} \in SUBSET Session
    OBVIOUS
  <2> HIDE DEF TypeOK, Goto, Operation, Command, redis, locals, history
  <2> QED
    BY <1>1, <2>1, <2>2, <2>3, <2>4, <2>5, <2>6, <2>7, <2>8 DEF Begin
<1>2. ASSUME NEW r \in Request, Step(r) PROVE TypeOK'
  <2>1. CASE CreateSetNX(r)
    BY <2>1 DEF CreateSetNX
  <2>2. CASE AppendEventXAdd(r)
    BY <2>2 DEF AppendEventXAdd
  <2>3. CASE AppendEventExpireAt(r)
    BY <2>3 DEF AppendEventExpireAt
  <2>4. CASE GetByToken(r)
    BY <2>4 DEF GetByToken
  <2>5. CASE LockContext(r)
    BY <2>5 DEF LockContext
  <2>6. CASE LockGivesUp(r)
    BY <2>6 DEF LockGivesUp
  <2>7. CASE UpdateGet(r)
    BY <2>7 DEF UpdateGet
  <2>8. CASE UpdateHSet(r)
    <3>1. /\ ses[r] \in SessionData /\ event[r] \in Time /\ now \in Time
          /\ provider[r] \in SAMLProvider /\ sid[r] \in Session
      OBVIOUS
    <3>2. Mutated(r) \in SessionData
      BY <3>1 DEF Mutated, SessionData
    <3> QED
      BY <2>8, <3>1, <3>2 DEF UpdateHSet
  <2>9. CASE UpdateSetXX(r)
    BY <2>9 DEF UpdateSetXX
  <2>10. CASE UnlockContext(r)
    BY <2>10 DEF UnlockContext
  <2>11. ASSUME NEW s \in Session, ListGet(r, s) PROVE TypeOK'
    BY <2>11 DEF ListGet
  <2>12. CASE ListHDel(r)
    BY <2>12 DEF ListHDel
  <2>13. ASSUME NEW s \in Session, DeleteDel(r, s) PROVE TypeOK'
    BY <2>13 DEF DeleteDel, Remove
  <2>14. CASE DeleteHDel(r)
    BY <2>14 DEF DeleteHDel
  <2>15. CASE AllDeleted(r)
    BY <2>15 DEF AllDeleted
  <2>16. CASE CleanUpForDeletingUserID(r)
    BY <2>16 DEF CleanUpForDeletingUserID
  <2>17. CASE Return(r)
    BY <2>17 DEF Return, Forget
  <2> QED
    BY <1>2, <2>1, <2>2, <2>3, <2>4, <2>5, <2>6, <2>7, <2>8, <2>9, <2>10, <2>11,
       <2>12, <2>13, <2>14, <2>15, <2>16, <2>17 DEF Step
<1>3. ASSUME NEW r \in Request, Crash(r) PROVE TypeOK'
  BY <1>3 DEF Crash, Forget
<1>4. ASSUME NEW s \in Session, LeaseExpires(s) PROVE TypeOK'
  BY <1>4 DEF LeaseExpires
<1>5. CASE Tick
  BY <1>5 DEF Tick, Remove, Time
<1>6. CASE UNCHANGED vars
  BY <1>6 DEF vars
<1> QED
  BY <1>1, <1>2, <1>3, <1>4, <1>5, <1>6 DEF Next

LEMMA TypeInit == Init => TypeOK
  BY BlankType DEF Init, TypeOK, Operation, Command

\* Every reachable state is well typed.
THEOREM TypeCorrect == Spec => []TypeOK
  BY TypeInit, TypeStep, PTL DEF Spec

----------------------------------------------------------------------------
(* The inductive invariant that does not depend on the mutex *)

Sweeping(r) == pc[r] \in {"list.get", "list.hdel", "delete.hdel"}

\* Only what has been handed out is stored, and a session is stored at most once: while
\* its creation is between HSET and SETNX no other creation knows its ID.
BornInv == stored \subseteq born /\ born \subseteq issued
CreatingInv ==
    \A r \in Request : pc[r] = "create.setnx" =>
        /\ op[r] = "create" /\ sid[r] \in issued \ born
        /\ sid[r] \in list \cup missed \cup wiped
        /\ \A q \in Request \ {r} : pc[q] = "create.setnx" => sid[q] # sid[r]

\* A pending HDEL is about a session that will never exist again, or is recorded in
\* missed; what a sweep has not deleted yet it still has to read or to delete.
HDelInv ==
    \A r \in Request :
        /\ found[r] \subseteq born
        /\ pc[r] = "list.hdel" => sid[r] \in missed \cup (born \ stored)
        /\ pc[r] = "delete.hdel" => sid[r] \in born \ stored
SweepInv ==
    \A r \in Request :
        /\ expected[r] \subseteq doomed[r] \cap born
        /\ expected[r] # {} => Sweeping(r) \/ pc[r] = "done"
        /\ Sweeping(r) =>
              expected[r] \cap stored \subseteq todo[r] \cup found[r] \cup missed \cup wiped
        /\ pc[r] = "done" => expected[r] \cap stored \subseteq missed \cup wiped

SafetyInv == BornInv /\ CreatingInv /\ UnlistedOnlyByRace /\ HDelInv /\ SweepInv

----------------------------------------------------------------------------
(* The inductive invariant of the mutex, when no lease ends under its owner *)

HoldsMutex(r) ==
    \/ pc[r] \in {"get", "update.hset", "update.setxx", "unlock"}
    \/ pc[r] \in {"xadd", "expireat"} /\ op[r] # "create"

MutexInv == \A r \in Request : HoldsMutex(r) => mutex[sid[r]] = r

\* A session that is not stored holds nothing, and its times are not in the future.
ValueInv ==
    /\ \A s \in Session \ stored : value[s] = Blank
    /\ \A s \in Session : value[s].authenticatedAt <= now
    /\ \A r \in Request : pc[r] = "create.setnx" =>
          ses[r].participants = {} /\ ses[r].authenticatedAt <= now

\* What SET XX is about to write differs from what is stored by the change that was
\* asked for, and by nothing else.
Changed(o, new, old, sp) ==
    /\ new.participants = IF o = "addSP" THEN old.participants \cup {sp} ELSE old.participants
    /\ IF o = "reauthenticate" THEN old.authenticatedAt <= new.authenticatedAt
                               ELSE old.authenticatedAt = new.authenticatedAt
UpdateInv ==
    \A r \in Request :
        /\ pc[r] \in {"token.get", "lock", "get", "update.hset", "update.setxx"} =>
              op[r] \in {"access", "reauthenticate", "addSP"} /\ sid[r] \in born
        /\ pc[r] = "update.hset" /\ sid[r] \in stored => ses[r] = value[sid[r]]
        /\ pc[r] = "update.setxx" /\ sid[r] \in stored =>
              /\ Changed(op[r], ses[r], value[sid[r]], provider[r])
              /\ ses[r].authenticatedAt <= now

LockInv == MutexInv /\ ValueInv /\ UpdateInv

LEMMA SafetyStep == TypeOK /\ SafetyInv /\ [Next]_vars => SafetyInv'
<1> SUFFICES ASSUME TypeOK, SafetyInv, [Next]_vars PROVE SafetyInv'
  OBVIOUS
<1> USE DEF TypeOK, Goto, redis, locals, history, SafetyInv, BornInv, CreatingInv,
            UnlistedOnlyByRace, HDelInv, SweepInv, Sweeping
<1>1. ASSUME NEW r \in Request, Begin(r) PROVE SafetyInv'
  <2>1. ASSUME NEW s \in Session, BeginCreate(r, s) PROVE SafetyInv'
    BY <2>1 DEF BeginCreate
  <2>2. ASSUME NEW s \in Session, BeginAccessWithToken(r, s) PROVE SafetyInv'
    BY <2>2 DEF BeginAccessWithToken, BeginUpdate
  <2>3. ASSUME NEW s \in Session, BeginAccessWithID(r, s) PROVE SafetyInv'
    BY <2>3 DEF BeginAccessWithID, BeginUpdate
  <2>4. ASSUME NEW s \in Session, BeginReauthenticate(r, s) PROVE SafetyInv'
    BY <2>4 DEF BeginReauthenticate, BeginUpdate
  <2>5. ASSUME NEW s \in Session, NEW sp \in SAMLProvider, BeginAddSP(r, s, sp) PROVE SafetyInv'
    BY <2>5 DEF BeginAddSP, BeginUpdate
  <2>6. ASSUME NEW o, NEW v \in SUBSET Session, BeginList(r, o, v) PROVE SafetyInv'
    BY <2>6 DEF BeginList
  <2> HIDE DEF TypeOK, Goto, redis, locals, history, SafetyInv, BornInv, CreatingInv,
            UnlistedOnlyByRace, HDelInv, SweepInv, Sweeping
  <2> QED
    <3>1. /\ {} \in SUBSET Session /\ Session \in SUBSET Session
          /\ \A s \in Session : {s} \in SUBSET Session /\ Session \ {s} \in SUBSET Session
      OBVIOUS
    <3> QED
      BY <1>1, <2>1, <2>2, <2>3, <2>4, <2>5, <2>6, <3>1 DEF Begin
<1>2. ASSUME NEW r \in Request, Step(r) PROVE SafetyInv'
  <2>1. CASE CreateSetNX(r)
    BY <2>1 DEF CreateSetNX
  <2>2. CASE AppendEventXAdd(r)
    BY <2>2 DEF AppendEventXAdd
  <2>3. CASE AppendEventExpireAt(r)
    BY <2>3 DEF AppendEventExpireAt
  <2>4. CASE GetByToken(r)
    BY <2>4 DEF GetByToken
  <2>5. CASE LockContext(r)
    BY <2>5 DEF LockContext
  <2>6. CASE LockGivesUp(r)
    BY <2>6 DEF LockGivesUp
  <2>7. CASE UpdateGet(r)
    BY <2>7 DEF UpdateGet
  <2>8. CASE UpdateHSet(r)
    BY <2>8 DEF UpdateHSet
  <2>9. CASE UpdateSetXX(r)
    BY <2>9 DEF UpdateSetXX
  <2>10. CASE UnlockContext(r)
    BY <2>10 DEF UnlockContext
  <2>11. ASSUME NEW s \in Session, ListGet(r, s) PROVE SafetyInv'
    BY <2>11 DEF ListGet
  <2>12. CASE ListHDel(r)
    BY <2>12 DEF ListHDel
  <2>13. ASSUME NEW s \in Session, DeleteDel(r, s) PROVE SafetyInv'
    BY <2>13 DEF DeleteDel, Remove
  <2>14. CASE DeleteHDel(r)
    BY <2>14 DEF DeleteHDel
  <2>15. CASE AllDeleted(r)
    BY <2>15 DEF AllDeleted
  <2>16. CASE CleanUpForDeletingUserID(r)
    BY <2>16 DEF CleanUpForDeletingUserID
  <2>17. CASE Return(r)
    BY <2>17 DEF Return, Forget
  <2> HIDE DEF TypeOK, Goto, redis, locals, history, SafetyInv, BornInv, CreatingInv,
            UnlistedOnlyByRace, HDelInv, SweepInv, Sweeping
  <2> QED
    BY <1>2, <2>1, <2>2, <2>3, <2>4, <2>5, <2>6, <2>7, <2>8, <2>9,
       <2>10, <2>11, <2>12, <2>13, <2>14, <2>15, <2>16, <2>17 DEF Step
<1>3. ASSUME NEW r \in Request, Crash(r) PROVE SafetyInv'
  BY <1>3 DEF Crash, Forget
<1>4. ASSUME NEW s \in Session, LeaseExpires(s) PROVE SafetyInv'
  BY <1>4 DEF LeaseExpires
<1>5. CASE Tick
  BY <1>5 DEF Tick, Remove
<1>6. CASE UNCHANGED vars
  BY <1>6 DEF vars
<1> QED
  BY <1>1, <1>2, <1>3, <1>4, <1>5, <1>6 DEF Next

LEMMA LockStep == ~LeaseMayExpire /\ TypeOK /\ SafetyInv /\ LockInv /\ [Next]_vars => LockInv'
<1> SUFFICES ASSUME ~LeaseMayExpire, TypeOK, SafetyInv, LockInv, [Next]_vars PROVE LockInv'
  OBVIOUS
<1> USE DEF TypeOK, Goto, redis, locals, history, LockInv, MutexInv, ValueInv, UpdateInv,
            HoldsMutex
<1>1. ASSUME NEW r \in Request, Begin(r) PROVE LockInv'
  <2>1. ASSUME NEW s \in Session, BeginCreate(r, s) PROVE LockInv'
    BY <2>1 DEF BeginCreate, SessionData, Time
  <2>2. ASSUME NEW s \in Session, BeginAccessWithToken(r, s) PROVE LockInv'
    BY <2>2 DEF BeginAccessWithToken, BeginUpdate
  <2>3. ASSUME NEW s \in Session, BeginAccessWithID(r, s) PROVE LockInv'
    BY <2>3 DEF BeginAccessWithID, BeginUpdate
  <2>4. ASSUME NEW s \in Session, BeginReauthenticate(r, s) PROVE LockInv'
    BY <2>4 DEF BeginReauthenticate, BeginUpdate
  <2>5. ASSUME NEW s \in Session, NEW sp \in SAMLProvider, BeginAddSP(r, s, sp) PROVE LockInv'
    BY <2>5 DEF BeginAddSP, BeginUpdate
  <2>6. ASSUME NEW o, NEW v \in SUBSET Session, BeginList(r, o, v) PROVE LockInv'
    BY <2>6 DEF BeginList
  <2> HIDE DEF TypeOK, Goto, redis, locals, history, LockInv, MutexInv, ValueInv, UpdateInv,
            HoldsMutex
  <2> QED
    <3>1. /\ {} \in SUBSET Session /\ Session \in SUBSET Session
          /\ \A s \in Session : {s} \in SUBSET Session /\ Session \ {s} \in SUBSET Session
      OBVIOUS
    <3> QED
      BY <1>1, <2>1, <2>2, <2>3, <2>4, <2>5, <2>6, <3>1 DEF Begin
<1>2. ASSUME NEW r \in Request, Step(r) PROVE LockInv'
  <2>1. CASE CreateSetNX(r)
    <3>1. pc[r] = "create.setnx" /\ op[r] = "create"
          /\ sid[r] \notin born /\ stored \subseteq born
      BY <2>1 DEF CreateSetNX, SafetyInv, CreatingInv, BornInv
    <3>2. /\ UNCHANGED <<now, mutex, op, sid, ses, provider>> /\ born \subseteq born'
          /\ \/ /\ pc' = [pc EXCEPT ![r] = "xadd"] /\ stored' = stored \cup {sid[r]}
                /\ value' = [value EXCEPT ![sid[r]] = ses[r]]
             \/ pc' = [pc EXCEPT ![r] = "failed"] /\ UNCHANGED <<stored, value>>
      BY <2>1, <3>1 DEF CreateSetNX
    <3>4. MutexInv'
      BY <3>1, <3>2
    <3>5. ValueInv'
      BY <3>1, <3>2 DEF SessionData
    <3>6. UpdateInv'
      BY <3>1, <3>2
    <3> QED
      BY <3>4, <3>5, <3>6
  <2>2. CASE AppendEventXAdd(r)
    BY <2>2 DEF AppendEventXAdd
  <2>3. CASE AppendEventExpireAt(r)
    BY <2>3 DEF AppendEventExpireAt
  <2>4. CASE GetByToken(r)
    BY <2>4 DEF GetByToken
  <2>5. CASE LockContext(r)
    BY <2>5 DEF LockContext
  <2>6. CASE LockGivesUp(r)
    BY <2>6 DEF LockGivesUp
  <2>7. CASE UpdateGet(r)
    BY <2>7 DEF UpdateGet
  <2>8. CASE UpdateHSet(r)
    <3>1. pc[r] = "update.hset" /\ ses' = [ses EXCEPT ![r] = Mutated(r)]
      BY <2>8 DEF UpdateHSet
    <3>2. /\ op[r] \in {"access", "reauthenticate", "addSP"}
          /\ sid[r] \in Session /\ ses[r] \in SessionData /\ now \in Time
          /\ sid[r] \in stored => ses[r] = value[sid[r]]
      BY <3>1, <2>8
    <3>3. sid[r] \in stored => Changed(op[r], Mutated(r), value[sid[r]], provider[r])
                              /\ Mutated(r).authenticatedAt <= now
      <4>1. CASE op[r] = "access"
        BY <4>1, <3>2 DEF Mutated, Changed, SessionData, Time
      <4>2. CASE op[r] = "reauthenticate"
        BY <4>2, <3>2 DEF Mutated, Changed, SessionData, Time
      <4>3. CASE op[r] = "addSP"
        BY <4>3, <3>2 DEF Mutated, Changed, SessionData, Time
      <4> QED
        BY <3>2, <4>1, <4>2, <4>3
    <3> QED
      BY <2>8, <3>3 DEF UpdateHSet
  <2>9. CASE UpdateSetXX(r)
    <3>1. /\ pc[r] = "update.setxx" /\ sid[r] \in Session
          /\ UNCHANGED <<now, stored, mutex, op, sid, ses, provider, born>>
          /\ \E to \in {"xadd", "unlock"} :
                pc' = [pc EXCEPT ![r] = to] /\ (to = "xadd" => op[r] = "access")
          /\ \/ UNCHANGED value
             \/ sid[r] \in stored /\ value' = [value EXCEPT ![sid[r]] = ses[r]]
      BY <2>9 DEF UpdateSetXX
    <3>2. MutexInv'
      BY <3>1
    <3>3. ValueInv'
      <4>1. CASE UNCHANGED value
        BY <3>1, <4>1
      <4>2. CASE sid[r] \in stored /\ value' = [value EXCEPT ![sid[r]] = ses[r]]
        <5>1. ses[r].authenticatedAt <= now
          BY <3>1, <4>2
        <5> QED
          BY <3>1, <4>2, <5>1
      <4> QED
        BY <3>1, <4>1, <4>2
    <3>4. UpdateInv'
      BY <3>1
    <3> QED
      BY <3>2, <3>3, <3>4
  <2>10. CASE UnlockContext(r)
    BY <2>10 DEF UnlockContext
  <2>11. ASSUME NEW s \in Session, ListGet(r, s) PROVE LockInv'
    BY <2>11 DEF ListGet
  <2>12. CASE ListHDel(r)
    BY <2>12 DEF ListHDel
  <2>13. ASSUME NEW s \in Session, DeleteDel(r, s) PROVE LockInv'
    <3>1. now \in Nat /\ Blank.authenticatedAt = 0
      BY DEF Time, Blank
    <3>2. MutexInv'
      BY <2>13 DEF DeleteDel
    <3>3. ValueInv'
      BY <2>13, <3>1 DEF DeleteDel, Remove
    <3>4. UpdateInv'
      BY <2>13 DEF DeleteDel, Remove
    <3> QED
      BY <3>2, <3>3, <3>4
  <2>14. CASE DeleteHDel(r)
    BY <2>14 DEF DeleteHDel
  <2>15. CASE AllDeleted(r)
    BY <2>15 DEF AllDeleted
  <2>16. CASE CleanUpForDeletingUserID(r)
    BY <2>16 DEF CleanUpForDeletingUserID
  <2>17. CASE Return(r)
    BY <2>17 DEF Return, Forget
  <2> HIDE DEF TypeOK, Goto, redis, locals, history, LockInv, MutexInv, ValueInv, UpdateInv,
            HoldsMutex
  <2> QED
    BY <1>2, <2>1, <2>2, <2>3, <2>4, <2>5, <2>6, <2>7, <2>8, <2>9,
       <2>10, <2>11, <2>12, <2>13, <2>14, <2>15, <2>16, <2>17 DEF Step
<1>3. ASSUME NEW r \in Request, Crash(r) PROVE LockInv'
  BY <1>3 DEF Crash, Forget
<1>4. ASSUME NEW s \in Session, LeaseExpires(s) PROVE LockInv'
  BY <1>4 DEF LeaseExpires
<1>5. CASE Tick
  <2>1. MutexInv'
    BY <1>5 DEF Tick
  <2>2. now \in Nat /\ now' = now + 1 /\ \A s \in Session : value[s].authenticatedAt \in Nat
                   /\ \A r \in Request : ses[r].authenticatedAt \in Nat
    BY <1>5 DEF Tick, SessionData, Time
  <2> DEFINE gone == {s \in stored : ExpireAt(value[s]) <= now + 1}
  <2>5. /\ stored' = stored \ gone
        /\ value' = [s \in Session |-> IF s \in gone THEN Blank ELSE value[s]]
        /\ UNCHANGED <<pc, ses>> /\ Blank.authenticatedAt = 0
    BY <1>5 DEF Tick, Remove, Blank
  <2>3. ValueInv'
    <3> HIDE DEF gone
    <3> QED
      BY <2>2, <2>5
  <2>4. UpdateInv'
    BY <1>5, <2>2 DEF Tick, Remove
  <2> QED
    BY <2>1, <2>3, <2>4
<1>6. CASE UNCHANGED vars
  BY <1>6 DEF vars
<1> QED
  BY <1>1, <1>2, <1>3, <1>4, <1>5, <1>6 DEF Next

----------------------------------------------------------------------------
(* The theorems *)

LEMMA InvInit == Init => SafetyInv /\ LockInv
  BY DEF Init, SafetyInv, BornInv, CreatingInv, UnlistedOnlyByRace, HDelInv, SweepInv,
     Sweeping, LockInv, MutexInv, HoldsMutex, ValueInv, UpdateInv, Blank

LEMMA SafetyInvariant == Spec => []SafetyInv
  BY InvInit, SafetyStep, TypeCorrect, PTL DEF Spec

LEMMA LockInvariant == ~LeaseMayExpire => (Spec => []LockInv)
<1> SUFFICES ASSUME ~LeaseMayExpire PROVE Spec => []LockInv
  OBVIOUS
<1>1. TypeOK /\ SafetyInv /\ LockInv /\ [Next]_vars => LockInv'
  BY LockStep
<1> QED
  BY <1>1, InvInit, SafetyInvariant, TypeCorrect, PTL DEF Spec

\* Every session that exists is in the user's session list, except those a List raced
\* with and those whose list was deleted with the user (store_redis.go, Create / List).
THEOREM UnlistedOnlyByRaceThm == Spec => []UnlistedOnlyByRace
<1>1. SafetyInv => UnlistedOnlyByRace
  BY DEF SafetyInv
<1> QED
  BY <1>1, SafetyInvariant, PTL

\* A termination that returns has ended every session it was about (same exceptions).
THEOREM TerminationIsCompleteThm == Spec => []TerminationIsComplete
<1>1. SafetyInv => TerminationIsComplete
  BY DEF SafetyInv, SweepInv, TerminationIsComplete
<1> QED
  BY <1>1, SafetyInvariant, PTL

\* Only four commands write to or remove a session key.
LEMMA WhoWrites ==
    ASSUME [Next]_vars
    PROVE  \/ UNCHANGED <<stored, value, born>>
           \/ Tick
           \/ \E r \in Request :
                 CreateSetNX(r) \/ UpdateSetXX(r) \/ \E s \in Session : DeleteDel(r, s)
<1>1. CASE \E r \in Request : Begin(r)
  BY <1>1 DEF Begin, BeginCreate, BeginAccessWithToken, BeginAccessWithID,
     BeginReauthenticate, BeginAddSP, BeginUpdate, BeginList, redis, history
<1>2. CASE \E r \in Request : Step(r)
  BY <1>2 DEF Step, AppendEventXAdd, AppendEventExpireAt, GetByToken, LockContext,
     LockGivesUp, UpdateGet, UpdateHSet, UnlockContext, ListGet, ListHDel, DeleteHDel,
     AllDeleted, CleanUpForDeletingUserID, Return, Forget, redis, history
<1>3. CASE \E r \in Request : Crash(r)
  BY <1>3 DEF Crash, Forget
<1>4. CASE \E s \in Session : LeaseExpires(s)
  BY <1>4 DEF LeaseExpires, history
<1> QED
  BY <1>1, <1>2, <1>3, <1>4 DEF Next, vars, redis, history

\* A deleted or expired session never exists again, whoever still holds a copy of it
\* and whether or not the mutex works: SETNX is for new UUIDs, SET XX for existing keys.
THEOREM NoResurrectionThm == Spec => NoResurrection
<1>1. ASSUME TypeOK, SafetyInv, [Next]_vars, NEW s \in born \ stored PROVE s \notin stored'
  <2>1. CASE UNCHANGED <<stored, value, born>>
    BY <2>1
  <2>2. CASE Tick
    BY <2>2 DEF Tick, Remove
  <2>3. ASSUME NEW r \in Request, CreateSetNX(r) PROVE s \notin stored'
    BY <2>3, <1>1 DEF CreateSetNX, Goto, SafetyInv, CreatingInv
  <2>4. ASSUME NEW r \in Request, UpdateSetXX(r) PROVE s \notin stored'
    BY <2>4 DEF UpdateSetXX
  <2>5. ASSUME NEW r \in Request, NEW q \in Session, DeleteDel(r, q) PROVE s \notin stored'
    BY <2>5 DEF DeleteDel, Remove
  <2> QED
    BY <1>1, <2>1, <2>2, <2>3, <2>4, <2>5, WhoWrites
<1>2. TypeOK /\ SafetyInv /\ [Next]_vars => [\A s \in born \ stored : s \notin stored']_vars
  BY <1>1
<1> QED
  BY <1>2, TypeCorrect, SafetyInvariant, PTL DEF Spec, NoResurrection

\* With leases that outlive their owners, each command is one atomic step of
\* SessionLifecycle or leaves it unchanged.
LEMMA LifecycleStep ==
    ASSUME TypeOK, SafetyInv, LockInv, SafetyInv', TypeOK', [Next]_vars
    PROVE  [Lifecycle!Next]_(Lifecycle!vars)
<1> USE DEF Lifecycle!vars
<1>a. ASSUME NEW S \in SUBSET Session, Lifecycle!End(S) PROVE Lifecycle!Next
  BY <1>a DEF Lifecycle!Next
<1>b. ASSUME NEW s \in Session, NEW at \in 0 .. MaxTime,
             Lifecycle!Create(s, at) \/ Lifecycle!Reauthenticate(s, at)
      PROVE  Lifecycle!Next
  BY <1>b DEF Lifecycle!Next
<1>c. ASSUME NEW s \in Session, NEW sp \in SAMLProvider, Lifecycle!AddParticipant(s, sp)
      PROVE  Lifecycle!Next
  BY <1>c DEF Lifecycle!Next
<1> SUFFICES Lifecycle!Next \/ UNCHANGED <<stored, value, born>>
                            \/ UNCHANGED Lifecycle!vars
  OBVIOUS
<1>1. stored \subseteq born /\ stored' \subseteq born'
  BY DEF SafetyInv, BornInv
<1>2. CASE Tick
  <2> DEFINE gone == {s \in stored : ExpireAt(value[s]) <= now + 1}
  <2>1. /\ gone \in SUBSET Session /\ gone \subseteq stored
        /\ stored' = stored \ gone /\ UNCHANGED born
        /\ value' = [s \in Session |-> IF s \in gone THEN Blank ELSE value[s]]
    BY <1>2 DEF Tick, Remove, TypeOK, history
  <2>2. PICK S \in SUBSET Session : S = gone
    BY <2>1
  <2> HIDE DEF gone
  <2>3. Lifecycle!End(S)
    BY <1>1, <2>1, <2>2 DEF Lifecycle!End, Blank
  <2> QED
    BY <2>3, <1>a
<1>3. ASSUME NEW r \in Request, CreateSetNX(r)
      PROVE  Lifecycle!Next \/ UNCHANGED <<stored, value, born>>
  <2>1. CASE ExpireAt(ses[r]) > now
    <3>1. /\ sid[r] \in Session /\ sid[r] \notin born
          /\ ses[r].participants = {} /\ ses[r].authenticatedAt \in 0 .. MaxTime
      BY <1>3 DEF CreateSetNX, Goto, TypeOK, SafetyInv, CreatingInv, LockInv, ValueInv,
         SessionData, Time
    <3>2. /\ stored' = stored \cup {sid[r]} /\ born' = born \cup {sid[r]}
          /\ value' = [value EXCEPT ![sid[r]] = ses[r]]
      BY <1>1, <1>3, <2>1, <3>1 DEF CreateSetNX, TypeOK
    <3>3. value[sid[r]] = Blank
      BY <1>1, <3>1 DEF LockInv, ValueInv
    <3>4. PICK s \in Session, at \in 0 .. MaxTime :
                s = sid[r] /\ at = ses[r].authenticatedAt
      BY <3>1
    <3>5. \A q \in Session :
              /\ value'[q].participants = value[q].participants
              /\ value'[q].authenticatedAt = IF q = s THEN at ELSE value[q].authenticatedAt
      <4>1. value \in [Session -> SessionData] /\ Blank.participants = {}
        BY DEF TypeOK, Blank
      <4>2. value' = [value EXCEPT ![s] = ses[r]] /\ value[s].participants = {}
        BY <3>2, <3>3, <3>4, <4>1
      <4> QED
        BY <3>1, <3>4, <4>1, <4>2
    <3>6. Lifecycle!Create(s, at)
      <4> DEFINE p == [q \in Session |-> IF q \in stored THEN "live"
                                         ELSE IF q \in born THEN "ended" ELSE "unborn"]
      <4>1. p[s] = "unborn" /\ p' = [p EXCEPT ![s] = "live"]
        BY <1>1, <3>1, <3>2, <3>4
      <4>2. [q \in Session |-> value'[q].authenticatedAt]
               = [[q \in Session |-> value[q].authenticatedAt] EXCEPT ![s] = at]
        BY <3>5
      <4>3. [q \in Session |-> value'[q].participants]
               = [q \in Session |-> value[q].participants]
        BY <3>5
      <4> QED
        BY <4>1, <4>2, <4>3 DEF Lifecycle!Create
    <3> QED
      BY <3>6, <1>b
  <2>2. CASE ~(ExpireAt(ses[r]) > now)
    BY <1>3, <2>2 DEF CreateSetNX
  <2> QED
    BY <2>1, <2>2
<1>4. ASSUME NEW r \in Request, UpdateSetXX(r)
      PROVE Lifecycle!Next \/ UNCHANGED <<stored, value, born>> \/ UNCHANGED Lifecycle!vars
  <2>1. CASE value' = value
    BY <1>4, <2>1 DEF UpdateSetXX, history
  <2>2. CASE value' # value
    <3>1. /\ sid[r] \in stored /\ sid[r] \in Session /\ UNCHANGED <<stored, born>>
          /\ value' = [value EXCEPT ![sid[r]] = ses[r]] /\ pc[r] = "update.setxx"
          /\ value \in [Session -> SessionData] /\ provider[r] \in SAMLProvider
      BY <1>4, <2>2 DEF UpdateSetXX, Goto, TypeOK, history
    <3>2. /\ op[r] \in {"access", "reauthenticate", "addSP"}
          /\ Changed(op[r], ses[r], value[sid[r]], provider[r])
          /\ ses[r].authenticatedAt \in 0 .. MaxTime
      BY <3>1 DEF LockInv, UpdateInv, TypeOK, SessionData, Time
    <3>3. CASE op[r] = "access"
      BY <3>1, <3>2, <3>3 DEF Changed
    <3>4. CASE op[r] = "reauthenticate"
      <4>1. PICK s \in Session, at \in 0 .. MaxTime :
                  s = sid[r] /\ at = ses[r].authenticatedAt
        BY <3>1, <3>2
      <4>2. Lifecycle!Reauthenticate(s, at)
        BY <3>1, <3>2, <3>4, <4>1 DEF Changed, Lifecycle!Reauthenticate
      <4> QED
        BY <4>2, <1>b
    <3>5. CASE op[r] = "addSP"
      <4>1. PICK s \in Session, sp \in SAMLProvider : s = sid[r] /\ sp = provider[r]
        BY <3>1
      <4>2. Lifecycle!AddParticipant(s, sp)
        BY <3>1, <3>2, <3>5, <4>1 DEF Changed, Lifecycle!AddParticipant
      <4> QED
        BY <4>2, <1>c
    <3> QED
      BY <3>2, <3>3, <3>4, <3>5
  <2> QED
    BY <2>1, <2>2
<1>5. ASSUME NEW r \in Request, NEW s \in Session, DeleteDel(r, s)
      PROVE Lifecycle!Next \/ UNCHANGED <<stored, value, born>>
  <2>1. /\ stored' = stored \ {s} /\ UNCHANGED born
        /\ value' = [q \in Session |-> IF q \in {s} THEN Blank ELSE value[q]]
    BY <1>5 DEF DeleteDel, Remove, history
  <2>2. CASE s \in stored
    <3>1. Lifecycle!End({s})
      BY <1>1, <2>1, <2>2 DEF Lifecycle!End, Blank
    <3> QED
      BY <3>1, <1>a
  <2>3. CASE s \notin stored
    <3>1. value[s] = Blank
      BY <2>3 DEF LockInv, ValueInv
    <3> QED
      BY <2>1, <2>3, <3>1 DEF TypeOK
  <2> QED
    BY <2>2, <2>3
<1> QED
  BY <1>2, <1>3, <1>4, <1>5, WhoWrites

\* The store implements SessionLifecycle as long as no mutex lease ends while its owner
\* still runs.
THEOREM ImplementsLifecycleThm == ~LeaseMayExpire => (Spec => ImplementsLifecycle)
<1> SUFFICES ASSUME ~LeaseMayExpire PROVE Spec => ImplementsLifecycle
  OBVIOUS
<1>1. Init => Lifecycle!Init
  BY DEF Init, Lifecycle!Init, Blank
<1>2. TypeOK /\ SafetyInv /\ LockInv /\ TypeOK' /\ SafetyInv' /\ [Next]_vars
        => [Lifecycle!Next]_(Lifecycle!vars)
  BY LifecycleStep
<1> QED
  BY <1>1, <1>2, TypeCorrect, SafetyInvariant, LockInvariant, PTL
     DEF Spec, ImplementsLifecycle, Lifecycle!Spec

\* Under the same condition no update is lost: what one request adds to a session or how
\* it renews it survives the write-back of every other request.
THEOREM NoLostUpdateThm == ~LeaseMayExpire => (Spec => NoLostUpdate)
<1> SUFFICES ASSUME ~LeaseMayExpire PROVE Spec => NoLostUpdate
  OBVIOUS
<1> DEFINE Kept == \A s \in stored \cap stored' :
                      /\ value[s].participants \subseteq value'[s].participants
                      /\ value[s].authenticatedAt <= value'[s].authenticatedAt
<1>1. ASSUME TypeOK, SafetyInv, LockInv, TypeOK', SafetyInv', [Next]_vars PROVE Kept
  <2>1. [Lifecycle!Next]_(Lifecycle!vars)
    BY <1>1, LifecycleStep
  <2>2. SUFFICES ASSUME NEW s \in stored, s \in stored'
                 PROVE  /\ value[s].participants \subseteq value'[s].participants
                        /\ value[s].authenticatedAt <= value'[s].authenticatedAt
    OBVIOUS
  <2>3. /\ s \in Session /\ value[s].authenticatedAt \in Nat
        /\ value'[s].authenticatedAt \in Nat
    BY <1>1 DEF TypeOK, SessionData, Time
  <2>4. ASSUME NEW q \in Session, NEW at \in 0 .. MaxTime, Lifecycle!Create(q, at)
        PROVE  UNCHANGED <<value[s].participants, value[s].authenticatedAt>>
    <3>1. /\ q # s
          /\ [z \in Session |-> value'[z].participants][s]
                = [z \in Session |-> value[z].participants][s]
          /\ [z \in Session |-> value'[z].authenticatedAt][s]
                = [z \in Session |-> value[z].authenticatedAt][s]
      BY <2>2, <2>3, <2>4 DEF Lifecycle!Create
    <3> QED
      BY <2>3, <3>1
  <2>5. ASSUME NEW q \in Session, NEW at \in 0 .. MaxTime, Lifecycle!Reauthenticate(q, at)
        PROVE  /\ value[s].participants = value'[s].participants
               /\ value[s].authenticatedAt <= value'[s].authenticatedAt
    <3>1. /\ [z \in Session |-> value'[z].participants][s]
                = [z \in Session |-> value[z].participants][s]
          /\ q = s => [z \in Session |-> value[z].authenticatedAt][q] <= at
          /\ [z \in Session |-> value'[z].authenticatedAt][s]
                = IF q = s THEN at ELSE [z \in Session |-> value[z].authenticatedAt][s]
      BY <2>2, <2>3, <2>5 DEF Lifecycle!Reauthenticate
    <3> QED
      BY <2>3, <3>1
  <2>6. ASSUME NEW q \in Session, NEW sp \in SAMLProvider, Lifecycle!AddParticipant(q, sp)
        PROVE  /\ value[s].participants \subseteq value'[s].participants
               /\ value[s].authenticatedAt = value'[s].authenticatedAt
    BY <2>2, <2>3, <2>6 DEF Lifecycle!AddParticipant
  <2>7. ASSUME NEW S \in SUBSET Session, Lifecycle!End(S)
        PROVE  UNCHANGED <<value[s].participants, value[s].authenticatedAt>>
    BY <2>2, <2>3, <2>7 DEF Lifecycle!End
  <2>8. CASE UNCHANGED Lifecycle!vars
    BY <2>2, <2>3, <2>8 DEF Lifecycle!vars
  <2> QED
    BY <2>1, <2>3, <2>4, <2>5, <2>6, <2>7, <2>8 DEF Lifecycle!Next
<1>2. TypeOK /\ SafetyInv /\ LockInv /\ TypeOK' /\ SafetyInv' /\ [Next]_vars => [Kept]_vars
  BY <1>1
<1> QED
  BY <1>2, TypeCorrect, SafetyInvariant, LockInvariant, PTL DEF Spec, NoLostUpdate

----------------------------------------------------------------------------
(* Streams of access events *)

\* Who has appended to a stream stays where it is until it sets the TTL, and then the stream
\* has one, whoever else is about to set it.
LEMMA EndlessStep == TypeOK /\ EndlessOnlyInFlight /\ [Next]_vars => EndlessOnlyInFlight'
  <1> SUFFICES ASSUME TypeOK, EndlessOnlyInFlight, [Next]_vars,
                      crashes' = 0, NEW s \in endless'
               PROVE  \E r \in Request : pc'[r] = "expireat" /\ sid'[r] = s
    BY DEF EndlessOnlyInFlight
  <1>1. pc \in [Request -> Command] /\ sid \in [Request -> Session] /\ crashes \in Nat
    BY DEF TypeOK
  <1>2. ASSUME crashes' = crashes, s \in endless,
               \A r \in Request : pc[r] = "expireat" => pc'[r] = "expireat" /\ sid'[r] = sid[r]
        PROVE  \E r \in Request : pc'[r] = "expireat" /\ sid'[r] = s
    BY <1>2 DEF EndlessOnlyInFlight
  <1>3. CASE Tick \/ UNCHANGED vars \/ \E t \in Session : LeaseExpires(t)
    BY <1>2, <1>3 DEF Tick, LeaseExpires, vars, redis, locals, history, Remove
  <1>4. ASSUME NEW r \in Request, Crash(r) PROVE FALSE
    BY <1>1, <1>4 DEF Crash
  <1>5. ASSUME NEW r \in Request, Begin(r)
        PROVE  \E q \in Request : pc'[q] = "expireat" /\ sid'[q] = s
    <2>1. /\ crashes' = crashes /\ endless' = endless
          /\ \A q \in Request : pc[q] = "expireat" => pc'[q] = "expireat" /\ sid'[q] = sid[q]
      BY <1>1, <1>5 DEF Begin, BeginCreate, BeginAccessWithToken, BeginAccessWithID,
                        BeginReauthenticate, BeginAddSP, BeginUpdate, BeginList, Goto, redis,
                        history
    <2> QED
      BY <1>2, <2>1
  <1>6. ASSUME NEW r \in Request, Step(r)
        PROVE  \E q \in Request : pc'[q] = "expireat" /\ sid'[q] = s
    <2>1. CASE AppendEventXAdd(r)
      <3>1. /\ pc[r] = "xadd" /\ pc'[r] = "expireat" /\ sid' = sid /\ crashes' = crashes
            /\ s \in endless \/ s = sid[r]
        BY <1>1, <2>1 DEF AppendEventXAdd, Goto, locals
      <3>2. \A q \in Request : pc[q] = "expireat" => pc'[q] = "expireat"
        BY <1>1, <2>1 DEF AppendEventXAdd, Goto
      <3> QED
        BY <1>2, <3>1, <3>2
    <2>2. CASE AppendEventExpireAt(r)
      <3>1. s \in endless /\ s # sid[r] /\ sid' = sid /\ crashes' = crashes
        BY <2>2 DEF AppendEventExpireAt, locals
      <3>2. \A q \in Request \ {r} : pc[q] = "expireat" => pc'[q] = "expireat"
        BY <1>1, <2>2 DEF AppendEventExpireAt, Goto
      <3>3. PICK q \in Request : pc[q] = "expireat" /\ sid[q] = s
        BY <3>1 DEF EndlessOnlyInFlight
      <3> QED
        BY <3>1, <3>2, <3>3
    <2>3. CASE ~AppendEventXAdd(r) /\ ~AppendEventExpireAt(r)
      <3>1. /\ crashes' = crashes /\ endless' = endless
            /\ \A q \in Request : pc[q] = "expireat" => pc'[q] = "expireat" /\ sid'[q] = sid[q]
        BY <1>1, <1>6, <2>3
           DEF Step, CreateSetNX, GetByToken, LockContext, LockGivesUp, UpdateGet, UpdateHSet,
               UpdateSetXX, UnlockContext, ListGet, ListHDel, DeleteDel, DeleteHDel, AllDeleted,
               CleanUpForDeletingUserID, Return, Forget, Remove, Goto, redis, locals, history
      <3> QED
        BY <1>2, <3>1
    <2> QED
      BY <2>1, <2>2, <2>3
  <1> QED
    BY <1>3, <1>4, <1>5, <1>6 DEF Next

\* EventStoreRedis.AppendEvent (event_store_redis.go): unless a request dies between XADD and
\* EXPIREAT, no stream stays behind without a TTL, however appends to it interleave.
THEOREM EndlessOnlyInFlightThm == Spec => []EndlessOnlyInFlight
  <1>1. Init => EndlessOnlyInFlight
    BY DEF Init, EndlessOnlyInFlight
  <1> QED
    BY <1>1, EndlessStep, TypeCorrect, PTL DEF Spec
=============================================================================

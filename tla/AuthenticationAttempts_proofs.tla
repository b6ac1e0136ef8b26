--------------------- MODULE AuthenticationAttempts_proofs ---------------------
(***************************************************************************)
(* What AuthenticationAttempts guarantees for any number of requests, any   *)
(* rate limits, weights and configurations, and any lockout.                *)
(***************************************************************************)
EXTENDS AuthenticationAttempts, SumTheorems

LBP == INSTANCE LeakyBucket_proofs WITH
           Capacity <- [b \in Bucket |-> Tolerance(Limits[b[2]])],
           Amount <- Amounts,
           level <- [b \in Bucket |-> Ahead(b)]

USE LockoutAssumption, LimitAssumption

----------------------------------------------------------------------------
(* Arithmetic of gcra.go *)

Limit == [period : Nat \ {0}, burst : Nat \ {0}]

\* Every number that the script computes from a limit is a whole number with the right sign.
LEMMA LimitFacts ==
    ASSUME NEW limit \in Limit
    PROVE  /\ EmissionInterval(limit) \in Nat
           /\ Tolerance(limit) \in Nat
           /\ EmissionInterval(limit) <= Tolerance(limit)
  <1>1. limit.period \in Nat /\ limit.burst \in Nat /\ limit.burst >= 1
    BY DEF Limit
  <1> DEFINE e == EmissionInterval(limit)
  <1>0. \A p \in Nat, d \in Nat \ {0} : p \div d \in Nat
    OBVIOUS
  <1>2. e \in Nat
    BY <1>0 DEF EmissionInterval, Limit
  <1>3. \A n, m \in Nat : m >= 1 => n * m \in Nat /\ n <= n * m
    OBVIOUS
  <1> HIDE DEF e
  <1>4. e * limit.burst \in Nat /\ e <= e * limit.burst
    BY <1>1, <1>2, <1>3
  <1> QED
    BY <1>2, <1>4 DEF e, Tolerance

\* A call moves the arrival time forward, a cancellation moves it back.
LEMMA IncrementFacts ==
    ASSUME NEW limit \in Limit, NEW h \in Nat
    PROVE  /\ Increment(limit, h) \in Nat
           /\ Increment(limit, -h) \in Int /\ Increment(limit, -h) <= 0
           /\ h = 0 => Increment(limit, h) = 0 /\ Increment(limit, -h) = 0
  <1> DEFINE e == EmissionInterval(limit)
  <1>1. e \in Nat
    BY LimitFacts
  <1> HIDE DEF e
  <1>2. e * h \in Nat /\ e * (-h) = -(e * h)
    BY <1>1
  <1>3. (h = 0 => e * h = 0)
    BY <1>1
  <1> DEFINE p == e * h
  <1> HIDE DEF p
  <1>4. p \in Nat
    BY <1>2 DEF p
  <1>5. (p + 1) \div 2 \in Nat /\ (-p + 1) \div 2 \in Int /\ (-p + 1) \div 2 <= 0
    BY <1>4
  <1>6. p = 0 => (p + 1) \div 2 = 0 /\ (-p + 1) \div 2 = 0
    BY <1>4
  <1> QED
    BY <1>2, <1>3, <1>5, <1>6 DEF e, p, Increment

\* The same, for tokens that are taken and that are given back
LEMMA IncrementIsInt ==
    ASSUME NEW limit \in Limit, NEW h \in Nat
    PROVE  Increment(limit, h) \in Int /\ Increment(limit, -h) \in Int
  <1>1. Increment(limit, h) \in Nat
    BY IncrementFacts
  <1>2. Increment(limit, -h) \in Int
    BY IncrementFacts
  <1> QED
    BY <1>1, <1>2

\* A whole token costs one emission interval, and what fits into a burst fits into the
\* tolerance, in spite of the rounding.
LEMMA TokenFacts ==
    ASSUME NEW limit \in Limit, NEW h \in Nat
    PROVE  /\ Increment(limit, 2) = EmissionInterval(limit)
           /\ h <= 2 * limit.burst => Increment(limit, h) <= Tolerance(limit)
           /\ (Larger(2, h) * EmissionInterval(limit)) \div 2 \in Nat
           /\ (Larger(2, h) * EmissionInterval(limit)) \div 2 >= EmissionInterval(limit)
  <1> DEFINE e == EmissionInterval(limit)
             n == limit.burst
             m == Larger(2, h)
  <1>1. e \in Nat /\ n \in Nat /\ m \in Nat /\ m >= 2
    BY LimitFacts DEF Limit, Larger
  <1> HIDE DEF e, n, m
  <1>2. (e * 2 + 1) \div 2 = e
    BY <1>1
  <1>3. ASSUME h <= 2 * n PROVE (e * h + 1) \div 2 <= e * n
    <2> DEFINE p == e * h
               q == e * n
    <2>1. p \in Nat /\ q \in Nat
      BY <1>1
    <2>2. e * h <= e * (2 * n)
      BY <1>1, <1>3
    <2>3. e * (2 * n) = 2 * (e * n)
      BY <1>1
    <2>4. p <= 2 * q
      BY <2>2, <2>3
    <2> HIDE DEF p, q
    <2>5. (p + 1) \div 2 <= q
      BY <2>1, <2>4
    <2> QED
      BY <2>5 DEF p, q
  <1>4. (m * e) \div 2 \in Nat /\ (m * e) \div 2 >= e
    <2> DEFINE p == m * e
    <2>1. p \in Nat /\ 2 * e <= p
      BY <1>1
    <2> HIDE DEF p
    <2>2. p \div 2 \in Nat /\ p \div 2 >= e
      BY <1>1, <2>1
    <2> QED
      BY <2>2 DEF p
  <1> QED
    BY <1>2, <1>3, <1>4 DEF e, n, m, Increment, Tolerance

\* The limit of a bucket
LEMMA BucketLimit ==
    ASSUME NEW b \in Bucket
    PROVE  b[1] \in Contributor /\ b[2] \in DOMAIN Limits /\ Limits[b[2]] \in Limit
  <1>1. b[1] \in Contributor /\ b[2] \in DOMAIN Limits
    BY DEF Bucket
  <1>2. Limits \in Seq(Limit)
    BY DEF Limit
  <1>3. \A i \in DOMAIN Limits : Limits[i] \in Limit
    BY <1>2
  <1> QED
    BY <1>1, <1>3

\* A non-empty set of natural numbers has a least one.
LEMMA LeastExists ==
    ASSUME NEW S \in SUBSET Nat, S # {}
    PROVE  \E j \in S : \A k \in S : j <= k
  <1> DEFINE R == OpToRel(<, Nat)
  <1>1. IsWellFoundedOn(R, Nat)
    BY NatLessThanWellFounded
  <1>2. \A k, j \in Nat : k < j => <<k, j>> \in R
    BY DEF OpToRel
  <1> HIDE DEF R
  <1>3. PICK j \in S : \A k \in S : ~ (<<k, j>> \in R)
    BY <1>1, WFMin
  <1>4. \A k \in S : ~ (k < j)
    BY <1>2, <1>3
  <1>5. \A k \in S : j <= k
    BY <1>4
  <1> QED
    BY <1>5

\* The loops over the limits stay within them.
LEMMA NextLimitType ==
    ASSUME NEW i \in Nat, config \in Config
    PROVE  NextLimit(i) \in 1 .. Len(Limits) + 1
  <1> DEFINE next == {j \in config.enabled : j > i}
             least == CHOOSE j \in next : \A k \in next : j <= k
  <1>1. Len(Limits) \in Nat /\ config.enabled \subseteq 1 .. Len(Limits)
    OBVIOUS
  <1>2. NextLimit(i) = IF next = {} THEN Len(Limits) + 1 ELSE least
    BY DEF NextLimit
  <1>3. next \subseteq 1 .. Len(Limits)
    BY <1>1
  <1>4. ASSUME next # {} PROVE least \in next
    <2>1. next \in SUBSET Nat
      BY <1>1, <1>3
    <2>2. \E j \in next : \A k \in next : j <= k
      BY <1>4, <2>1, LeastExists
    <2> QED
      BY <2>2
  <1>5. CASE next = {}
    BY <1>1, <1>2, <1>5
  <1>6. CASE next # {}
    <2>1. NextLimit(i) = least
      BY <1>2, <1>6
    <2>2. least \in 1 .. Len(Limits)
      BY <1>3, <1>4, <1>6
    <2> HIDE DEF least
    <2> QED
      BY <1>1, <2>1, <2>2
  <1> QED
    BY <1>5, <1>6
----------------------------------------------------------------------------
(* Types *)

\* What a request keeps
LocalsOK ==
    /\ pc \in [Request -> {"idle", "reserve", "compare", "attempt", "cancel", "verified"}]
    /\ ip \in [Request -> Contributor] /\ halves \in [Request -> Weights \cup {0}]
    /\ at \in [Request -> 1 .. Len(Limits) + 1]
    /\ verdict \in [Request -> {"none", "right", "wrong", "other"}]

\* What is in Redis, and the clock
StoreOK ==
    /\ now \in 0 .. MaxTime /\ failures \in 0 .. MaxFailures
    /\ tat \in [Bucket -> Int]
    /\ record \in [total : Nat, by : [Contributor -> Nat], expireAt : Nat]
    /\ lock \in [Lock -> Nat]

\* The history variables
HistoryOK ==
    /\ since \in 0 .. now
    /\ net \in [Bucket -> Int] /\ guesses \in [Bucket -> Nat]
    /\ promise \in [Bucket -> [at : Int, halves : Nat]] /\ tries \in [Contributor -> Nat]

\* The type invariant by kind of variable
LEMMA TypeParts == TypeOK <=> config \in Config /\ LocalsOK /\ StoreOK /\ HistoryOK
  BY DEF TypeOK, LocalsOK, StoreOK, HistoryOK

\* What Init needs of the constants
LEMMA Constants == SomeIP \in Contributor /\ LockoutAssumption /\ LimitAssumption
  BY DEF SomeIP

\* Requests come from contributors.
LEMMA FromType == TypeOK => config.from \subseteq Contributor
  BY DEF TypeOK

\* The script answers in whole numbers.
LEMMA ScriptTypes ==
    ASSUME NEW limit \in Limit, NEW h \in Nat, NEW a \in Int, NEW t \in Nat
    PROVE  /\ NewTAT(limit, a, t, h) \in Int /\ NewTAT(limit, a, t, -h) \in Int
           /\ AllowAt(limit, a, t, h) \in Int /\ AllowAt(limit, a, t, -h) \in Int
           /\ TimeToAct(limit, a, t, h) \in Int
  <1>1. Increment(limit, h) \in Int /\ Increment(limit, -h) \in Int
    BY IncrementIsInt
  <1>2. Tolerance(limit) \in Int
    BY LimitFacts
  <1>3. (Larger(2, h) * EmissionInterval(limit)) \div 2 \in Int
    BY TokenFacts
  <1> DEFINE inc == Increment(limit, h)
             dec == Increment(limit, -h)
             tol == Tolerance(limit)
             one == (Larger(2, h) * EmissionInterval(limit)) \div 2
  <1>4. Larger(a, t) \in Int
    BY DEF Larger
  <1>5. \A x, y \in Int : x + y \in Int /\ x - y \in Int
    OBVIOUS
  <1>6. inc \in Int /\ dec \in Int /\ tol \in Int /\ one \in Int
    BY <1>1, <1>2, <1>3
  <1>7. NewTAT(limit, a, t, h) = Larger(a, t) + inc /\ NewTAT(limit, a, t, -h) = Larger(a, t) + dec
    BY Zenon DEF NewTAT
  <1> HIDE DEF inc, dec, one
  <1>8. NewTAT(limit, a, t, h) \in Int /\ NewTAT(limit, a, t, -h) \in Int
    BY <1>4, <1>5, <1>6, <1>7, Zenon
  <1>9. AllowAt(limit, a, t, h) \in Int /\ AllowAt(limit, a, t, -h) \in Int
    BY <1>5, <1>6, <1>8, Zenon DEF AllowAt, tol
  <1> HIDE DEF tol
  <1>10. TimeToAct(limit, a, t, h) \in Int
    BY <1>5, <1>6, <1>9, Zenon DEF TimeToAct, one
  <1> QED
    BY <1>8, <1>9, <1>10, Zenon

\* A request that returns forgets.
LEMMA ReturnType ==
    ASSUME LocalsOK, config \in Config, NEW r \in Request, Return(r)
    PROVE  LocalsOK'
  <1>1. NextLimit(0) \in 1 .. Len(Limits) + 1
    BY NextLimitType
  <1>2. SomeIP \in Contributor
    BY Constants
  <1> QED
    BY <1>1, <1>2 DEF LocalsOK, Return

\* One conforming or rejected call of the script, forward or backward
LEMMA UpdateType ==
    ASSUME StoreOK, HistoryOK, NEW b \in Bucket, NEW h \in Nat,
           Update(b, h) \/ Update(b, -h)
    PROVE  tat' \in [Bucket -> Int] /\ net' \in [Bucket -> Int]
  <1>1. Limits[b[2]] \in Limit
    BY BucketLimit
  <1>2. tat \in [Bucket -> Int] /\ net \in [Bucket -> Int] /\ now \in Nat
    BY DEF StoreOK, HistoryOK
  <1>3. /\ NewTAT(Limits[b[2]], tat[b], now, h) \in Int
        /\ NewTAT(Limits[b[2]], tat[b], now, -h) \in Int
    BY <1>1, <1>2, ScriptTypes
  <1>4. Increment(Limits[b[2]], h) \in Int /\ Increment(Limits[b[2]], -h) \in Int
    BY <1>1, IncrementIsInt
  <1>5. ASSUME NEW k \in Int, Update(b, k), NewTAT(Limits[b[2]], tat[b], now, k) \in Int,
               Increment(Limits[b[2]], k) \in Int
        PROVE  tat' \in [Bucket -> Int] /\ net' \in [Bucket -> Int]
    <2>1. CASE IsConforming(Limits[b[2]], tat[b], now, k)
      <3>1. /\ tat' = [tat EXCEPT ![b] = NewTAT(Limits[b[2]], tat[b], now, k)]
            /\ net' = [net EXCEPT ![b] = net[b] + Increment(Limits[b[2]], k)]
        BY <1>5, <2>1 DEF Update
      <3> DEFINE n == NewTAT(Limits[b[2]], tat[b], now, k)
                 i == net[b] + Increment(Limits[b[2]], k)
      <3>2. n \in Int /\ i \in Int
        BY <1>2, <1>5
      <3> HIDE DEF n, i
      <3> QED
        BY <1>2, <3>1, <3>2 DEF n, i
    <2>2. CASE ~IsConforming(Limits[b[2]], tat[b], now, k)
      BY <1>2, <1>5, <2>2 DEF Update
    <2> QED
      BY <2>1, <2>2
  <1>6. h \in Int /\ -h \in Int
    OBVIOUS
  <1> QED
    BY <1>3, <1>4, <1>5, <1>6, Zenon

\* The scripts of lockout/record.go return records.
LEMMA RecordTypes ==
    ASSUME NEW rec \in [total : Nat, by : [Contributor -> Nat], expireAt : Nat],
           NEW c \in Contributor, NEW t \in Nat
    PROVE  /\ Counted(rec, c, t) \in [total : Nat, by : [Contributor -> Nat], expireAt : Nat]
           /\ Cleared(rec, c, t) \in [total : Nat, by : [Contributor -> Nat], expireAt : Nat]
  BY DEF Counted, Cleared

\* A missing key is a record.
LEMMA NoRecordType == NoRecord \in [total : Nat, by : [Contributor -> Nat], expireAt : Nat]
  BY DEF NoRecord

\* A lock lasts for a number of units, whatever the exponent.
LEMMA LockDurationType == ASSUME NEW n PROVE LockDuration(n) \in Nat
  BY DEF LockDuration

\* A lock is kept for the contributor, or for all.
LEMMA LockKeyType == ASSUME NEW c \in Contributor, NEW u PROVE LockKey(u, c) \in Lock
  BY DEF LockKey, Lock

\* There is a request.
LEMMA RequestCount == Cardinality(Request) \in Nat /\ Cardinality(Request) >= 1
  <1>1. IsFiniteSet(Request) /\ Request # {}
    BY FiniteAssumption
  <1>2. Cardinality(Request) \in Nat /\ Cardinality(Request) # 0
    BY <1>1, FS_CardinalityType, FS_EmptySet
  <1> QED
    BY <1>2

\* What a request works with
LEMMA RequestTypes ==
    ASSUME TypeOK, NEW r \in Request
    PROVE  /\ ip[r] \in Contributor /\ halves[r] \in Nat /\ at[r] \in Nat
           /\ at[r] \in config.enabled => <<ip[r], at[r]>> \in Bucket /\ Limits[at[r]] \in Limit
  <1>1. ip[r] \in Contributor /\ halves[r] \in Weights \cup {0} /\ at[r] \in 1 .. Len(Limits) + 1
    BY DEF TypeOK
  <1>2. config.enabled \subseteq DOMAIN Limits
    BY DEF TypeOK
  <1>3. Limits \in Seq(Limit)
    BY DEF Limit
  <1>4. halves[r] \in Nat /\ at[r] \in Nat
    <2>1. Weights \subseteq Nat /\ Len(Limits) \in Nat
      BY <1>3
    <2>2. halves[r] \in Nat
      <3>1. \A w \in Weights \cup {0} : w \in Nat
        BY <2>1
      <3> QED
        BY <1>1, <3>1
    <2>3. at[r] \in Nat
      BY <1>1
    <2> QED
      BY <2>2, <2>3
  <1>5. ASSUME at[r] \in config.enabled
        PROVE  <<ip[r], at[r]>> \in Bucket /\ Limits[at[r]] \in Limit
    <2>1. at[r] \in DOMAIN Limits
      BY <1>2, <1>5
    <2>2. <<ip[r], at[r]>> \in Bucket
      BY <1>1, <2>1 DEF Bucket
    <2>3. Limits[at[r]] \in Limit
      BY <1>3, <2>1
    <2> QED
      BY <2>2, <2>3
  <1> QED
    BY <1>1, <1>4, <1>5

\* Every action preserves the types.
LEMMA TypeStep == TypeOK /\ [Next]_vars => TypeOK'
  <1> SUFFICES ASSUME TypeOK, [Next]_vars PROVE TypeOK'
    OBVIOUS
  <1>0. config \in Config /\ LocalsOK /\ StoreOK /\ HistoryOK
    BY TypeParts
  <1>a. ASSUME config' \in Config, LocalsOK', StoreOK', HistoryOK' PROVE TypeOK'
    BY <1>a DEF TypeOK, LocalsOK, StoreOK, HistoryOK
  <1>b. SomeIP \in Contributor
    BY Constants
  <1>1. ASSUME NEW r \in Request, NEW c \in config.from, NEW h \in Weights, Begin(r, c, h)
        PROVE  TypeOK'
    <2>1. c \in Contributor
      BY <1>0
    <2>2. LocalsOK'
      BY <1>0, <1>1, <2>1 DEF LocalsOK, Begin, Goto
    <2>3. StoreOK' /\ HistoryOK' /\ config' = config
      BY <1>0, <1>1 DEF StoreOK, HistoryOK, Begin, redis, window
    <2> QED
      BY <1>0, <1>a, <2>2, <2>3
  <1>2. ASSUME NEW r \in Request, Reserve(r) PROVE TypeOK'
    <2> DEFINE b == <<ip[r], at[r]>>
    <2>1. /\ b \in Bucket /\ halves[r] \in Nat /\ at[r] \in Nat /\ Limits[at[r]] \in Limit
          /\ b[2] = at[r]
      BY <1>2, RequestTypes DEF Reserve
    <2>2. tat' \in [Bucket -> Int] /\ net' \in [Bucket -> Int]
      BY <1>0, <1>2, <2>1, UpdateType DEF Reserve
    <2>3. promise' \in [Bucket -> [at : Int, halves : Nat]]
      <3>1. tat[b] \in Int /\ now \in Nat
        BY <1>0, <2>1 DEF StoreOK
      <3>2. TimeToAct(Limits[at[r]], tat[b], now, halves[r]) \in Int
        BY <2>1, <3>1, ScriptTypes
      <3> QED
        BY <1>0, <1>2, <2>1, <3>2 DEF Reserve, HistoryOK
    <2>4. LocalsOK'
      <3>1. NextLimit(at[r]) \in 1 .. Len(Limits) + 1
        BY <1>0, <2>1, NextLimitType
      <3>2. CASE Return(r)
        BY <1>0, <3>2, ReturnType
      <3>3. CASE at' = [at EXCEPT ![r] = NextLimit(@)] /\ UNCHANGED <<pc, ip, halves, verdict>>
        BY <1>0, <3>1, <3>3 DEF LocalsOK
      <3> QED
        BY <1>2, <3>2, <3>3 DEF Reserve
    <2>5. StoreOK' /\ HistoryOK' /\ config' = config
      BY <1>0, <1>2, <2>2, <2>3 DEF StoreOK, HistoryOK, Reserve
    <2> QED
      BY <1>0, <1>a, <2>4, <2>5
  <1>3. ASSUME NEW r \in Request, LockoutCheck(r) PROVE TypeOK'
    <2>1. NextLimit(0) \in 1 .. Len(Limits) + 1
      BY <1>0, NextLimitType
    <2>2. LocalsOK'
      <3>1. /\ at' = at \/ at' = [at EXCEPT ![r] = NextLimit(0)]
            /\ pc' = [pc EXCEPT ![r] = "cancel"] \/ pc' = [pc EXCEPT ![r] = "compare"]
            /\ UNCHANGED <<ip, halves, verdict>>
        BY <1>3 DEF LockoutCheck, Goto
      <3>2. at' \in [Request -> 1 .. Len(Limits) + 1]
        BY <1>0, <2>1, <3>1 DEF LocalsOK
      <3>3. pc' \in [Request -> {"idle", "reserve", "compare", "attempt", "cancel", "verified"}]
        BY <1>0, <3>1 DEF LocalsOK
      <3> QED
        BY <1>0, <3>1, <3>2, <3>3 DEF LocalsOK
    <2>3. StoreOK' /\ HistoryOK' /\ config' = config
      BY <1>0, <1>3 DEF StoreOK, HistoryOK, LockoutCheck, redis, window
    <2> QED
      BY <1>0, <1>a, <2>2, <2>3
  <1>4. ASSUME NEW r \in Request, NEW result \in {"right", "wrong", "other"},
               Compare(r, result)
        PROVE  TypeOK'
    <2>1. NextLimit(0) \in 1 .. Len(Limits) + 1
      BY <1>0, NextLimitType
    <2>2. LocalsOK'
      BY <1>0, <1>4, <2>1 DEF LocalsOK, Compare, Goto
    <2>3. guesses' \in [Bucket -> Nat]
      <3>1. guesses \in [Bucket -> Nat] /\ halves[r] \in Nat
        BY <1>0, RequestTypes DEF HistoryOK
      <3>2. \A b \in Bucket : Increment(Limits[b[2]], halves[r]) \in Nat
        BY <3>1, BucketLimit, IncrementFacts
      <3>3. CASE result = "wrong"
        <4> DEFINE more(b) == IF b[1] = ip[r] /\ b[2] \in config.enabled
                              THEN Increment(Limits[b[2]], halves[r]) ELSE 0
        <4>1. guesses' = [b \in Bucket |-> guesses[b] + more(b)]
          BY <1>4, <3>3 DEF Compare, CountGuess
        <4>2. \A b \in Bucket : more(b) \in Nat
          BY <3>2
        <4> HIDE DEF more
        <4> QED
          BY <3>1, <4>1, <4>2
      <3>4. CASE result # "wrong"
        BY <1>4, <3>1, <3>4 DEF Compare
      <3> QED
        BY <3>3, <3>4
    <2>4. StoreOK' /\ config' = config
      BY <1>0, <1>4 DEF StoreOK, Compare, redis
    <2>5. tries' \in [Contributor -> Nat]
      <3>1. tries \in [Contributor -> Nat] /\ ip[r] \in Contributor
        BY <1>0, RequestTypes DEF HistoryOK
      <3>2. tries' = tries \/ tries' = [tries EXCEPT ![ip[r]] = @ + 1]
        BY <1>4 DEF Compare
      <3> QED
        BY <3>1, <3>2
    <2>6. HistoryOK'
      BY <1>0, <1>4, <2>3, <2>5 DEF HistoryOK, Compare
    <2> QED
      BY <1>0, <1>a, <2>2, <2>4, <2>6
  <1>3a. ASSUME NEW r \in Request, LockoutCheckFails(r) PROVE TypeOK'
    <2>1. NextLimit(0) \in 1 .. Len(Limits) + 1
      BY <1>0, NextLimitType
    <2>2. LocalsOK'
      BY <1>0, <1>3a, <2>1 DEF LocalsOK, LockoutCheckFails, Goto
    <2>3. StoreOK' /\ HistoryOK' /\ config' = config
      BY <1>0, <1>3a DEF StoreOK, HistoryOK, LockoutCheckFails, redis, window
    <2> QED
      BY <1>0, <1>a, <2>2, <2>3
  <1>4a. ASSUME NEW r \in Request, CompareExempt(r) PROVE TypeOK'
    <2>1. LocalsOK'
      BY <1>0, <1>4a, ReturnType DEF CompareExempt
    <2>2. guesses' \in [Bucket -> Nat]
      <3>1. guesses \in [Bucket -> Nat] /\ halves[r] \in Nat
        BY <1>0, RequestTypes DEF HistoryOK
      <3>2. \A b \in Bucket : Increment(Limits[b[2]], halves[r]) \in Nat
        BY <3>1, BucketLimit, IncrementFacts
      <3> DEFINE more(b) == IF b[1] = ip[r] /\ b[2] \in config.enabled
                            THEN Increment(Limits[b[2]], halves[r]) ELSE 0
      <3>3. guesses' = [b \in Bucket |-> guesses[b] + more(b)]
        BY <1>4a DEF CompareExempt, CountGuess
      <3>4. \A b \in Bucket : more(b) \in Nat
        BY <3>2
      <3> HIDE DEF more
      <3> QED
        BY <3>1, <3>3, <3>4
    <2>3. StoreOK' /\ HistoryOK' /\ config' = config
      BY <1>0, <1>4a, <2>2 DEF StoreOK, HistoryOK, CompareExempt, redis
    <2> QED
      BY <1>0, <1>a, <2>1, <2>3
  <1>5. ASSUME NEW r \in Request, MakeAttempt(r) PROVE TypeOK'
    <2>1. ip[r] \in Contributor /\ now \in Nat
      <3>1. now \in Nat
        BY <1>0 DEF StoreOK
      <3> QED
        BY <3>1, RequestTypes
    <2> DEFINE after == Counted(record, ip[r], now)
               key == LockKey(config.perUser, ip[r])
               excess == Deciding(after, config.perUser, ip[r]) - MaxAttempts
    <2>2. record' \in [total : Nat, by : [Contributor -> Nat], expireAt : Nat]
      <3>1. record' = record \/ record' = after
        BY <1>5 DEF MakeAttempt
      <3>2. record \in [total : Nat, by : [Contributor -> Nat], expireAt : Nat]
        BY <1>0 DEF StoreOK
      <3>3. after \in [total : Nat, by : [Contributor -> Nat], expireAt : Nat]
        BY <2>1, <3>2, RecordTypes
      <3> HIDE DEF after
      <3> QED
        BY <3>1, <3>2, <3>3
    <2>3. lock' \in [Lock -> Nat]
      <3>1. lock' = lock \/ lock' = [lock EXCEPT ![key] = now + LockDuration(excess)]
        BY <1>5 DEF MakeAttempt
      <3>2. key \in Lock /\ LockDuration(excess) \in Nat
        BY <2>1, LockDurationType, LockKeyType
      <3>3. lock \in [Lock -> Nat]
        BY <1>0 DEF StoreOK
      <3>4. now + LockDuration(excess) \in Nat
        BY <2>1, <3>2
      <3> HIDE DEF key, excess
      <3> QED
        BY <3>1, <3>2, <3>3, <3>4
    <2>4. tries' \in [Contributor -> Nat]
      <3>1. tries' = tries \/ Forget(Sharing(ip[r]))
        BY <1>5 DEF MakeAttempt
      <3>2. tries \in [Contributor -> Nat]
        BY <1>0 DEF HistoryOK
      <3> QED
        BY <3>1, <3>2 DEF Forget
    <2>5. LocalsOK'
      BY <1>0, <1>5, ReturnType DEF MakeAttempt
    <2>6. StoreOK' /\ HistoryOK' /\ config' = config
      BY <1>0, <1>5, <2>2, <2>3, <2>4 DEF StoreOK, HistoryOK, MakeAttempt, window
    <2> QED
      BY <1>0, <1>a, <2>5, <2>6
  <1>6. ASSUME NEW r \in Request, NEW c \in config.from, ClearAttempts(r, c) PROVE TypeOK'
    <2>1. c \in Contributor /\ now \in Nat
      <3>1. now \in Nat
        BY <1>0 DEF StoreOK
      <3> QED
        BY <3>1, FromType
    <2>2. record' \in [total : Nat, by : [Contributor -> Nat], expireAt : Nat]
      BY <1>0, <1>6, <2>1, RecordTypes DEF ClearAttempts, StoreOK
    <2>3. tries' \in [Contributor -> Nat]
      BY <1>0, <1>6 DEF ClearAttempts, HistoryOK, Forget
    <2>4. LocalsOK'
      BY <1>0, <1>6, ReturnType DEF ClearAttempts
    <2>5. StoreOK' /\ HistoryOK' /\ config' = config
      BY <1>0, <1>6, <2>2, <2>3 DEF StoreOK, HistoryOK, ClearAttempts, window
    <2> QED
      BY <1>0, <1>a, <2>4, <2>5
  <1>7. ASSUME NEW r \in Request, LoginNotFinished(r) PROVE TypeOK'
    <2>1. LocalsOK'
      BY <1>0, <1>7, ReturnType DEF LoginNotFinished
    <2>2. StoreOK' /\ HistoryOK' /\ config' = config
      BY <1>0, <1>7 DEF StoreOK, HistoryOK, LoginNotFinished, redis, window
    <2> QED
      BY <1>0, <1>a, <2>1, <2>2
  <1>8. ASSUME NEW r \in Request, CancelDone(r) PROVE LocalsOK'
    <2>1. NextLimit(at[r]) \in 1 .. Len(Limits) + 1
      BY <1>0, NextLimitType, RequestTypes
    <2>2. CASE at' = [at EXCEPT ![r] = NextLimit(@)] /\ UNCHANGED <<pc, ip, halves, verdict>>
      BY <1>0, <2>1, <2>2 DEF LocalsOK
    <2>3. CASE pc' = [pc EXCEPT ![r] = "verified"] /\ UNCHANGED locals
      BY <1>0, <2>3 DEF LocalsOK, locals
    <2>4. CASE Return(r)
      BY <1>0, <2>4, ReturnType
    <2> QED
      BY <1>8, <2>2, <2>3, <2>4 DEF CancelDone
  <1>9. ASSUME NEW r \in Request, Cancel(r) PROVE TypeOK'
    <2>1. LocalsOK'
      BY <1>8, <1>9 DEF Cancel
    <2>2. tat' \in [Bucket -> Int] /\ net' \in [Bucket -> Int]
      <3>1. CASE UNCHANGED <<tat, net>>
        BY <1>0, <3>1 DEF StoreOK, HistoryOK
      <3>2. CASE at[r] \in config.enabled /\ Update(<<ip[r], at[r]>>, -halves[r])
        BY <1>0, <3>2, RequestTypes, UpdateType
      <3> QED
        BY <1>9, <3>1, <3>2 DEF Cancel
    <2>3. StoreOK' /\ HistoryOK' /\ config' = config
      BY <1>0, <1>9, <2>2 DEF StoreOK, HistoryOK, Cancel
    <2> QED
      BY <1>0, <1>a, <2>1, <2>3
  <1>10. ASSUME NEW r \in Request, CancelFails(r) PROVE TypeOK'
    <2>1. LocalsOK'
      BY <1>8, <1>10 DEF CancelFails
    <2>2. /\ failures < MaxFailures /\ failures' = failures + 1
          /\ UNCHANGED <<config, now, redis, window, promise, tries>>
      BY <1>10 DEF CancelFails
    <2>3. StoreOK' /\ HistoryOK' /\ config' = config
      BY <1>0, <2>2 DEF StoreOK, HistoryOK, redis, window
    <2> QED
      BY <1>0, <1>a, <2>1, <2>3
  <1>11. ASSUME NEW r \in Request, Crash(r) PROVE TypeOK'
    <2>1. LocalsOK'
      BY <1>0, <1>11, ReturnType DEF Crash
    <2>2. StoreOK' /\ HistoryOK' /\ config' = config
      BY <1>0, <1>11 DEF StoreOK, HistoryOK, Crash, redis, window
    <2> QED
      BY <1>0, <1>a, <2>1, <2>2
  <1>12. CASE Tick
    <2>1. LocalsOK' /\ config' = config
      BY <1>0, <1>12 DEF LocalsOK, Tick, locals
    <2>2. record' \in [total : Nat, by : [Contributor -> Nat], expireAt : Nat]
      BY <1>0, <1>12, NoRecordType DEF Tick, StoreOK
    <2>3. lock' \in [Lock -> Nat]
      BY <1>0, <1>12 DEF Tick, StoreOK
    <2>4. tries' \in [Contributor -> Nat]
      BY <1>0, <1>12 DEF Tick, HistoryOK, Forget
    <2>5. /\ now' = now + 1 /\ now < MaxTime
          /\ UNCHANGED <<tat, failures, since, net, guesses, promise>>
      BY <1>12 DEF Tick, window
    <2>6. now' \in 0 .. MaxTime /\ since' \in 0 .. now'
      BY <1>0, <2>5 DEF StoreOK, HistoryOK
    <2>7. StoreOK'
      BY <1>0, <2>2, <2>3, <2>5, <2>6 DEF StoreOK
    <2>8. HistoryOK'
      BY <1>0, <2>4, <2>5, <2>6 DEF HistoryOK
    <2> QED
      BY <1>0, <1>a, <2>1, <2>7, <2>8
  <1>13. CASE Observe
    <2>1. LocalsOK' /\ config' = config
      BY <1>0, <1>13 DEF LocalsOK, Observe, locals
    <2>2. StoreOK'
      BY <1>0, <1>13 DEF StoreOK, Observe, redis
    <2>3. /\ now' = now /\ since' = now /\ UNCHANGED <<promise, tries>>
          /\ net' = [b \in Bucket |-> 0] /\ guesses' = [b \in Bucket |-> 0]
      BY <1>13 DEF Observe
    <2>4. since' \in 0 .. now'
      BY <1>0, <2>3 DEF StoreOK
    <2>5. HistoryOK'
      BY <1>0, <2>3, <2>4 DEF HistoryOK
    <2> QED
      BY <1>0, <1>a, <2>1, <2>2, <2>5
  <1>14. CASE UNCHANGED vars
    <2>1. LocalsOK' /\ config' = config
      BY <1>0, <1>14 DEF LocalsOK, vars, locals
    <2>2. StoreOK' /\ HistoryOK'
      BY <1>0, <1>14 DEF StoreOK, HistoryOK, vars, redis, window
    <2> QED
      BY <1>0, <1>a, <2>1, <2>2
  <1> QED
    BY <1>1, <1>2, <1>3, <1>3a, <1>4, <1>4a, <1>5, <1>6, <1>7, <1>9, <1>10, <1>11, <1>12,
       <1>13, <1>14 DEF Next, Step

\* At the start nothing has been attempted.
LEMMA TypeInit == Init => TypeOK
  <1> SUFFICES ASSUME Init PROVE TypeOK
    OBVIOUS
  <1>1. config \in Config /\ NextLimit(0) \in 1 .. Len(Limits) + 1 /\ SomeIP \in Contributor
    BY NextLimitType, Constants DEF Init
  <1>2. LocalsOK
    BY <1>1 DEF Init, LocalsOK
  <1>3. StoreOK
    BY NoRecordType DEF Init, StoreOK
  <1>4. HistoryOK
    BY DEF Init, HistoryOK
  <1> QED
    BY <1>1, <1>2, <1>3, <1>4, TypeParts

\* Every reachable state is well typed: no clearing, expiry or cancellation takes a counter
\* below zero.
THEOREM TypeCorrect == Spec => []TypeOK
  BY TypeInit, TypeStep, PTL DEF Spec

----------------------------------------------------------------------------
(* The rate limits implement leaky buckets *)

Level == [b \in Bucket |-> Ahead(b)]

\* What is ahead of the clock is a natural number.
LEMMA AheadType ==
    ASSUME TypeOK, NEW b \in Bucket
    PROVE  Ahead(b) \in Nat /\ tat[b] \in Int /\ now \in Nat /\ net[b] \in Int /\ since \in Nat
  <1>1. tat \in [Bucket -> Int] /\ net \in [Bucket -> Int]
    BY DEF TypeOK
  <1>2. now \in Nat /\ since \in Nat
    BY DEF TypeOK
  <1> QED
    BY <1>1, <1>2 DEF Ahead

\* A conforming call changes the level by its increment, down to zero at most, and stays
\* within the tolerance.
LEMMA ConformingCall ==
    ASSUME NEW limit \in Limit, NEW k \in Int, Increment(limit, k) \in Int,
           NEW a \in Int, NEW t \in Nat, IsConforming(limit, a, t, k)
    PROVE  LET before == IF a > t THEN a - t ELSE 0
               inc    == Increment(limit, k)
               n      == NewTAT(limit, a, t, k)
           IN  /\ before + inc <= Tolerance(limit)
               /\ n \in Int
               /\ (IF n > t THEN n - t ELSE 0) = (IF before + inc > 0 THEN before + inc ELSE 0)
  <1> DEFINE inc == Increment(limit, k)
             tol == Tolerance(limit)
             m   == IF a >= t THEN a ELSE t
             n   == NewTAT(limit, a, t, k)
  <1>1. inc \in Int /\ tol \in Nat /\ m \in Int
    BY LimitFacts
  <1>2. n = m + inc
    BY DEF NewTAT, Larger
  <1>3. t >= n - tol
    BY DEF IsConforming, AllowAt
  <1>4. m = IF a >= t THEN a ELSE t
    OBVIOUS
  <1> HIDE DEF inc, tol, m, n
  <1>5. n \in Int /\ m - t + inc <= tol
    BY <1>1, <1>2, <1>3
  <1>6. (IF a > t THEN a - t ELSE 0) = m - t
    BY <1>4
  <1>7. (IF n > t THEN n - t ELSE 0) = (IF m - t + inc > 0 THEN m - t + inc ELSE 0)
    BY <1>1, <1>2
  <1> QED
    BY <1>5, <1>6, <1>7 DEF inc, tol, n

\* The level after a conforming call
LEMMA UpdateLevel ==
    ASSUME TypeOK, NEW b \in Bucket, NEW k \in Int, Increment(Limits[b[2]], k) \in Int,
           Update(b, k), now' = now, IsConforming(Limits[b[2]], tat[b], now, k)
    PROVE  LET inc == Increment(Limits[b[2]], k)
           IN  /\ Level[b] = Ahead(b)
               /\ Level[b] + inc <= Tolerance(Limits[b[2]])
               /\ Level' = [Level EXCEPT ![b] = IF Level[b] + inc > 0 THEN Level[b] + inc ELSE 0]
               /\ net' = [net EXCEPT ![b] = @ + inc]
  <1> DEFINE limit == Limits[b[2]]
             inc == Increment(limit, k)
             n == NewTAT(limit, tat[b], now, k)
  <1>1. limit \in Limit
    BY BucketLimit
  <1>2. tat[b] \in Int /\ now \in Nat /\ tat \in [Bucket -> Int]
    BY AheadType DEF TypeOK
  <1>3. /\ Ahead(b) + inc <= Tolerance(limit)
        /\ n \in Int
        /\ (IF n > now THEN n - now ELSE 0) = (IF Ahead(b) + inc > 0 THEN Ahead(b) + inc ELSE 0)
    <2> HIDE DEF limit
    <2> QED
      BY <1>1, <1>2, ConformingCall DEF Ahead, limit
  <1>4. tat' = [tat EXCEPT ![b] = n] /\ net' = [net EXCEPT ![b] = net[b] + inc]
    BY DEF Update
  <1> HIDE DEF limit, inc, n
  <1>5. /\ \A x \in Bucket : x # b => Ahead(x)' = Ahead(x)
        /\ Ahead(b)' = IF n > now THEN n - now ELSE 0
    BY <1>2, <1>4 DEF Ahead
  <1>6. Level' = [Level EXCEPT ![b] = IF Ahead(b) + inc > 0 THEN Ahead(b) + inc ELSE 0]
    BY <1>3, <1>5 DEF Level
  <1>7. Level[b] = Ahead(b)
    BY DEF Level
  <1> QED
    BY <1>3, <1>4, <1>6, <1>7 DEF limit, inc

\* A reservation takes a token, if it conforms.
LEMMA ReserveImplements ==
    ASSUME TypeOK, NEW r \in Request, Reserve(r)
    PROVE  [LB!Next]_(LB!vars)
  <1> DEFINE b == <<ip[r], at[r]>>
             limit == Limits[b[2]]
             inc == Increment(limit, halves[r])
  <1>1. /\ b \in Bucket /\ halves[r] \in Nat /\ b[2] = at[r] /\ limit \in Limit
    BY RequestTypes, BucketLimit DEF Reserve
  <1>2. /\ Update(b, halves[r]) /\ now' = now /\ since' = since
    BY DEF Reserve
  <1>3. CASE ~IsConforming(limit, tat[b], now, halves[r])
    <2>1. tat' = tat /\ net' = net
      BY <1>2, <1>3 DEF Update
    <2> QED
      BY <1>2, <2>1 DEF LB!vars, Ahead
  <1>4. CASE IsConforming(limit, tat[b], now, halves[r])
    <2>1. inc \in Nat /\ inc \in Int
      <3>1. inc \in Nat
        BY <1>1, IncrementFacts
      <3> HIDE DEF inc
      <3> QED
        BY <3>1
    <2>2. Ahead(b) \in Nat
      BY <1>1, AheadType
    <2>3. /\ Level[b] = Ahead(b)
          /\ Level[b] + inc <= Tolerance(limit)
          /\ Level' = [Level EXCEPT ![b] = IF Level[b] + inc > 0 THEN Level[b] + inc ELSE 0]
          /\ net' = [net EXCEPT ![b] = @ + inc]
      <3>1. b \in Bucket /\ halves[r] \in Int
        BY <1>1
      <3> HIDE DEF b
      <3> QED
        BY <1>2, <1>4, <2>1, <3>1, UpdateLevel, Zenon
    <2> DEFINE up == IF Level[b] + inc > 0 THEN Level[b] + inc ELSE 0
    <2>4. up = Level[b] + inc
      BY <2>1, <2>2, <2>3
    <2> HIDE DEF inc, b, up, limit
    <2>5. Level' = [Level EXCEPT ![b] = @ + inc]
      BY <2>3, <2>4 DEF up
    <2>6. CASE halves[r] \in Weights
      <3>1. inc \in Amounts
        <4>1. b[2] \in DOMAIN Limits
          BY <1>1, BucketLimit
        <4>2. inc = Increment(Limits[b[2]], halves[r])
          BY DEF inc, limit
        <4>3. \E i \in DOMAIN Limits, h \in Weights : inc = Increment(Limits[i], h)
          BY <2>6, <4>1, <4>2
        <4> QED
          BY <4>3 DEF Amounts
      <3>2. LB!Take(b, inc)
        BY <1>1, <1>2, <2>3, <2>5 DEF LB!Take, Level, limit
      <3> QED
        BY <1>1, <3>1, <3>2 DEF LB!Next
    <2>7. CASE halves[r] = 0
      <3>1. inc = 0
        BY <1>1, <2>7, IncrementFacts DEF inc
      <3>2. Level' = Level /\ net' = net
        <4>1. \A x \in Bucket : Level[x] \in Nat /\ net[x] \in Int
          BY AheadType DEF Level
        <4>2. net \in [Bucket -> Int]
          BY DEF TypeOK
        <4>3. Level[b] + inc = Level[b] /\ net[b] + inc = net[b]
          BY <1>1, <3>1, <4>1
        <4>4. Level' = [Level EXCEPT ![b] = Level[b]] /\ net' = [net EXCEPT ![b] = net[b]]
          BY <2>3, <2>5, <4>3
        <4> QED
          BY <4>2, <4>4 DEF Level
      <3> QED
        BY <1>2, <3>2 DEF LB!vars, Level
    <2>8. halves[r] \in Weights \cup {0}
      BY DEF TypeOK
    <2> QED
      BY <2>6, <2>7, <2>8
  <1> QED
    BY <1>3, <1>4

\* A cancellation gives back what was taken.
LEMMA CancelImplements ==
    ASSUME TypeOK, NEW r \in Request, Cancel(r)
    PROVE  [LB!Next]_(LB!vars)
  <1> DEFINE b == <<ip[r], at[r]>>
             limit == Limits[b[2]]
             inc == Increment(limit, -halves[r])
  <1>1. now' = now /\ since' = since
    BY DEF Cancel
  <1>2. CASE UNCHANGED <<tat, net>>
    BY <1>1, <1>2 DEF LB!vars, Ahead
  <1>3. CASE at[r] \in config.enabled /\ halves[r] # 0 /\ Update(b, -halves[r])
    <2>1. /\ b \in Bucket /\ halves[r] \in Nat /\ b[2] = at[r] /\ limit \in Limit
          /\ halves[r] \in Weights
      BY <1>3, RequestTypes, BucketLimit DEF TypeOK
    <2>2. inc \in Int /\ inc <= 0 /\ -halves[r] \in Int
      <3>1. inc \in Int
        BY <2>1, IncrementFacts
      <3>2. inc <= 0
        BY <2>1, IncrementFacts
      <3>3. -halves[r] \in Int
        BY <2>1
      <3> QED
        BY <3>1, <3>2, <3>3
    <2>3. CASE ~IsConforming(limit, tat[b], now, -halves[r])
      <3>1. tat' = tat /\ net' = net
        BY <1>3, <2>3 DEF Update
      <3> QED
        BY <1>1, <3>1 DEF LB!vars, Ahead
    <2>4. CASE IsConforming(limit, tat[b], now, -halves[r])
      <3>1. /\ Level[b] = Ahead(b)
            /\ Level' = [Level EXCEPT ![b] = IF Level[b] + inc > 0 THEN Level[b] + inc ELSE 0]
            /\ net' = [net EXCEPT ![b] = @ + inc]
        <4> HIDE DEF b
        <4> QED
          BY <1>1, <1>3, <2>1, <2>2, <2>4, UpdateLevel, Zenon
      <3> DEFINE amount == -inc
      <3>2. amount \in Amounts
        <4>1. b[2] \in DOMAIN Limits /\ amount = -Increment(Limits[b[2]], -halves[r])
          BY <2>1, BucketLimit
        <4> HIDE DEF amount, b
        <4>2. \E i \in DOMAIN Limits, h \in Weights : amount = -Increment(Limits[i], -h)
          BY <2>1, <4>1
        <4> QED
          BY <4>2 DEF Amounts
      <3>3. Ahead(b) \in Nat /\ net[b] \in Int
        BY <2>1, AheadType
      <3> HIDE DEF inc, b, limit
      <3>4. /\ Level[b] + inc = Level[b] - amount
            /\ net[b] + inc = net[b] - amount
        BY <2>2, <3>1, <3>3
      <3>5. /\ Level' = [Level EXCEPT ![b] = LB!Positive(@ - amount)]
            /\ net' = [net EXCEPT ![b] = @ - amount]
        BY <3>1, <3>4 DEF LB!Positive
      <3> HIDE DEF amount
      <3>6. LB!GiveBack(b, amount)
        BY <1>1, <3>5 DEF LB!GiveBack, Level
      <3> QED
        BY <2>1, <3>2, <3>6 DEF LB!Next
    <2> QED
      BY <2>3, <2>4
  <1> QED
    BY <1>2, <1>3 DEF Cancel

\* The clock empties the buckets.
LEMMA TickImplements ==
    ASSUME TypeOK, Tick
    PROVE  LB!Leak
  <1>1. now' = now + 1 /\ now \in Nat /\ UNCHANGED <<tat, since, net>>
    BY DEF Tick, TypeOK, window
  <1>2. \A b \in Bucket : Ahead(b)' = LB!Positive(Ahead(b) - 1)
    <2> TAKE b \in Bucket
    <2>1. tat[b] \in Int /\ tat'[b] = tat[b]
      BY <1>1, AheadType
    <2> QED
      BY <1>1, <2>1 DEF Ahead, LB!Positive
  <1> QED
    BY <1>1, <1>2 DEF LB!Leak

\* Every other step leaves the buckets, the clock and the window alone.
LEMMA OthersImplement ==
    ASSUME UNCHANGED <<tat, now, since, net>>
    PROVE  UNCHANGED LB!vars
  BY DEF LB!vars, Ahead

\* Every step of a request, of the clock or of the observer is a step of the leaky buckets.
LEMMA StepImplements ==
    ASSUME TypeOK, [Next]_vars
    PROVE  [LB!Next]_(LB!vars)
  <1>1. ASSUME NEW r \in Request, NEW c \in Contributor, NEW h \in Weights, Begin(r, c, h)
        PROVE  UNCHANGED <<tat, now, since, net>>
    BY <1>1 DEF Begin, redis, window
  <1>2. ASSUME NEW r \in Request, LockoutCheck(r) \/ LockoutCheckFails(r)
        PROVE  UNCHANGED <<tat, now, since, net>>
    BY <1>2 DEF LockoutCheck, LockoutCheckFails, redis, window
  <1>3. ASSUME NEW r \in Request, NEW result, Compare(r, result) \/ CompareExempt(r)
        PROVE  UNCHANGED <<tat, now, since, net>>
    BY <1>3 DEF Compare, CompareExempt, redis
  <1>4. ASSUME NEW r \in Request, MakeAttempt(r) PROVE UNCHANGED <<tat, now, since, net>>
    BY <1>4 DEF MakeAttempt, window
  <1>5. ASSUME NEW r \in Request, NEW c, ClearAttempts(r, c) \/ LoginNotFinished(r)
        PROVE  UNCHANGED <<tat, now, since, net>>
    BY <1>5 DEF ClearAttempts, LoginNotFinished, redis, window
  <1>6. ASSUME NEW r \in Request, CancelFails(r) \/ Crash(r)
        PROVE  UNCHANGED <<tat, now, since, net>>
    BY <1>6 DEF CancelFails, Crash, redis, window
  <1>7. ASSUME Observe PROVE LB!Observe
    BY <1>7 DEF Observe, LB!Observe, redis, Ahead
  <1>8. CASE UNCHANGED vars
    <2>1. UNCHANGED <<tat, now, since, net>>
      BY <1>8 DEF vars, redis, window
    <2> QED
      BY <2>1, OthersImplement
  <1>9. config.from \subseteq Contributor
    BY DEF TypeOK
  <1>10. CASE Tick
    BY <1>10, TickImplements DEF LB!Next
  <1>11. CASE Observe
    BY <1>7, <1>11 DEF LB!Next
  <1>12. ASSUME NEW r \in Request, Step(r) PROVE [LB!Next]_(LB!vars)
    <2>1. CASE Reserve(r)
      BY <2>1, ReserveImplements
    <2>2. CASE Cancel(r)
      BY <2>2, CancelImplements
    <2>3. CASE UNCHANGED <<tat, now, since, net>>
      BY <2>3, OthersImplement
    <2> QED
      BY <1>2, <1>3, <1>4, <1>5, <1>6, <1>12, <2>1, <2>2, <2>3 DEF Step
  <1>13. ASSUME NEW r \in Request, NEW c \in Contributor, NEW h \in Weights, Begin(r, c, h)
         PROVE  [LB!Next]_(LB!vars)
    BY <1>1, <1>13, OthersImplement
  <1> QED
    BY <1>8, <1>9, <1>10, <1>11, <1>12, <1>13 DEF Next

\* Initial states are initial states of LeakyBucket.
LEMMA InitImplements ==
    ASSUME Init
    PROVE  LB!Init
  <1>1. now = 0 /\ since = 0 /\ tat = [b \in Bucket |-> 0] /\ net = [b \in Bucket |-> 0]
    BY DEF Init
  <1>2. \A b \in Bucket : Ahead(b) = 0
    BY <1>1 DEF Ahead
  <1> QED
    BY <1>1, <1>2 DEF LB!Init

\* Whatever the limits, the weights and the order of the requests, the rate limiter of
\* gcra.go and limiter.go implements leaky buckets.
THEOREM RefinementCorrect == Spec => ImplementsLeakyBucket
  <1>1. Init => LB!Init
    BY InitImplements
  <1>2. TypeOK /\ [Next]_vars => [LB!Next]_(LB!vars)
    BY StepImplements
  <1> QED
    BY <1>1, <1>2, TypeCorrect, PTL DEF Spec, ImplementsLeakyBucket, LB!Spec

\* The assumption of LeakyBucket
LEMMA LeakyBucketConstants == LBP!CapacityIsNatural
  <1>1. \A b \in Bucket : Tolerance(Limits[b[2]]) \in Nat
    BY BucketLimit, LimitFacts
  <1>2. Amounts \subseteq Nat
    <2>1. ASSUME NEW i \in DOMAIN Limits, NEW h \in Weights
          PROVE  Increment(Limits[i], h) \in Nat /\ -Increment(Limits[i], -h) \in Nat
      <3>0. Limits \in Seq(Limit)
        BY DEF Limit
      <3>1. Limits[i] \in Limit /\ h \in Nat
        BY <3>0
      <3> DEFINE inc == Increment(Limits[i], h)
                 dec == Increment(Limits[i], -h)
      <3>2. inc \in Nat /\ dec \in Int /\ dec <= 0
        BY <3>1, IncrementFacts
      <3> HIDE DEF inc, dec
      <3>3. -dec \in Nat
        BY <3>2
      <3> QED
        BY <3>2, <3>3 DEF inc, dec
    <2> QED
      BY <2>1 DEF Amounts
  <1> QED
    BY <1>1, <1>2 DEF LBP!CapacityIsNatural

\* In any window a bucket receives at most its burst plus what leaks meanwhile: the bound of
\* leaky buckets, which the rate limiter inherits.
THEOREM RateCorrect == Spec => []RateIsBounded
  <1>1. LBP!Spec => []LBP!RateIsBounded
    BY LeakyBucketConstants, LBP!LeakyBucketIsBounded
  <1>2. Spec => LB!Spec
    BY RefinementCorrect DEF ImplementsLeakyBucket
  <1>3. LB!Init <=> LBP!Init
    BY DEF LB!Init, LBP!Init
  <1>4. [LB!Next]_(LB!vars) <=> [LBP!Next]_(LBP!vars)
    BY DEF LB!Next, LBP!Next, LB!vars, LBP!vars, LB!Take, LBP!Take, LB!GiveBack, LBP!GiveBack,
           LB!Leak, LBP!Leak, LB!Observe, LBP!Observe, LB!Positive, LBP!Positive
  <1>5. LBP!RateIsBounded => RateIsBounded
    BY DEF RateIsBounded, LB!RateIsBounded, LBP!RateIsBounded
  <1> QED
    BY <1>1, <1>2, <1>3, <1>4, <1>5, PTL DEF LB!Spec, LBP!Spec

----------------------------------------------------------------------------
(* The answer to a call tells when to come back *)

\* Stronger than TimeToActIsHonest, and inductive: from the promised time on, at any time not
\* in the past, the promised call conforms.
PromiseKept ==
    \A b \in Bucket, t \in Nat :
        LET limit == Limits[b[2]]
        IN  t >= now /\ t >= promise[b].at /\ promise[b].halves <= 2 * limit.burst
                => IsConforming(limit, tat[b], t, promise[b].halves)

\* What IsConforming says, without the names of the script
LEMMA ConformingMeans ==
    ASSUME NEW limit \in Limit, NEW a \in Int, NEW t \in Nat, NEW h \in Nat
    PROVE  IsConforming(limit, a, t, h) <=>
               /\ Increment(limit, h) <= Tolerance(limit)
               /\ a + Increment(limit, h) - Tolerance(limit) <= t
  <1> DEFINE inc == Increment(limit, h)
             tol == Tolerance(limit)
  <1>1. inc \in Int /\ tol \in Int
    BY IncrementIsInt, LimitFacts
  <1>2. IsConforming(limit, a, t, h) <=> t >= (IF a >= t THEN a ELSE t) + inc - tol
    <2>1. NewTAT(limit, a, t, h) = (IF a >= t THEN a ELSE t) + inc
      BY DEF NewTAT, Larger
    <2> HIDE DEF inc, tol
    <2> QED
      BY <1>1, <2>1 DEF IsConforming, AllowAt, tol
  <1> HIDE DEF inc, tol
  <1>3. inc \in Nat
    BY IncrementFacts DEF inc
  <1>4. (t >= (IF a >= t THEN a ELSE t) + inc - tol) <=> (inc <= tol /\ a + inc - tol <= t)
    BY <1>1, <1>3
  <1> QED
    BY <1>2, <1>4 DEF inc, tol

\* After a conforming call: one more whole token conforms from the promised time on.
LEMMA PromiseAfterConforming ==
    ASSUME NEW limit \in Limit, NEW a \in Int, NEW n \in Nat, NEW h \in Nat, NEW t \in Nat,
           IsConforming(limit, a, n, h), t >= TimeToAct(limit, a, n, h)
    PROVE  IsConforming(limit, NewTAT(limit, a, n, h), t, 2)
  <1> DEFINE new == NewTAT(limit, a, n, h)
             tol == Tolerance(limit)
             e   == EmissionInterval(limit)
             gap == (Larger(2, h) * EmissionInterval(limit)) \div 2
  <1>1. new \in Int
    BY ScriptTypes
  <1>2. tol \in Nat /\ e \in Nat /\ e <= tol
    BY LimitFacts
  <1>3. gap \in Nat /\ gap >= e
    BY TokenFacts
  <1>4. t >= new - tol + gap
    BY DEF TimeToAct, AllowAt
  <1>5. Increment(limit, 2) = e
    BY TokenFacts
  <1> HIDE DEF new, tol, e, gap
  <1>6. new + e - tol <= t
    BY <1>1, <1>2, <1>3, <1>4
  <1>7. IsConforming(limit, new, t, 2) <=> (e <= tol /\ new + e - tol <= t)
    <2>1. 2 \in Nat
      OBVIOUS
    <2> QED
      BY <1>1, <1>5, <2>1, ConformingMeans DEF tol
  <1> QED
    BY <1>2, <1>6, <1>7 DEF new

\* After a rejected call: the same call conforms from the promised time on, if it fits into
\* the burst at all.
LEMMA PromiseAfterRejected ==
    ASSUME NEW limit \in Limit, NEW a \in Int, NEW n \in Nat, NEW h \in Nat, NEW t \in Nat,
           ~IsConforming(limit, a, n, h), t >= TimeToAct(limit, a, n, h),
           h <= 2 * limit.burst
    PROVE  IsConforming(limit, a, t, h)
  <1> DEFINE inc == Increment(limit, h)
             tol == Tolerance(limit)
  <1>1. inc \in Int /\ tol \in Int
    BY IncrementIsInt, LimitFacts
  <1>2. inc <= tol
    BY TokenFacts
  <1>3. t >= (IF a >= n THEN a ELSE n) + inc - tol
    <2>1. NewTAT(limit, a, n, h) = (IF a >= n THEN a ELSE n) + inc
      BY DEF NewTAT, Larger
    <2> HIDE DEF inc, tol
    <2> QED
      BY <1>1, <2>1 DEF TimeToAct, AllowAt, tol
  <1> HIDE DEF inc, tol
  <1>4. a + inc - tol <= t
    BY <1>1, <1>3
  <1> QED
    BY <1>2, <1>4, ConformingMeans DEF inc, tol

\* A cancellation breaks no promise: the arrival time does not grow beyond the clock.
LEMMA PromiseAfterCancel ==
    ASSUME NEW limit \in Limit, NEW a \in Int, NEW n \in Nat, NEW k \in Nat,
           NEW h \in Nat, NEW t \in Nat, t >= n,
           IsConforming(limit, a, t, h)
    PROVE  IsConforming(limit, NewTAT(limit, a, n, -k), t, h)
  <1> DEFINE inc == Increment(limit, h)
             dec == Increment(limit, -k)
             tol == Tolerance(limit)
             new == NewTAT(limit, a, n, -k)
  <1>1. inc \in Int /\ tol \in Int
    BY IncrementIsInt, LimitFacts
  <1>2. dec \in Int /\ dec <= 0
    BY IncrementFacts
  <1>3. inc <= tol /\ a + inc - tol <= t
    BY ConformingMeans
  <1>4. new = (IF a >= n THEN a ELSE n) + dec
    BY DEF NewTAT, Larger
  <1> HIDE DEF inc, dec, tol, new
  <1>5. new \in Int /\ new + inc - tol <= t
    BY <1>1, <1>2, <1>3, <1>4
  <1>6. IsConforming(limit, new, t, h)
    BY <1>3, <1>5, ConformingMeans DEF inc, tol
  <1> QED
    BY <1>6 DEF new

\* What a step may do to a bucket without breaking its promise
LEMMA PromiseStep ==
    ASSUME PromiseKept, NEW b \in Bucket, NEW t \in Nat, now' \in Nat, now \in Nat,
           now' >= now,
           tat'[b] = tat[b], promise'[b] = promise[b],
           t >= now', t >= promise'[b].at, promise'[b].halves <= 2 * Limits[b[2]].burst
    PROVE  IsConforming(Limits[b[2]], tat'[b], t, promise'[b].halves)
  <1>1. t >= now
    OBVIOUS
  <1> QED
    BY <1>1 DEF PromiseKept

\* A reservation makes a new promise about its bucket, and no other.
LEMMA ReserveKeepsPromise ==
    ASSUME TypeOK, PromiseKept, NEW r \in Request, Reserve(r)
    PROVE  PromiseKept'
  <1> DEFINE c == <<ip[r], at[r]>>
             limit == Limits[c[2]]
             h == halves[r]
  <1>1. c \in Bucket /\ h \in Nat /\ c[2] = at[r] /\ limit \in Limit
    BY RequestTypes, BucketLimit DEF Reserve
  <1>2. /\ tat[c] \in Int /\ now \in Nat /\ now' = now
        /\ tat \in [Bucket -> Int] /\ promise \in [Bucket -> [at : Int, halves : Nat]]
    BY <1>1, AheadType DEF TypeOK, Reserve
  <1>3. Update(c, h)
    BY DEF Reserve
  <1>4. promise' = [promise EXCEPT ![c] =
                       [at |-> TimeToAct(limit, tat[c], now, h),
                        halves |-> IF IsConforming(limit, tat[c], now, h) THEN 2 ELSE h]]
    BY <1>1 DEF Reserve
  <1>5. tat' = [tat EXCEPT ![c] = NewTAT(limit, tat[c], now, h)] \/ tat' = tat
    BY <1>3 DEF Update
  <1> SUFFICES ASSUME NEW b \in Bucket, NEW t \in Nat,
                      t >= now', t >= promise'[b].at,
                      promise'[b].halves <= 2 * Limits[b[2]].burst
               PROVE  IsConforming(Limits[b[2]], tat'[b], t, promise'[b].halves)
    BY DEF PromiseKept
  <1>6. CASE b # c
    <2>1. tat'[b] = tat[b] /\ promise'[b] = promise[b]
      <3> HIDE DEF c, limit, h
      <3> QED
        BY <1>2, <1>4, <1>5, <1>6
    <2>2. now' >= now
      BY <1>2
    <2> QED
      BY <1>2, <2>1, <2>2, PromiseStep
  <1>7. CASE b = c /\ IsConforming(limit, tat[c], now, h)
    <2>1. tat'[c] = NewTAT(limit, tat[c], now, h)
      BY <1>1, <1>2, <1>3, <1>7 DEF Update
    <2>2. promise'[c].at = TimeToAct(limit, tat[c], now, h) /\ promise'[c].halves = 2
      <3> HIDE DEF c, limit, h
      <3> QED
        BY <1>1, <1>2, <1>4, <1>7
    <2> QED
      BY <1>1, <1>2, <1>7, <2>1, <2>2, PromiseAfterConforming
  <1>8. CASE b = c /\ ~IsConforming(limit, tat[c], now, h)
    <2>1. tat'[c] = tat[c]
      BY <1>1, <1>2, <1>3, <1>8 DEF Update
    <2>2. promise'[c].at = TimeToAct(limit, tat[c], now, h) /\ promise'[c].halves = h
      <3> HIDE DEF c, limit, h
      <3> QED
        BY <1>1, <1>2, <1>4, <1>8
    <2> QED
      BY <1>1, <1>2, <1>8, <2>1, <2>2, PromiseAfterRejected
  <1> QED
    BY <1>6, <1>7, <1>8

\* A cancellation keeps what was promised.
LEMMA CancelKeepsPromise ==
    ASSUME TypeOK, PromiseKept, NEW r \in Request, Cancel(r)
    PROVE  PromiseKept'
  <1> DEFINE c == <<ip[r], at[r]>>
             limit == Limits[c[2]]
             h == halves[r]
  <1>1. now' = now /\ promise' = promise
    BY DEF Cancel
  <1>2. \/ tat' = tat
        \/ c \in Bucket /\ Update(c, -h)
    BY RequestTypes DEF Cancel
  <1>3. /\ now \in Nat /\ h \in Nat
        /\ tat \in [Bucket -> Int] /\ promise \in [Bucket -> [at : Int, halves : Nat]]
    <2>1. h \in Nat
      BY RequestTypes
    <2>2. now \in Nat /\ tat \in [Bucket -> Int]
      BY DEF TypeOK
    <2>3. promise \in [Bucket -> [at : Int, halves : Nat]]
      BY DEF TypeOK
    <2> QED
      BY <2>1, <2>2, <2>3
  <1>4. \/ tat' = tat
        \/ c \in Bucket /\ tat' = [tat EXCEPT ![c] = NewTAT(limit, tat[c], now, -h)]
    BY <1>2 DEF Update
  <1> HIDE DEF c, limit, h
  <1> SUFFICES ASSUME NEW b \in Bucket, NEW t \in Nat,
                      t >= now', t >= promise'[b].at,
                      promise'[b].halves <= 2 * Limits[b[2]].burst
               PROVE  IsConforming(Limits[b[2]], tat'[b], t, promise'[b].halves)
    BY DEF PromiseKept
  <1>5. IsConforming(Limits[b[2]], tat[b], t, promise[b].halves)
    BY <1>1 DEF PromiseKept
  <1>6. CASE tat'[b] = tat[b]
    BY <1>1, <1>5, <1>6
  <1>7. CASE b = c /\ tat'[b] = NewTAT(limit, tat[c], now, -h)
    <2>1. Limits[b[2]] \in Limit /\ tat[b] \in Int /\ promise[b].halves \in Nat
      BY <1>3, BucketLimit
    <2>2. limit = Limits[b[2]]
      BY <1>7 DEF limit
    <2>3. IsConforming(Limits[b[2]], NewTAT(Limits[b[2]], tat[b], now, -h), t,
                       promise[b].halves)
      BY <1>1, <1>3, <1>5, <2>1, PromiseAfterCancel
    <2> QED
      BY <1>1, <1>7, <2>2, <2>3
  <1> QED
    BY <1>3, <1>4, <1>6, <1>7

\* Every step keeps what was promised.
LEMMA PromiseInductive ==
    ASSUME TypeOK, TypeOK', PromiseKept, [Next]_vars
    PROVE  PromiseKept'
  <1>1. now \in Nat /\ now' \in Nat
    BY DEF TypeOK
  <1>2. ASSUME now' >= now, tat' = tat, promise' = promise
        PROVE  PromiseKept'
    <2> SUFFICES ASSUME NEW b \in Bucket, NEW t \in Nat,
                        t >= now', t >= promise'[b].at,
                        promise'[b].halves <= 2 * Limits[b[2]].burst
                 PROVE  IsConforming(Limits[b[2]], tat'[b], t, promise'[b].halves)
      BY DEF PromiseKept
    <2> QED
      BY <1>1, <1>2, PromiseStep
  <1>3. ASSUME now' = now, tat' = tat, promise' = promise
        PROVE  PromiseKept'
    BY <1>1, <1>2, <1>3
  <1>4. ASSUME NEW r \in Request, NEW c \in config.from, NEW h \in Weights, Begin(r, c, h)
        PROVE  PromiseKept'
    BY <1>3, <1>4 DEF Begin, redis
  <1>5. ASSUME NEW r \in Request, Step(r) PROVE PromiseKept'
    <2>1. CASE Reserve(r)
      BY <2>1, ReserveKeepsPromise
    <2>2. CASE Cancel(r)
      BY <2>2, CancelKeepsPromise
    <2>3. CASE LockoutCheck(r) \/ LockoutCheckFails(r)
      BY <1>3, <2>3 DEF LockoutCheck, LockoutCheckFails, redis
    <2>4. CASE CompareExempt(r)
               \/ \E result \in {"right", "wrong", "other"} : Compare(r, result)
      BY <1>3, <2>4 DEF Compare, CompareExempt, redis
    <2>5. CASE MakeAttempt(r)
      BY <1>3, <2>5 DEF MakeAttempt
    <2>6. CASE LoginNotFinished(r) \/ \E c \in config.from : ClearAttempts(r, c)
      BY <1>3, <2>6 DEF ClearAttempts, LoginNotFinished, redis
    <2>7. CASE CancelFails(r) \/ Crash(r)
      BY <1>3, <2>7 DEF CancelFails, Crash, redis
    <2> QED
      BY <1>5, <2>1, <2>2, <2>3, <2>4, <2>5, <2>6, <2>7 DEF Step
  <1>6. CASE Tick
    <2>1. now' = now + 1 /\ tat' = tat /\ promise' = promise
      BY <1>6 DEF Tick
    <2>2. now' >= now
      BY <1>1, <2>1
    <2> QED
      BY <1>2, <2>1, <2>2
  <1>7. CASE Observe
    BY <1>3, <1>7 DEF Observe, redis
  <1>8. CASE UNCHANGED vars
    BY <1>3, <1>8 DEF vars, redis
  <1> QED
    BY <1>4, <1>5, <1>6, <1>7, <1>8 DEF Next

\* No promise has been made at first.
LEMMA PromiseInit ==
    ASSUME Init
    PROVE  PromiseKept
  <1> SUFFICES ASSUME NEW b \in Bucket, NEW t \in Nat
               PROVE  IsConforming(Limits[b[2]], 0, t, 0)
    BY DEF PromiseKept, Init
  <1>1. Limits[b[2]] \in Limit
    BY BucketLimit
  <1>2. Increment(Limits[b[2]], 0) = 0 /\ Tolerance(Limits[b[2]]) \in Nat
    BY <1>1, IncrementFacts, LimitFacts
  <1> QED
    BY <1>1, <1>2, ConformingMeans

\* Limiter.GetTimeToAct and the error of a rejected call are honest for every limit and every
\* weight: who comes back at that time is let through, unless another call was faster.
THEOREM TimeToActCorrect == Spec => []TimeToActIsHonest
  <1>1. TypeOK /\ PromiseKept => TimeToActIsHonest
    <2> SUFFICES ASSUME TypeOK, PromiseKept, NEW b \in Bucket,
                        promise[b].at <= now, promise[b].halves <= 2 * Limits[b[2]].burst
                 PROVE  IsConforming(Limits[b[2]], tat[b], now, promise[b].halves)
      BY DEF TimeToActIsHonest
    <2>1. now \in Nat /\ promise[b].at \in Int
      BY DEF TypeOK
    <2>2. now >= now /\ now >= promise[b].at
      BY <2>1
    <2> QED
      BY <2>1, <2>2 DEF PromiseKept
  <1>2. Init => PromiseKept
    BY PromiseInit
  <1>3. TypeOK /\ TypeOK' /\ PromiseKept /\ [Next]_vars => PromiseKept'
    BY PromiseInductive
  <1> QED
    BY <1>1, <1>2, <1>3, TypeCorrect, PTL DEF Spec

----------------------------------------------------------------------------
(* Locks *)

\* A step leaves a lock that is in force, and still will be, as it is.
LEMMA LockStep ==
    ASSUME TypeOK, [Next]_vars, NEW k \in Lock, IsBlocked(lock[k], now')
    PROVE  lock'[k] = lock[k]
  <1>1. lock \in [Lock -> Nat]
    BY DEF TypeOK
  <1>2. ASSUME NEW r \in Request, MakeAttempt(r) PROVE lock'[k] = lock[k]
    <2> DEFINE key == LockKey(config.perUser, ip[r])
    <2>1. now' = now
      BY <1>2 DEF MakeAttempt
    <2>2. CASE IsBlocked(lock[key], now)
      BY <1>2, <2>2 DEF MakeAttempt
    <2>3. CASE ~IsBlocked(lock[key], now)
      <3>1. k # key
        BY <2>1, <2>3
      <3>2. \/ lock' = lock
            \/ \E n : lock' = [lock EXCEPT ![key] = n]
        BY <1>2, <2>3 DEF MakeAttempt
      <3> HIDE DEF key
      <3> QED
        BY <1>1, <3>1, <3>2
    <2> QED
      BY <2>2, <2>3
  <1>3. CASE Tick
    BY <1>1, <1>3 DEF Tick
  <1>4. ASSUME NEW r \in Request, NEW c \in config.from, NEW h \in Weights, Begin(r, c, h)
        PROVE  lock' = lock
    BY <1>4 DEF Begin, redis
  <1>5. ASSUME NEW r \in Request, Step(r), ~MakeAttempt(r) PROVE lock' = lock
    <2>1. CASE Reserve(r) \/ Cancel(r)
      BY <2>1 DEF Reserve, Cancel
    <2>2. CASE LockoutCheck(r) \/ LockoutCheckFails(r)
      BY <2>2 DEF LockoutCheck, LockoutCheckFails, redis
    <2>3. CASE CompareExempt(r)
               \/ \E result \in {"right", "wrong", "other"} : Compare(r, result)
      BY <2>3 DEF Compare, CompareExempt, redis
    <2>4. CASE LoginNotFinished(r) \/ \E c \in config.from : ClearAttempts(r, c)
      BY <2>4 DEF ClearAttempts, LoginNotFinished, redis
    <2>5. CASE CancelFails(r) \/ Crash(r)
      BY <2>5 DEF CancelFails, Crash, redis
    <2> QED
      BY <1>5, <2>1, <2>2, <2>3, <2>4, <2>5 DEF Step
  <1>6. CASE Observe
    BY <1>6 DEF Observe, redis
  <1>7. CASE UNCHANGED vars
    BY <1>7 DEF vars, redis
  <1> QED
    BY <1>2, <1>3, <1>4, <1>5, <1>6, <1>7 DEF Next

\* docs/specs/account-lockout.md:81: a lock in force is neither lifted nor prolonged, whatever
\* the requests do, for any number of attempts, contributors and any durations.
THEOREM LockCorrect == Spec => LockIsKept
  <1>1. TypeOK /\ [Next]_vars
            => [\A k \in Lock : IsBlocked(lock[k], now') => lock'[k] = lock[k]]_vars
    BY LockStep
  <1> QED
    BY <1>1, TypeCorrect, PTL DEF Spec, LockIsKept

----------------------------------------------------------------------------
(* The total of the failed attempts *)

HIDE LockoutAssumption
HIDE LimitAssumption

\* Counting, clearing and expiry keep the total and its parts together.
LEMMA RecordSums ==
    ASSUME NEW rec \in [total : Nat, by : [Contributor -> Nat], expireAt : Nat],
           rec.total = SumFunctionOnSet(rec.by, Contributor),
           NEW c \in Contributor, NEW t \in Nat
    PROVE  /\ Counted(rec, c, t).total = SumFunctionOnSet(Counted(rec, c, t).by, Contributor)
           /\ Cleared(rec, c, t).total = SumFunctionOnSet(Cleared(rec, c, t).by, Contributor)
           /\ Cleared(rec, c, t).total = rec.total - rec.by[c]
  <1> DEFINE by   == rec.by
             more == [by EXCEPT ![c] = @ + 1]
             less == [by EXCEPT ![c] = 0]
  <1>1. /\ \A x \in Contributor : by[x] \in Int
        /\ \A x \in Contributor : by[x] \in Nat
        /\ \A x \in Contributor : more[x] \in Int
        /\ \A x \in Contributor : less[x] \in Int
        /\ \A x \in Contributor \ {c} : by[x] = more[x]
        /\ \A x \in Contributor \ {c} : by[x] = less[x]
        /\ more[c] = by[c] + 1 /\ less[c] = 0 /\ rec.total \in Nat
    OBVIOUS
  <1>2. Counted(rec, c, t).total = rec.total + 1 /\ Counted(rec, c, t).by = more
    BY DEF Counted
  <1>3. /\ Cleared(rec, c, t).by = less
        /\ Cleared(rec, c, t).total =
             IF rec.total > by[c] THEN rec.total - by[c] ELSE 0
    BY DEF Cleared
  <1>4. IsFiniteSet(Contributor)
    BY FiniteAssumption
  <1> HIDE DEF by, more, less
  <1>a. /\ \A x \in Contributor : by[x] \in Int /\ more[x] \in Int
        /\ \A x \in Contributor : by[x] \in Int /\ less[x] \in Int
    BY <1>1
  <1>5. SumFunctionOnSet(more, Contributor) = SumFunctionOnSet(by, Contributor) + (more[c] - by[c])
    <2>1. SumChange(Contributor, by, more, c)
      BY <1>1, <1>a, <1>4, SumOfChangedTerm
    <2> QED
      BY <2>1 DEF SumChange
  <1>6. SumFunctionOnSet(less, Contributor) = SumFunctionOnSet(by, Contributor) + (less[c] - by[c])
    <2>1. SumChange(Contributor, by, less, c)
      BY <1>1, <1>a, <1>4, SumOfChangedTerm
    <2> QED
      BY <2>1 DEF SumChange
  <1>7. rec.total = SumFunctionOnSet(by, Contributor)
    BY DEF by
  <1>8. by[c] <= rec.total
    <2>1. \A x \in Contributor : by[x] \in Nat
      BY <1>1
    <2> QED
      BY <1>4, <1>7, <2>1, SumOfNaturals, Z3
  <1>9. Counted(rec, c, t).total = SumFunctionOnSet(more, Contributor)
    BY <1>1, <1>2, <1>5, <1>7
  <1>10. Cleared(rec, c, t).total = rec.total - by[c]
    BY <1>1, <1>3, <1>8
  <1>11. Cleared(rec, c, t).total = SumFunctionOnSet(less, Contributor)
    BY <1>1, <1>6, <1>7, <1>10
  <1> QED
    BY <1>2, <1>3, <1>9, <1>10, <1>11 DEF by

\* A missing record has no parts.
LEMMA NoRecordSums == NoRecord.total = SumFunctionOnSet(NoRecord.by, Contributor)
  <1>1. NoRecord.total = 0 /\ \A x \in Contributor : NoRecord.by[x] = 0
    BY DEF NoRecord
  <1>2. SumFunctionOnSet(NoRecord.by, Contributor) = 0
    BY <1>1, FiniteAssumption, SumOfZeros
  <1> QED
    BY <1>1, <1>2

\* What a step may do to the record
LEMMA RecordStep ==
    ASSUME TypeOK, [Next]_vars
    PROVE  \/ record' = record \/ record' = NoRecord
           \/ \E c \in Contributor : record' = Counted(record, c, now)
           \/ \E c \in Contributor : record' = Cleared(record, c, now)
  <1>1. ASSUME NEW r \in Request, MakeAttempt(r)
        PROVE  record' = record \/ \E c \in Contributor : record' = Counted(record, c, now)
    <2>1. ip[r] \in Contributor
      BY RequestTypes
    <2>2. record' = record \/ record' = Counted(record, ip[r], now)
      BY <1>1 DEF MakeAttempt
    <2> QED
      BY <2>1, <2>2
  <1>2. ASSUME NEW r \in Request, NEW c \in config.from, ClearAttempts(r, c)
        PROVE  \E d \in Contributor : record' = Cleared(record, d, now)
    BY <1>2, FromType DEF ClearAttempts
  <1>3. CASE Tick
    BY <1>3 DEF Tick
  <1>4. ASSUME NEW r \in Request, NEW c \in config.from, NEW h \in Weights, Begin(r, c, h)
        PROVE  record' = record
    BY <1>4 DEF Begin, redis
  <1>5. ASSUME NEW r \in Request, Step(r), ~MakeAttempt(r),
               \A c \in config.from : ~ClearAttempts(r, c)
        PROVE  record' = record
    <2>1. CASE Reserve(r) \/ Cancel(r)
      BY <2>1 DEF Reserve, Cancel
    <2>2. CASE LockoutCheck(r) \/ LockoutCheckFails(r)
      BY <2>2 DEF LockoutCheck, LockoutCheckFails, redis
    <2>3. CASE CompareExempt(r)
               \/ \E result \in {"right", "wrong", "other"} : Compare(r, result)
      BY <2>3 DEF Compare, CompareExempt, redis
    <2>4. CASE LoginNotFinished(r) \/ CancelFails(r) \/ Crash(r)
      BY <2>4 DEF LoginNotFinished, CancelFails, Crash, redis
    <2> QED
      BY <1>5, <2>1, <2>2, <2>3, <2>4 DEF Step
  <1>6. CASE Observe
    BY <1>6 DEF Observe, redis
  <1>7. CASE UNCHANGED vars
    BY <1>7 DEF vars, redis
  <1> QED
    BY <1>1, <1>2, <1>3, <1>4, <1>5, <1>6, <1>7 DEF Next

\* The total that decides about a lock (lockout/record.go) is the sum of its parts in every
\* order of counting, clearing and expiry, for any number of contributors.
THEOREM TotalCorrect == Spec => []TotalIsSumOfParts
  <1>1. Init => TotalIsSumOfParts
    BY NoRecordSums DEF Init, TotalIsSumOfParts
  <1>2. TypeOK /\ TotalIsSumOfParts /\ [Next]_vars => TotalIsSumOfParts'
    <2> SUFFICES ASSUME TypeOK, TotalIsSumOfParts, [Next]_vars PROVE TotalIsSumOfParts'
      OBVIOUS
    <2>1. /\ record \in [total : Nat, by : [Contributor -> Nat], expireAt : Nat]
          /\ record.total = SumFunctionOnSet(record.by, Contributor) /\ now \in Nat
      BY DEF TypeOK, TotalIsSumOfParts
    <2>2. record'.total = SumFunctionOnSet(record'.by, Contributor)
      <3>1. CASE record' = record
        BY <2>1, <3>1
      <3>2. CASE record' = NoRecord
        BY <3>2, NoRecordSums
      <3>3. ASSUME NEW c \in Contributor, record' = Counted(record, c, now)
            PROVE  record'.total = SumFunctionOnSet(record'.by, Contributor)
        BY <2>1, <3>3, RecordSums
      <3>4. ASSUME NEW c \in Contributor, record' = Cleared(record, c, now)
            PROVE  record'.total = SumFunctionOnSet(record'.by, Contributor)
        BY <2>1, <3>4, RecordSums
      <3> QED
        BY <3>1, <3>2, <3>3, <3>4, RecordStep
    <2> QED
      BY <2>2 DEF TotalIsSumOfParts
  <1> QED
    BY <1>1, <1>2, TypeCorrect, PTL DEF Spec

----------------------------------------------------------------------------
(* Wrong guesses in a window.  RateIsBounded bounds what a bucket nets, and   *)
(* what a wrong guess cost is in it unless its token was taken before the     *)
(* window.  So the invariant counts, beside the guesses, the tokens that      *)
(* requests hold and may still guess with or give back: together they exceed  *)
(* the net by at most one token per request, since that is what a request can *)
(* hold when a window starts.                                                 *)

\* A request holds a token of a bucket: it has taken it and has neither guessed nor given back.
Holds(b, r) ==
    /\ ip[r] = b[1] /\ b[2] \in config.enabled
    /\ \/ pc[r] = "reserve" /\ b[2] < at[r]
       \/ pc[r] = "compare"
       \/ pc[r] = "cancel" /\ at[r] <= b[2]

Held(b) == [r \in Request |-> IF Holds(b, r) THEN Increment(Limits[b[2]], halves[r]) ELSE 0]

Debt(b) == guesses[b] + SumFunctionOnSet(Held(b), Request) - net[b]

DebtIsBounded ==
    \A b \in Bucket, h \in Weights :
        b[2] \in config.enabled /\ (\A other \in Weights : other <= h) =>
            Debt(b) <= Cardinality(Request) * Increment(Limits[b[2]], h)

\* Reserving starts at the first limit that is enabled.
StartsAtFirst == \A r \in Request : pc[r] = "idle" => at[r] = NextLimit(0)

\* Which limits the loops leave out: none that is enabled.
LEMMA NextLimitSkipsNone ==
    ASSUME NEW i \in Nat, config \in Config
    PROVE  /\ i <= Len(Limits) + 1 => i <= NextLimit(i)
           /\ \A j \in config.enabled :
                /\ j \in Nat /\ j >= 1 /\ j <= Len(Limits)
                /\ j < NextLimit(i) <=> j <= i
                /\ NextLimit(i) <= j <=> i < j
  <1> DEFINE next == {j \in config.enabled : j > i}
             least == CHOOSE j \in next : \A k \in next : j <= k
  <1>1. Len(Limits) \in Nat /\ config.enabled \subseteq 1 .. Len(Limits)
    BY LimitAssumption
  <1>2. NextLimit(i) = IF next = {} THEN Len(Limits) + 1 ELSE least
    BY DEF NextLimit
  <1>3. next \in SUBSET Nat
    BY <1>1
  <1>4. ASSUME next # {} PROVE least \in next /\ \A k \in next : least <= k
    <2>1. \E j \in next : \A k \in next : j <= k
      BY <1>3, <1>4, LeastExists
    <2> QED
      BY <2>1
  <1>5. \A j \in config.enabled : j \in next <=> j > i
    OBVIOUS
  <1>6. \A j \in next : j \in config.enabled
    OBVIOUS
  <1>7. CASE next = {}
    BY <1>1, <1>2, <1>5, <1>7
  <1>8. CASE next # {}
    <2>1. NextLimit(i) = least
      BY <1>2, <1>8
    <2>2. least \in next /\ \A k \in next : least <= k
      BY <1>4, <1>8
    <2> HIDE DEF least, next
    <2> QED
      BY <1>1, <1>5, <1>6, <2>1, <2>2
  <1> QED
    BY <1>7, <1>8

\* A heavier call costs more, and a cancellation gives back at most what the call has cost.
LEMMA IncrementOrder ==
    ASSUME NEW limit \in Limit, NEW h \in Nat
    PROVE  /\ \A k \in Nat : k <= h => Increment(limit, k) <= Increment(limit, h)
           /\ Increment(limit, h) + Increment(limit, -h) >= 0
  <1> DEFINE e == EmissionInterval(limit)
             p == e * h
  <1>1. e \in Nat
    BY LimitFacts
  <1> HIDE DEF e
  <1>2. p \in Nat /\ e * (-h) = -p
    BY <1>1
  <1>3. ASSUME NEW k \in Nat, k <= h PROVE (e * k + 1) \div 2 <= (p + 1) \div 2
    <2> DEFINE q == e * k
    <2>1. q \in Nat /\ q <= p
      BY <1>1, <1>3
    <2> HIDE DEF q, p
    <2>2. (q + 1) \div 2 <= (p + 1) \div 2
      BY <1>2, <2>1
    <2> QED
      BY <2>2 DEF q
  <1>4. (p + 1) \div 2 + (-p + 1) \div 2 >= 0
    <2> HIDE DEF p
    <2> QED
      BY <1>2
  <1> QED
    BY <1>2, <1>3, <1>4 DEF e, Increment

\* What is held, and the counts of the window, are numbers.
HeldIsNatural ==
    \A b \in Bucket :
        /\ \A r \in Request : Held(b)[r] \in Nat
        /\ SumFunctionOnSet(Held(b), Request) \in Nat
        /\ guesses[b] \in Nat /\ net[b] \in Int
        /\ \A h \in Weights, r \in Request :
             (\A other \in Weights : other <= h) => Held(b)[r] <= Increment(Limits[b[2]], h)

\* What is held is a natural number, at most the cost of the heaviest call.
LEMMA HeldType == TypeOK => HeldIsNatural
  <1> SUFFICES ASSUME TypeOK, NEW b \in Bucket
    PROVE  /\ \A r \in Request : Held(b)[r] \in Nat
           /\ SumFunctionOnSet(Held(b), Request) \in Nat
           /\ guesses[b] \in Nat /\ net[b] \in Int
           /\ \A h \in Weights, r \in Request :
                (\A other \in Weights : other <= h) =>
                    Held(b)[r] <= Increment(Limits[b[2]], h)
    BY DEF HeldIsNatural
  <1>1. Limits[b[2]] \in Limit
    BY BucketLimit
  <1>2. \A r \in Request : halves[r] \in Nat
    BY RequestTypes
  <1>3. \A r \in Request : Increment(Limits[b[2]], halves[r]) \in Nat
    BY <1>1, <1>2, IncrementFacts
  <1>4. \A r \in Request : Held(b)[r] \in Nat
    BY <1>3 DEF Held
  <1>5. SumFunctionOnSet(Held(b), Request) \in Nat
    BY <1>4, FiniteAssumption, SumOfNaturals
  <1>6. ASSUME NEW h \in Weights, NEW r \in Request, \A other \in Weights : other <= h
        PROVE  Held(b)[r] <= Increment(Limits[b[2]], h)
    <2>1. h \in Nat /\ Increment(Limits[b[2]], h) \in Nat
      <3>1. h \in Nat
        BY LimitAssumption
      <3> QED
        BY <1>1, <3>1, IncrementFacts
    <2>2. halves[r] \in Weights \cup {0}
      BY DEF TypeOK
    <2>3. halves[r] <= h
      <3>1. \A k \in Weights \cup {0} : k <= h
        BY <1>6, <2>1
      <3> QED
        BY <2>2, <3>1
    <2>4. Increment(Limits[b[2]], halves[r]) <= Increment(Limits[b[2]], h)
      BY <1>1, <1>2, <2>1, <2>3, IncrementOrder
    <2>5. Held(b)[r] = Increment(Limits[b[2]], halves[r]) \/ Held(b)[r] = 0
      BY DEF Held
    <2> QED
      BY <2>1, <2>4, <2>5
  <1>7. guesses[b] \in Nat /\ net[b] \in Int
    BY DEF TypeOK
  <1> QED
    BY <1>4, <1>5, <1>6, <1>7

\* The same after a step
LEMMA HeldTypeNext == TypeOK' => HeldIsNatural'
  BY HeldType, PTL

\* A step of one request changes the debt of a bucket by what the request itself changes.
LEMMA DebtOfOneRequest ==
    ASSUME TypeOK, TypeOK', DebtIsBounded, config' = config, NEW r \in Request,
           \A q \in Request \ {r} :
               pc'[q] = pc[q] /\ ip'[q] = ip[q] /\ halves'[q] = halves[q] /\ at'[q] = at[q],
           \A b \in Bucket :
               b[2] \in config.enabled =>
                   guesses'[b] + Held(b)'[r] + net[b] <= guesses[b] + Held(b)[r] + net'[b]
    PROVE  DebtIsBounded'
  <1> SUFFICES ASSUME NEW b \in Bucket, NEW h \in Weights, b[2] \in config.enabled,
                      \A other \in Weights : other <= h
               PROVE  Debt(b)' <= Cardinality(Request) * Increment(Limits[b[2]], h)
    BY DEF DebtIsBounded
  <1>1. /\ \A q \in Request : Held(b)[q] \in Nat
        /\ SumFunctionOnSet(Held(b), Request) \in Nat /\ guesses[b] \in Nat /\ net[b] \in Int
    BY HeldType DEF HeldIsNatural
  <1>2. /\ \A q \in Request : Held(b)'[q] \in Nat
        /\ SumFunctionOnSet(Held(b)', Request) \in Nat /\ guesses'[b] \in Nat /\ net'[b] \in Int
    BY HeldTypeNext DEF HeldIsNatural
  <1>3. \A q \in Request \ {r} : Held(b)[q] = Held(b)'[q]
    BY DEF Held, Holds
  <1> DEFINE f == Held(b)
             g == Held(b)'
  <1>4. SumFunctionOnSet(g, Request) = SumFunctionOnSet(f, Request) + (g[r] - f[r])
    <2>1. /\ \A q \in Request : f[q] \in Int /\ g[q] \in Int
          /\ \A q \in Request \ {r} : f[q] = g[q]
      BY <1>1, <1>2, <1>3
    <2>2. IsFiniteSet(Request)
      BY FiniteAssumption
    <2> HIDE DEF f, g
    <2>3. SumChange(Request, f, g, r)
      BY <2>1, <2>2, SumOfChangedTerm
    <2> QED
      BY <2>3 DEF SumChange
  <1>5. Debt(b) <= Cardinality(Request) * Increment(Limits[b[2]], h)
    BY DEF DebtIsBounded
  <1> DEFINE n == Cardinality(Request)
             i == Increment(Limits[b[2]], h)
  <1>6. n * i \in Int
    <2>1. n \in Nat
      BY FiniteAssumption, FS_CardinalityType
    <2>2. h \in Nat /\ Limits[b[2]] \in Limit
      BY LimitAssumption, BucketLimit
    <2>3. i \in Nat
      BY <2>2, IncrementFacts
    <2> HIDE DEF n, i
    <2> QED
      BY <2>1, <2>3
  <1> DEFINE s == SumFunctionOnSet(f, Request)
             t == SumFunctionOnSet(g, Request)
             m == n * i
             gain == guesses'[b] - guesses[b]
             held == g[r] - f[r]
             paid == net'[b] - net[b]
  <1>a. /\ guesses[b] \in Int /\ net[b] \in Int /\ guesses'[b] \in Int /\ net'[b] \in Int
        /\ f[r] \in Int /\ g[r] \in Int /\ s \in Int
    BY <1>1, <1>2
  <1>b. guesses'[b] + g[r] + net[b] <= guesses[b] + f[r] + net'[b]
    OBVIOUS
  <1>8. Debt(b) = guesses[b] + s - net[b] /\ Debt(b)' = guesses'[b] + t - net'[b]
    BY DEF Debt
  <1>9. t = s + held
    BY <1>4
  <1>7. gain + held <= paid /\ gain \in Int /\ held \in Int /\ paid \in Int
    <2> HIDE DEF f, g
    <2>1. gain \in Int /\ held \in Int /\ paid \in Int
      BY <1>a
    <2>2. gain + held <= paid
      BY <1>a, <1>b
    <2> QED
      BY <2>1, <2>2
  <1>10. Debt(b) \in Int /\ Debt(b)' = Debt(b) + gain + held - paid
    <2>1. guesses'[b] = guesses[b] + gain /\ net'[b] = net[b] + paid
      BY <1>a
    <2> HIDE DEF s, t, held, gain, paid
    <2>2. Debt(b)' = (guesses[b] + gain) + (s + held) - (net[b] + paid)
      BY <1>8, <1>9, <2>1, Zenon
    <2>3. Debt(b) \in Int
      BY <1>8, <1>a
    <2> QED
      BY <1>7, <1>8, <1>a, <2>2, <2>3
  <1>11. Debt(b) <= m /\ m \in Int
    BY <1>5, <1>6
  <1> HIDE DEF f, g, n, i, m, gain, held, paid
  <1>12. Debt(b)' <= m
    BY <1>7, <1>10, <1>11
  <1> QED
    BY <1>12 DEF m, n, i

\* Requests start to reserve at the first limit that is enabled.
LEMMA StartInductive ==
    ASSUME TypeOK, StartsAtFirst, [Next]_vars
    PROVE  StartsAtFirst'
  <1>1. /\ pc \in [Request -> {"idle", "reserve", "compare", "attempt", "cancel", "verified"}]
        /\ at \in [Request -> 1 .. Len(Limits) + 1]
    BY DEF TypeOK
  <1>2. ASSUME config' = config, NEW r \in Request, Return(r) PROVE StartsAtFirst'
    <2>1. NextLimit(0)' = NextLimit(0)
      BY <1>2 DEF NextLimit
    <2>2. pc' = [pc EXCEPT ![r] = "idle"] /\ at' = [at EXCEPT ![r] = NextLimit(0)]
      BY <1>2 DEF Return
    <2>3. \A q \in Request : pc'[q] = "idle" => at'[q] = NextLimit(0)
      BY <1>1, <2>2 DEF StartsAtFirst
    <2> QED
      BY <2>1, <2>3 DEF StartsAtFirst
  <1>3. ASSUME config' = config, pc' = pc, at' = at PROVE StartsAtFirst'
    BY <1>1, <1>3 DEF StartsAtFirst, NextLimit
  <1>4. ASSUME config' = config, NEW r \in Request, NEW s, s # "idle",
               pc' = [pc EXCEPT ![r] = s],
               at' = at \/ \E i : at' = [at EXCEPT ![r] = i]
        PROVE  StartsAtFirst'
    BY <1>1, <1>4 DEF StartsAtFirst, NextLimit
  <1>5. ASSUME config' = config, NEW r \in Request, pc[r] # "idle", pc' = pc,
               \E i : at' = [at EXCEPT ![r] = i]
        PROVE  StartsAtFirst'
    BY <1>1, <1>5 DEF StartsAtFirst, NextLimit
  <1>6. ASSUME config' = config, NEW r \in Request, pc[r] = "cancel", CancelDone(r)
        PROVE  StartsAtFirst'
    BY <1>2, <1>4, <1>5, <1>6 DEF CancelDone, locals
  <1>7. ASSUME NEW r \in Request, NEW c \in config.from, NEW h \in Weights, Begin(r, c, h)
        PROVE  StartsAtFirst'
    BY <1>4, <1>7 DEF Begin, Goto
  <1>8. ASSUME NEW r \in Request, Reserve(r) PROVE StartsAtFirst'
    BY <1>2, <1>5, <1>8 DEF Reserve
  <1>9. ASSUME NEW r \in Request, LockoutCheck(r) \/ LockoutCheckFails(r) PROVE StartsAtFirst'
    BY <1>4, <1>9 DEF LockoutCheck, LockoutCheckFails, Goto
  <1>10. ASSUME NEW r \in Request, NEW v \in {"right", "wrong", "other"}, Compare(r, v)
         PROVE  StartsAtFirst'
    BY <1>4, <1>10 DEF Compare, Goto
  <1>11. ASSUME NEW r \in Request, NEW c,
                \/ CompareExempt(r) \/ MakeAttempt(r) \/ ClearAttempts(r, c)
                \/ LoginNotFinished(r) \/ Crash(r)
         PROVE  StartsAtFirst'
    BY <1>2, <1>11 DEF CompareExempt, MakeAttempt, ClearAttempts, LoginNotFinished, Crash
  <1>12. ASSUME NEW r \in Request, Cancel(r) \/ CancelFails(r) PROVE StartsAtFirst'
    BY <1>6, <1>12 DEF Cancel, CancelFails
  <1>13. CASE Tick \/ Observe \/ UNCHANGED vars
    BY <1>3, <1>13 DEF Tick, Observe, vars, locals
  <1> QED
    BY <1>7, <1>8, <1>9, <1>10, <1>11, <1>12, <1>13 DEF Next, Step

\* A request that returns holds nothing.
LEMMA ReturnHolds ==
    ASSUME TypeOK, NEW r \in Request, Return(r) PROVE \A b \in Bucket : Held(b)'[r] = 0
  <1>1. pc'[r] = "idle"
    BY DEF TypeOK, Return
  <1> QED
    BY <1>1 DEF Held, Holds

\* A return changes the variables of one request.
LEMMA ReturnFrame ==
    ASSUME TypeOK, NEW r \in Request, Return(r)
    PROVE  \A q \in Request \ {r} :
               pc'[q] = pc[q] /\ ip'[q] = ip[q] /\ halves'[q] = halves[q] /\ at'[q] = at[q]
  BY DEF TypeOK, Return

\* A call of the script changes the net of its bucket.
LEMMA UpdateNet ==
    ASSUME TypeOK, NEW b \in Bucket, NEW h \in Int, Update(b, h)
    PROVE  /\ \A c \in Bucket \ {b} : net'[c] = net[c]
           /\ IsConforming(Limits[b[2]], tat[b], now, h)
                 => net'[b] = net[b] + Increment(Limits[b[2]], h)
           /\ ~IsConforming(Limits[b[2]], tat[b], now, h) => net' = net
  <1>1. net \in [Bucket -> Int]
    BY DEF TypeOK
  <1> DEFINE n == net[b] + Increment(Limits[b[2]], h)
  <1>2. net' = IF IsConforming(Limits[b[2]], tat[b], now, h) THEN [net EXCEPT ![b] = n] ELSE net
    BY DEF Update
  <1> HIDE DEF n
  <1>3. /\ \A c \in Bucket \ {b} : net'[c] = net[c]
        /\ IsConforming(Limits[b[2]], tat[b], now, h) => net'[b] = n
        /\ ~IsConforming(Limits[b[2]], tat[b], now, h) => net' = net
    BY <1>1, <1>2
  <1> QED
    BY <1>3 DEF n

\* A reservation is held until it is used.
LEMMA ReserveKeepsDebt ==
    ASSUME TypeOK, TypeOK', DebtIsBounded, NEW r \in Request, Reserve(r)
    PROVE  DebtIsBounded'
  <1> DEFINE c == <<ip[r], at[r]>>
             limit == Limits[c[2]]
             h == halves[r]
  <1>1. /\ c \in Bucket /\ c[1] = ip[r] /\ c[2] = at[r] /\ h \in Nat /\ at[r] \in Nat
        /\ limit \in Limit /\ config \in Config
    BY RequestTypes DEF Reserve, TypeOK
  <1>2. /\ pc[r] = "reserve" /\ Update(c, h) /\ guesses' = guesses /\ config' = config
    BY DEF Reserve
  <1>3. HeldIsNatural
    BY HeldType
  <1>4. /\ \A b \in Bucket \ {c} : net'[b] = net[b]
        /\ IsConforming(limit, tat[c], now, h) => net'[c] = net[c] + Increment(limit, h)
        /\ ~IsConforming(limit, tat[c], now, h) => net' = net
    <2>1. h \in Int
      BY <1>1
    <2> HIDE DEF c, h
    <2> QED
      BY <1>1, <1>2, <2>1, UpdateNet
  <1>5. CASE ~IsConforming(limit, tat[c], now, h)
    <2>1. Return(r)
      BY <1>5 DEF Reserve
    <2>2. \A b \in Bucket : Held(b)'[r] = 0 /\ 0 <= Held(b)[r] /\ Held(b)[r] \in Int
      BY <1>3, <2>1, ReturnHolds DEF HeldIsNatural
    <2>3. ASSUME NEW b \in Bucket
          PROVE  guesses'[b] + Held(b)'[r] + net[b] <= guesses[b] + Held(b)[r] + net'[b]
      <3>1. guesses[b] \in Int /\ net[b] \in Int
        BY <1>3 DEF HeldIsNatural
      <3> QED
        BY <1>2, <1>4, <1>5, <2>2, <3>1
    <2> QED
      BY <1>2, <2>1, <2>3, ReturnFrame, DebtOfOneRequest
  <1>6. CASE IsConforming(limit, tat[c], now, h)
    <2>1. /\ at' = [at EXCEPT ![r] = NextLimit(at[r])] /\ pc' = pc /\ ip' = ip
          /\ halves' = halves
      BY <1>6 DEF Reserve
    <2>2. at'[r] = NextLimit(at[r]) /\ \A q \in Request \ {r} : at'[q] = at[q]
      BY <2>1 DEF TypeOK
    <2>3. ASSUME NEW b \in Bucket, b[2] \in config.enabled
          PROVE  guesses'[b] + Held(b)'[r] + net[b] <= guesses[b] + Held(b)[r] + net'[b]
      <3>1. /\ guesses[b] \in Int /\ net[b] \in Int /\ Held(b)[r] \in Int
        BY <1>3 DEF HeldIsNatural
      <3>2. b[2] < at'[r] <=> b[2] <= at[r]
        BY <1>1, <2>2, <2>3, NextLimitSkipsNone
      <3>3. b[2] \in Nat
        BY <1>1, <2>3, NextLimitSkipsNone
      <3>4. CASE b = c
        <4>1. Held(b)[r] = 0
          BY <1>1, <1>2, <3>4 DEF Held, Holds
        <4>2. Held(b)'[r] = Increment(limit, h)
          BY <1>1, <1>2, <2>1, <2>3, <3>2, <3>3, <3>4 DEF Held, Holds
        <4>3. net'[b] = net[b] + Increment(limit, h) /\ Increment(limit, h) \in Int
          BY <1>1, <1>4, <1>6, <3>4, IncrementIsInt
        <4> DEFINE i == Increment(limit, h)
        <4> HIDE DEF i
        <4> QED
          BY <1>2, <3>1, <4>1, <4>2, <4>3 DEF i
      <3>5. CASE b # c
        <4>1. net'[b] = net[b]
          BY <1>4, <3>5
        <4>2. ip[r] = b[1] => b[2] # at[r]
          BY <1>1, <3>5 DEF Bucket
        <4>3. Held(b)'[r] = Held(b)[r]
          BY <1>1, <1>2, <2>1, <2>3, <3>2, <3>3, <4>2 DEF Held, Holds
        <4> QED
          BY <1>2, <3>1, <4>1, <4>3
      <3> QED
        BY <3>4, <3>5
    <2> QED
      BY <1>2, <2>1, <2>2, <2>3, DebtOfOneRequest
  <1> QED
    BY <1>5, <1>6

\* A cancellation gives back at most what the reservation has cost.
LEMMA CancelKeepsDebt ==
    ASSUME TypeOK, TypeOK', DebtIsBounded, NEW r \in Request, Cancel(r) \/ CancelFails(r)
    PROVE  DebtIsBounded'
  <1> DEFINE c == <<ip[r], at[r]>>
             limit == Limits[c[2]]
             h == halves[r]
  <1>1. /\ h \in Nat /\ at[r] \in Nat /\ config \in Config /\ c[1] = ip[r] /\ c[2] = at[r]
        /\ at[r] \in config.enabled => c \in Bucket /\ limit \in Limit
    <2>1. config \in Config
      BY DEF TypeOK
    <2> QED
      BY <2>1, RequestTypes
  <1>2. pc[r] = "cancel" /\ CancelDone(r) /\ guesses' = guesses /\ config' = config
    BY DEF Cancel, CancelFails, window
  <1>3. HeldIsNatural
    BY HeldType
  <1>4. /\ net' = net \/ (at[r] \in config.enabled /\ Update(c, -h))
    BY DEF Cancel, CancelFails, window
  <1>5. /\ \A q \in Request \ {r} :
              pc'[q] = pc[q] /\ ip'[q] = ip[q] /\ halves'[q] = halves[q] /\ at'[q] = at[q]
        /\ \/ pc'[r] # "cancel" /\ pc'[r] \notin {"reserve", "compare"}
           \/ /\ pc'[r] = "cancel" /\ at'[r] = NextLimit(at[r])
              /\ ip' = ip /\ halves' = halves
    <2>1. CASE at' = [at EXCEPT ![r] = NextLimit(@)] /\ UNCHANGED <<pc, ip, halves, verdict>>
      BY <1>2, <2>1 DEF TypeOK
    <2>2. CASE pc' = [pc EXCEPT ![r] = "verified"] /\ UNCHANGED locals
      BY <2>2 DEF TypeOK, locals
    <2>3. CASE Return(r)
      BY <2>3 DEF TypeOK, Return
    <2> QED
      BY <1>2, <2>1, <2>2, <2>3 DEF CancelDone
  <1>6. ASSUME NEW b \in Bucket, b[2] \in config.enabled
        PROVE  guesses'[b] + Held(b)'[r] + net[b] <= guesses[b] + Held(b)[r] + net'[b]
    <2>1. /\ guesses[b] \in Int /\ net[b] \in Int
          /\ Held(b)[r] \in Int /\ Held(b)[r] >= 0
      BY <1>3 DEF HeldIsNatural
    <2>2. b[2] \in Nat /\ (NextLimit(at[r]) <= b[2] <=> at[r] < b[2])
      BY <1>1, <1>6, NextLimitSkipsNone
    <2>3. \/ Held(b)'[r] = 0
          \/ Held(b)'[r] = Held(b)[r] /\ (ip[r] = b[1] => b[2] # at[r])
      <3>1. CASE Holds(b, r)'
        <4>1. /\ pc'[r] = "cancel" /\ at'[r] = NextLimit(at[r]) /\ ip' = ip
              /\ halves' = halves
          BY <1>5, <3>1 DEF Holds
        <4>2. ip[r] = b[1] /\ NextLimit(at[r]) <= b[2]
          BY <3>1, <4>1 DEF Holds
        <4>3. at[r] < b[2]
          BY <2>2, <4>2
        <4>4. Holds(b, r)
          BY <1>1, <1>2, <1>6, <2>2, <4>2, <4>3 DEF Holds
        <4>5. Held(b)'[r] = Held(b)[r]
          BY <3>1, <4>1, <4>4 DEF Held
        <4> QED
          BY <1>1, <2>2, <4>3, <4>5
      <3>2. CASE ~Holds(b, r)'
        BY <3>2 DEF Held
      <3> QED
        BY <3>1, <3>2
    <2>4. CASE net'[b] = net[b]
      BY <1>2, <2>1, <2>3, <2>4
    <2>5. CASE net'[b] # net[b]
      <3>1. at[r] \in config.enabled /\ Update(c, -h)
        BY <1>4, <2>5
      <3>2. b = c /\ net'[b] = net[b] + Increment(limit, -h)
        <4>1. -h \in Int /\ c \in Bucket
          BY <1>1, <3>1
        <4> DEFINE k == -h
        <4>2. /\ \A x \in Bucket \ {c} : net'[x] = net[x]
              /\ net' = net \/ net'[c] = net[c] + Increment(limit, k)
          <5> HIDE DEF c, k
          <5> QED
            BY <3>1, <4>1, UpdateNet DEF k
        <4> HIDE DEF c, k, limit
        <4> QED
          BY <2>5, <4>2 DEF k
      <3>3. limit \in Limit /\ b[1] = ip[r] /\ b[2] = at[r]
        BY <1>1, <3>1, <3>2
      <3>4. Held(b)'[r] = 0
        BY <2>3, <3>3
      <3>5. Held(b)[r] = Increment(limit, h)
        BY <1>1, <1>2, <1>6, <3>2, <3>3 DEF Held, Holds
      <3>6. /\ Increment(limit, h) + Increment(limit, -h) >= 0
            /\ Increment(limit, h) \in Int /\ Increment(limit, -h) \in Int
        BY <1>1, <3>3, IncrementOrder, IncrementIsInt
      <3> DEFINE up == Increment(limit, h)
                 down == Increment(limit, -h)
      <3> HIDE DEF up, down
      <3> QED
        BY <1>2, <2>1, <3>2, <3>4, <3>5, <3>6 DEF up, down
    <2> QED
      BY <2>4, <2>5
  <1> QED
    BY <1>2, <1>5, <1>6, DebtOfOneRequest

\* A wrong guess uses what was held for it.
LEMMA CompareKeepsDebt ==
    ASSUME TypeOK, TypeOK', DebtIsBounded, NEW r \in Request,
           NEW v \in {"right", "wrong", "other"}, Compare(r, v)
    PROVE  DebtIsBounded'
  <1>1. /\ pc[r] = "compare" /\ ip' = ip /\ halves' = halves /\ net' = net
        /\ config' = config /\ config \in Config
    BY DEF Compare, TypeOK
  <1>2. HeldIsNatural
    BY HeldType
  <1>3. /\ \A q \in Request \ {r} :
              pc'[q] = pc[q] /\ ip'[q] = ip[q] /\ halves'[q] = halves[q] /\ at'[q] = at[q]
        /\ at'[r] = NextLimit(0)
        /\ pc'[r] = IF v = "wrong" THEN "attempt" ELSE "cancel"
    BY DEF Compare, Goto, TypeOK
  <1>4. ASSUME NEW b \in Bucket, b[2] \in config.enabled
        PROVE  guesses'[b] + Held(b)'[r] + net[b] <= guesses[b] + Held(b)[r] + net'[b]
    <2>1. guesses[b] \in Int /\ net[b] \in Int /\ Held(b)[r] \in Int
      BY <1>2, <1>4 DEF HeldIsNatural
    <2> DEFINE cost == IF b[1] = ip[r] THEN Increment(Limits[b[2]], halves[r]) ELSE 0
    <2>2. Held(b)[r] = cost
      BY <1>1, <1>4 DEF Held, Holds
    <2>3. CASE v = "wrong"
      <3>1. Held(b)'[r] = 0
        BY <1>3, <2>3 DEF Held, Holds
      <3>2. guesses'[b] = guesses[b] + cost
        <4> DEFINE more(x) == IF x[1] = ip[r] /\ x[2] \in config.enabled
                              THEN Increment(Limits[x[2]], halves[r]) ELSE 0
        <4>1. guesses' = [x \in Bucket |-> guesses[x] + more(x)]
          BY <2>3 DEF Compare, CountGuess
        <4>2. more(b) = cost
          BY <1>4
        <4> HIDE DEF more, cost
        <4> QED
          BY <4>1, <4>2
      <3> HIDE DEF cost
      <3> QED
        BY <1>1, <2>1, <2>2, <3>1, <3>2
    <2>4. CASE v # "wrong"
      <3>1. guesses' = guesses
        BY <2>4 DEF Compare
      <3>2. NextLimit(0) <= b[2]
        <4>1. b[2] \in Nat /\ b[2] >= 1 /\ (NextLimit(0) <= b[2] <=> 0 < b[2])
          BY <1>1, <1>4, NextLimitSkipsNone
        <4> QED
          BY <4>1
      <3>3. Held(b)'[r] = cost
        BY <1>1, <1>3, <1>4, <2>4, <3>2 DEF Held, Holds
      <3> QED
        BY <1>1, <2>1, <2>2, <3>1, <3>3
    <2> QED
      BY <2>3, <2>4
  <1> QED
    BY <1>1, <1>3, <1>4, DebtOfOneRequest

\* So does one with a method that takes no part in the lockout.
LEMMA CompareExemptKeepsDebt ==
    ASSUME TypeOK, TypeOK', DebtIsBounded, NEW r \in Request, CompareExempt(r)
    PROVE  DebtIsBounded'
  <1>1. /\ pc[r] = "compare" /\ Return(r) /\ net' = net
        /\ config' = config /\ config \in Config
    BY DEF CompareExempt, TypeOK
  <1>2. HeldIsNatural
    BY HeldType
  <1>3. ASSUME NEW b \in Bucket, b[2] \in config.enabled
        PROVE  guesses'[b] + Held(b)'[r] + net[b] <= guesses[b] + Held(b)[r] + net'[b]
    <2>1. guesses[b] \in Int /\ net[b] \in Int /\ Held(b)[r] \in Int
      BY <1>2, <1>3 DEF HeldIsNatural
    <2> DEFINE cost == IF b[1] = ip[r] THEN Increment(Limits[b[2]], halves[r]) ELSE 0
               more(x) == IF x[1] = ip[r] /\ x[2] \in config.enabled
                          THEN Increment(Limits[x[2]], halves[r]) ELSE 0
    <2>2. Held(b)[r] = cost
      BY <1>1, <1>3 DEF Held, Holds
    <2>3. Held(b)'[r] = 0
      BY <1>1, ReturnHolds
    <2>4. guesses' = [x \in Bucket |-> guesses[x] + more(x)]
      BY DEF CompareExempt, CountGuess
    <2>5. more(b) = cost
      BY <1>3
    <2> HIDE DEF more, cost
    <2> QED
      BY <1>1, <2>1, <2>2, <2>3, <2>4, <2>5
  <1>4. \A q \in Request \ {r} :
            pc'[q] = pc[q] /\ ip'[q] = ip[q] /\ halves'[q] = halves[q] /\ at'[q] = at[q]
    BY <1>1, ReturnFrame
  <1> QED
    BY <1>1, <1>3, <1>4, DebtOfOneRequest

\* The other steps of a request change no count, and nobody comes to hold more by them.
LEMMA OthersKeepDebt ==
    ASSUME TypeOK, TypeOK', DebtIsBounded, StartsAtFirst, NEW r \in Request,
           \/ \E c \in config.from, h \in Weights : Begin(r, c, h)
           \/ LockoutCheck(r) \/ LockoutCheckFails(r) \/ MakeAttempt(r)
           \/ (\E c \in config.from : ClearAttempts(r, c))
           \/ LoginNotFinished(r) \/ Crash(r)
    PROVE  DebtIsBounded'
  <1>1. guesses' = guesses /\ net' = net /\ config' = config /\ config \in Config
    BY DEF Begin, LockoutCheck, LockoutCheckFails, MakeAttempt, ClearAttempts, LoginNotFinished,
           Crash, window, TypeOK
  <1>2. HeldIsNatural
    BY HeldType
  <1>3. ASSUME \A q \in Request \ {r} :
                   pc'[q] = pc[q] /\ ip'[q] = ip[q] /\ halves'[q] = halves[q] /\ at'[q] = at[q],
               \A b \in Bucket : b[2] \in config.enabled =>
                   Held(b)'[r] = 0 \/ Held(b)'[r] = Held(b)[r]
        PROVE  DebtIsBounded'
    <2>1. ASSUME NEW b \in Bucket, b[2] \in config.enabled
          PROVE  guesses'[b] + Held(b)'[r] + net[b] <= guesses[b] + Held(b)[r] + net'[b]
      <3>1. guesses[b] \in Int /\ net[b] \in Int /\ Held(b)[r] \in Int /\ Held(b)[r] >= 0
        BY <1>2, <2>1 DEF HeldIsNatural
      <3> QED
        BY <1>1, <1>3, <2>1, <3>1
    <2> QED
      BY <1>1, <1>3, <2>1, DebtOfOneRequest
  <1>4. CASE Return(r)
    BY <1>3, <1>4, ReturnHolds, ReturnFrame
  <1>5. ASSUME NEW c \in config.from, NEW h \in Weights, Begin(r, c, h)
        PROVE  DebtIsBounded'
    <2>1. /\ pc[r] = "idle" /\ pc' = [pc EXCEPT ![r] = "reserve"] /\ at' = at
          /\ ip' = [ip EXCEPT ![r] = c] /\ halves' = [halves EXCEPT ![r] = h]
      BY <1>5 DEF Begin, Goto
    <2>2. at[r] = NextLimit(0) /\ pc'[r] = "reserve"
      BY <2>1 DEF StartsAtFirst, TypeOK
    <2>3. \A b \in Bucket : b[2] \in config.enabled => ~(b[2] < NextLimit(0))
      BY <1>1, NextLimitSkipsNone
    <2>4. \A b \in Bucket : b[2] \in config.enabled => Held(b)'[r] = 0
      BY <1>1, <2>1, <2>2, <2>3 DEF Held, Holds
    <2>5. \A q \in Request \ {r} :
              pc'[q] = pc[q] /\ ip'[q] = ip[q] /\ halves'[q] = halves[q] /\ at'[q] = at[q]
      BY <2>1 DEF TypeOK
    <2> QED
      BY <1>3, <2>4, <2>5
  <1>6. CASE LockoutCheck(r) \/ LockoutCheckFails(r)
    <2>1. /\ pc[r] = "reserve" /\ at[r] \notin DOMAIN Limits /\ ip' = ip /\ halves' = halves
          /\ \/ pc' = [pc EXCEPT ![r] = "compare"] /\ at' = at
             \/ pc' = [pc EXCEPT ![r] = "cancel"] /\ at' = [at EXCEPT ![r] = NextLimit(0)]
      BY <1>6 DEF LockoutCheck, LockoutCheckFails, Goto
    <2>2. \/ pc'[r] = "compare"
          \/ pc'[r] = "cancel" /\ at'[r] = NextLimit(0)
      BY <2>1 DEF TypeOK
    <2>3. at[r] = Len(Limits) + 1
      <3>1. at[r] \in 1 .. Len(Limits) + 1 /\ Len(Limits) \in Nat
            /\ DOMAIN Limits = 1 .. Len(Limits)
        BY DEF TypeOK
      <3> QED
        BY <2>1, <3>1
    <2>4. ASSUME NEW b \in Bucket, b[2] \in config.enabled
          PROVE  Held(b)'[r] = Held(b)[r]
      <3>1. b[2] < at[r] /\ NextLimit(0) <= b[2]
        <4>1. /\ b[2] \in Nat /\ b[2] <= Len(Limits) /\ b[2] > 0
              /\ NextLimit(0) <= b[2] <=> 0 < b[2]
          BY <1>1, <2>4, NextLimitSkipsNone
        <4> QED
          BY <2>3, <4>1
      <3> QED
        BY <1>1, <2>1, <2>2, <2>4, <3>1 DEF Held, Holds
    <2>5. \A q \in Request \ {r} :
              pc'[q] = pc[q] /\ ip'[q] = ip[q] /\ halves'[q] = halves[q] /\ at'[q] = at[q]
      BY <2>1 DEF TypeOK
    <2> QED
      BY <1>3, <2>4, <2>5
  <1> QED
    BY <1>4, <1>5, <1>6 DEF MakeAttempt, ClearAttempts, LoginNotFinished, Crash

\* At the start of a window no request holds more than its token.
LEMMA DebtOfWindow ==
    ASSUME TypeOK,
           \A b \in Bucket : guesses[b] = 0 /\ net[b] = 0
    PROVE  DebtIsBounded
  <1> SUFFICES ASSUME NEW b \in Bucket, NEW h \in Weights, b[2] \in config.enabled,
                      \A other \in Weights : other <= h
               PROVE  Debt(b) <= Cardinality(Request) * Increment(Limits[b[2]], h)
    BY DEF DebtIsBounded
  <1>1. /\ \A r \in Request : Held(b)[r] \in Nat /\ Held(b)[r] <= Increment(Limits[b[2]], h)
        /\ SumFunctionOnSet(Held(b), Request) \in Nat
    BY HeldType DEF HeldIsNatural
  <1>2. h \in Nat /\ Limits[b[2]] \in Limit /\ IsFiniteSet(Request)
    BY FiniteAssumption, LimitAssumption, BucketLimit
  <1>3. Increment(Limits[b[2]], h) \in Nat
    BY <1>2, IncrementFacts
  <1> DEFINE f == Held(b)
             m == Increment(Limits[b[2]], h)
  <1>4. \A r \in Request : f[r] \in Int /\ f[r] <= m
    BY <1>1
  <1> HIDE DEF f, m
  <1>5. SumFunctionOnSet(f, Request) <= Cardinality(Request) * m
    BY <1>2, <1>3, <1>4, SumIsBounded DEF m
  <1>6. Debt(b) = SumFunctionOnSet(f, Request)
    BY <1>1 DEF Debt, f
  <1> QED
    BY <1>5, <1>6 DEF m

\* Every step keeps the bound.
LEMMA DebtInductive ==
    ASSUME TypeOK, TypeOK', DebtIsBounded, StartsAtFirst, [Next]_vars
    PROVE  DebtIsBounded'
  <1>1. ASSUME UNCHANGED <<config, pc, ip, halves, at, guesses, net>> PROVE DebtIsBounded'
    <2>1. \A b \in Bucket : Debt(b)' = Debt(b)
      <3>1. \A b \in Bucket : Held(b)' = Held(b)
        BY <1>1 DEF Held, Holds
      <3> QED
        BY <1>1, <3>1 DEF Debt
    <2> QED
      BY <1>1, <2>1 DEF DebtIsBounded
  <1>2. CASE Observe
    <2>1. \A b \in Bucket : guesses'[b] = 0 /\ net'[b] = 0
      BY <1>2 DEF Observe
    <2>2. (TypeOK /\ (\A b \in Bucket : guesses[b] = 0 /\ net[b] = 0) => DebtIsBounded)'
      BY DebtOfWindow, PTL
    <2> QED
      BY <2>1, <2>2
  <1>3. CASE Tick
    BY <1>1, <1>3 DEF Tick, locals, window
  <1>4. CASE UNCHANGED vars
    BY <1>1, <1>4 DEF vars, locals, window
  <1>5. ASSUME NEW r \in Request, NEW c \in config.from, NEW h \in Weights, Begin(r, c, h)
        PROVE  DebtIsBounded'
    BY <1>5, OthersKeepDebt
  <1>6. ASSUME NEW r \in Request, Step(r) PROVE DebtIsBounded'
    BY <1>6, ReserveKeepsDebt, CancelKeepsDebt, CompareKeepsDebt, CompareExemptKeepsDebt,
       OthersKeepDebt DEF Step
  <1> QED
    BY <1>2, <1>3, <1>4, <1>5, <1>6 DEF Next

\* For any number of requests, limits and weights: in any window the wrong guesses at a
\* bucket take at most its burst, what leaks meanwhile, and one token per request.
THEOREM GuessRateCorrect == Spec => []GuessRateIsBounded
  <1>1. Init => DebtIsBounded /\ StartsAtFirst
    <2> SUFFICES ASSUME Init PROVE DebtIsBounded /\ StartsAtFirst
      OBVIOUS
    <2>1. DebtIsBounded
      BY TypeInit, DebtOfWindow DEF Init
    <2>2. StartsAtFirst
      BY DEF Init, StartsAtFirst
    <2> QED
      BY <2>1, <2>2
  <1>2. TypeOK /\ TypeOK' /\ DebtIsBounded /\ StartsAtFirst /\ [Next]_vars
            => DebtIsBounded' /\ StartsAtFirst'
    BY DebtInductive, StartInductive
  <1>3. TypeOK /\ RateIsBounded /\ DebtIsBounded => GuessRateIsBounded
    <2> SUFFICES ASSUME TypeOK, RateIsBounded, DebtIsBounded,
                        NEW b \in Bucket, NEW h \in Weights, b[2] \in config.enabled,
                        \A other \in Weights : other <= h
                 PROVE  guesses[b] <= Tolerance(Limits[b[2]]) + (now - since)
                                       + Cardinality(Request) * Increment(Limits[b[2]], h)
      BY DEF GuessRateIsBounded
    <2>1. net[b] <= Tolerance(Limits[b[2]]) + (now - since)
      BY DEF RateIsBounded, LB!RateIsBounded
    <2>2. Debt(b) <= Cardinality(Request) * Increment(Limits[b[2]], h)
      BY DEF DebtIsBounded
    <2> DEFINE s == SumFunctionOnSet(Held(b), Request)
               tol == Tolerance(Limits[b[2]])
               n == Cardinality(Request)
               i == Increment(Limits[b[2]], h)
               m == n * i
    <2>3. guesses[b] \in Nat /\ net[b] \in Int /\ s \in Nat
      BY HeldType DEF HeldIsNatural
    <2>4. Debt(b) = guesses[b] + s - net[b]
      BY DEF Debt
    <2>5. tol \in Nat /\ n \in Nat /\ i \in Nat
      <3>1. h \in Nat /\ Limits[b[2]] \in Limit
        BY LimitAssumption, BucketLimit
      <3> QED
        BY <3>1, LimitFacts, IncrementFacts, RequestCount
    <2>6. m \in Nat
      <3> HIDE DEF n, i
      <3> QED
        BY <2>5
    <2>7. now \in Int /\ since \in Int
      BY DEF TypeOK
    <2>8. net[b] <= tol + (now - since) /\ Debt(b) <= m
      BY <2>1, <2>2
    <2> HIDE DEF s, tol, m, n, i
    <2>9. guesses[b] <= tol + (now - since) + m
      BY <2>3, <2>4, <2>5, <2>6, <2>7, <2>8
    <2> QED
      BY <2>9 DEF tol, m, n, i
  <1> QED
    BY <1>1, <1>2, <1>3, TypeCorrect, RateCorrect, PTL DEF Spec

----------------------------------------------------------------------------
(* Wrong guesses between two locks.  A wrong guess is counted by its          *)
(* MakeAttempt, a step later, or not at all when a lock has come into force   *)
(* meanwhile or the step fails.  So outside a lock the guesses are those that *)
(* the record has counted, those about to be counted, those that failures     *)
(* have lost, and at most |Request| - 1 left over from the last lock: the     *)
(* request that locked had returned, and only those that had passed the check *)
(* could still guess.  One contributor's guesses are cleared without those of *)
(* the others, so this is said of every part of those who share a lock.       *)

BlockedFor(c) == IsBlocked(lock[LockKey(config.perUser, c)], now)

Comparing(S)  == {r \in Request : pc[r] = "compare" /\ ip[r] \in S}
Attempting(S) == {r \in Request : pc[r] = "attempt" /\ ip[r] \in S}

\* What the record has counted; a record that has reached the limit counts for nothing, since
\* the lock that it led to has started the count of the guesses anew.
CountedFor(c, S) ==
    IF Deciding(record, config.perUser, c) < MaxAttempts THEN SumFunctionOnSet(record.by, S) ELSE 0

GuessesInLock(c) ==
    BlockedFor(c) =>
        SumFunctionOnSet(tries, Sharing(c)) + Cardinality(Comparing(Sharing(c)))
            <= Cardinality(Request) - 1

GuessesOutside(c) ==
    ~BlockedFor(c) =>
        \A S \in SUBSET Sharing(c) :
            SumFunctionOnSet(tries, S)
                <= CountedFor(c, S) + Cardinality(Attempting(S))
                       + (Cardinality(Request) - 1) + failures

GuessesAccountedFor == \A c \in Contributor : GuessesInLock(c) /\ GuessesOutside(c)

\* Who shares a lock
LEMMA SharingFacts ==
    ASSUME config \in Config, NEW c \in Contributor
    PROVE  /\ Sharing(c) \subseteq Contributor /\ c \in Sharing(c)
           /\ \A d \in Contributor :
                /\ d \in Sharing(c) =>
                     /\ Sharing(d) = Sharing(c)
                     /\ LockKey(config.perUser, d) = LockKey(config.perUser, c)
                /\ d \notin Sharing(c) =>
                     /\ LockKey(config.perUser, d) # LockKey(config.perUser, c)
                     /\ Sharing(c) \cap Sharing(d) = {} /\ ~config.perUser
  BY DEF Sharing, LockKey

\* The counts are natural numbers, and parts count for no more than the whole.
CountsAreNatural ==
    /\ failures \in Nat
    /\ \A S \in SUBSET Contributor :
        /\ Cardinality(Comparing(S)) \in Nat /\ Cardinality(Comparing(S)) <= Cardinality(Request)
        /\ Cardinality(Attempting(S)) \in Nat /\ Cardinality(Attempting(S)) <= Cardinality(Request)
        /\ SumFunctionOnSet(tries, S) \in Nat /\ SumFunctionOnSet(record.by, S) \in Nat
        /\ \A T \in SUBSET S :
             /\ SumFunctionOnSet(tries, T) <= SumFunctionOnSet(tries, S)
             /\ Cardinality(Attempting(T)) <= Cardinality(Attempting(S))

\* The requests at a step are part of all requests.
LEMMA PartOfRequests ==
    ASSUME NEW T \in SUBSET Request, NEW U \in SUBSET T
    PROVE  /\ IsFiniteSet(T) /\ IsFiniteSet(U)
           /\ Cardinality(T) \in Nat /\ Cardinality(U) \in Nat
           /\ Cardinality(T) <= Cardinality(Request) /\ Cardinality(U) <= Cardinality(T)
  <1>1. IsFiniteSet(Request)
    BY FiniteAssumption
  <1>2. IsFiniteSet(T) /\ Cardinality(T) <= Cardinality(Request)
    BY <1>1, FS_Subset
  <1>3. IsFiniteSet(U) /\ Cardinality(U) <= Cardinality(T)
    BY <1>2, FS_Subset
  <1> QED
    BY <1>2, <1>3, FS_CardinalityType

\* They are.
LEMMA CountTypes == TypeOK => CountsAreNatural
  <1> SUFFICES ASSUME TypeOK, NEW S \in SUBSET Contributor, NEW T \in SUBSET S
               PROVE  /\ Cardinality(Comparing(S)) \in Nat
                      /\ Cardinality(Comparing(S)) <= Cardinality(Request)
                      /\ Cardinality(Attempting(S)) \in Nat
                      /\ Cardinality(Attempting(S)) <= Cardinality(Request)
                      /\ SumFunctionOnSet(tries, S) \in Nat
                      /\ SumFunctionOnSet(record.by, S) \in Nat
                      /\ SumFunctionOnSet(tries, T) <= SumFunctionOnSet(tries, S)
                      /\ Cardinality(Attempting(T)) <= Cardinality(Attempting(S))
                      /\ failures \in Nat
    BY DEF CountsAreNatural
  <1>1. /\ Comparing(S) \in SUBSET Request /\ Attempting(S) \in SUBSET Request
        /\ Attempting(T) \in SUBSET Attempting(S)
    BY DEF Comparing, Attempting
  <1>2. IsFiniteSet(S)
    <2>1. IsFiniteSet(Contributor)
      BY FiniteAssumption
    <2> QED
      BY <2>1, FS_Subset
  <1>3. /\ \A x \in S : tries[x] \in Nat
        /\ \A x \in S : record.by[x] \in Nat
        /\ failures \in Nat
    BY DEF TypeOK
  <1>4. /\ SumFunctionOnSet(tries, S) \in Nat
        /\ SumFunctionOnSet(tries, T) <= SumFunctionOnSet(tries, S)
    BY <1>2, <1>3, SumOfNaturals, SumOverSubset
  <1>5. SumFunctionOnSet(record.by, S) \in Nat
    <2> DEFINE f == record.by
    <2>1. \A x \in S : f[x] \in Nat
      BY <1>3
    <2> HIDE DEF f
    <2>2. SumFunctionOnSet(f, S) \in Nat
      BY <1>2, <2>1, SumOfNaturals
    <2> QED
      BY <2>2 DEF f
  <1> QED
    BY <1>1, <1>3, <1>4, <1>5, PartOfRequests

\* The same after a step
LEMMA CountTypesNext == TypeOK' => CountsAreNatural'
  BY CountTypes, PTL

\* A step that leaves what is counted for a contributor as it is, lets no request pass the
\* check during a lock, and loses no guess without a failure.
LEMMA GuessesUnchanged ==
    ASSUME TypeOK, TypeOK', GuessesAccountedFor, NEW c \in Contributor,
           config' = config, BlockedFor(c)' <=> BlockedFor(c),
           \A x \in Sharing(c) : tries'[x] = tries[x] /\ record'.by[x] = record.by[x],
           Deciding(record', config.perUser, c) = Deciding(record, config.perUser, c),
           BlockedFor(c) => Comparing(Sharing(c))' \subseteq Comparing(Sharing(c)),
           ~BlockedFor(c) =>
               \A S \in SUBSET Sharing(c) :
                   Cardinality(Attempting(S)) + failures
                       <= Cardinality(Attempting(S)') + failures'
    PROVE  GuessesInLock(c)' /\ GuessesOutside(c)'
  <1>0. config \in Config
    BY DEF TypeOK
  <1>1. Sharing(c)' = Sharing(c) /\ Sharing(c) \subseteq Contributor
    BY <1>0, SharingFacts DEF Sharing
  <1>2. CountsAreNatural /\ CountsAreNatural'
    BY CountTypes, CountTypesNext
  <1>3. ASSUME NEW S \in SUBSET Sharing(c)
        PROVE  /\ SumFunctionOnSet(tries', S) = SumFunctionOnSet(tries, S)
               /\ SumFunctionOnSet(record'.by, S) = SumFunctionOnSet(record.by, S)
    <2>1. IsFiniteSet(S)
      <3>1. IsFiniteSet(Contributor)
        BY FiniteAssumption
      <3> QED
        BY <1>1, <3>1, FS_Subset
    <2> DEFINE f == record.by
               g == record'.by
    <2>2. /\ \A x \in S : tries[x] \in Int /\ tries[x] = tries'[x]
          /\ \A x \in S : f[x] \in Int /\ f[x] = g[x]
      <3>1. \A x \in S : x \in Contributor /\ x \in Sharing(c)
        BY <1>1
      <3>2. tries \in [Contributor -> Nat] /\ record.by \in [Contributor -> Nat]
        BY DEF TypeOK
      <3> QED
        BY <3>1, <3>2
    <2> HIDE DEF f, g
    <2>3. /\ SumFunctionOnSet(tries, S) = SumFunctionOnSet(tries', S)
          /\ SumFunctionOnSet(f, S) = SumFunctionOnSet(g, S)
      BY <2>1, <2>2, SumOfEqualTerms
    <2> QED
      BY <2>3 DEF f, g
  <1>4. GuessesInLock(c)'
    <2> SUFFICES ASSUME BlockedFor(c)'
                 PROVE  SumFunctionOnSet(tries', Sharing(c)) + Cardinality(Comparing(Sharing(c))')
                            <= Cardinality(Request) - 1
      BY <1>1 DEF GuessesInLock
    <2>1. /\ SumFunctionOnSet(tries, Sharing(c)) + Cardinality(Comparing(Sharing(c)))
               <= Cardinality(Request) - 1
          /\ Comparing(Sharing(c))' \subseteq Comparing(Sharing(c))
      BY DEF GuessesAccountedFor, GuessesInLock
    <2>2. Cardinality(Comparing(Sharing(c))') <= Cardinality(Comparing(Sharing(c)))
      <3>1. Comparing(Sharing(c)) \in SUBSET Request
        BY DEF Comparing
      <3> QED
        BY <2>1, <3>1, PartOfRequests
    <2>3. SumFunctionOnSet(tries', Sharing(c)) = SumFunctionOnSet(tries, Sharing(c))
      BY <1>3
    <2>4. /\ SumFunctionOnSet(tries, Sharing(c)) \in Nat
          /\ Cardinality(Comparing(Sharing(c))) \in Nat
           /\ Cardinality(Comparing(Sharing(c))') \in Nat
      BY <1>1, <1>2 DEF CountsAreNatural
    <2> QED
      BY <2>1, <2>2, <2>3, <2>4, RequestCount
  <1>5. GuessesOutside(c)'
    <2> SUFFICES ASSUME ~BlockedFor(c)', NEW S \in SUBSET Sharing(c)
                 PROVE  SumFunctionOnSet(tries', S)
                            <= CountedFor(c, S)' + Cardinality(Attempting(S)')
                                   + (Cardinality(Request) - 1) + failures'
      BY <1>1 DEF GuessesOutside
    <2>1. /\ SumFunctionOnSet(tries, S)
                <= CountedFor(c, S) + Cardinality(Attempting(S))
                   + (Cardinality(Request) - 1) + failures
          /\ Cardinality(Attempting(S)) + failures <= Cardinality(Attempting(S)') + failures'
      BY DEF GuessesAccountedFor, GuessesOutside
    <2>2. CountedFor(c, S)' = CountedFor(c, S) /\ CountedFor(c, S) \in Nat
      <3>1. SumFunctionOnSet(record.by, S) \in Nat
        BY <1>1, <1>2 DEF CountsAreNatural
      <3> QED
        BY <1>3, <3>1 DEF CountedFor
    <2>3. SumFunctionOnSet(tries', S) = SumFunctionOnSet(tries, S)
      BY <1>3
    <2>4. /\ SumFunctionOnSet(tries, S) \in Nat /\ failures \in Nat /\ failures' \in Nat
          /\ Cardinality(Attempting(S)) \in Nat /\ Cardinality(Attempting(S)') \in Nat
      BY <1>1, <1>2 DEF CountsAreNatural
    <2> QED
      BY <2>1, <2>2, <2>3, <2>4, RequestCount
  <1> QED
    BY <1>4, <1>5

\* Who shares a lock is locked together.
LEMMA LockedTogether ==
    ASSUME TypeOK, NEW c \in Contributor, NEW d \in Sharing(c)
    PROVE  BlockedFor(d) <=> BlockedFor(c)
  <1>1. config \in Config
    BY DEF TypeOK
  <1>2. LockKey(config.perUser, d) = LockKey(config.perUser, c)
    BY <1>1, SharingFacts
  <1> QED
    BY <1>2 DEF BlockedFor

\* A step of one request that neither guesses nor changes what is counted
LEMMA GuessesOfOneRequest ==
    ASSUME TypeOK, TypeOK', GuessesAccountedFor,
           UNCHANGED <<config, now, record, lock, tries>>, NEW r \in Request,
           \A q \in Request \ {r} : pc'[q] = pc[q] /\ ip'[q] = ip[q],
           pc'[r] = "compare" => ip'[r] = ip[r] /\ (pc[r] = "compare" \/ ~BlockedFor(ip[r])),
           pc[r] = "attempt" => failures' = failures + 1 \/ BlockedFor(ip[r]),
           failures' = failures \/ failures' = failures + 1
    PROVE  GuessesAccountedFor'
  <1>1. ASSUME NEW c \in Contributor, BlockedFor(c)
        PROVE  Comparing(Sharing(c))' \subseteq Comparing(Sharing(c))
    <2>1. Sharing(c)' = Sharing(c)
      BY DEF Sharing
    <2> SUFFICES ASSUME NEW q \in Request, pc'[q] = "compare", ip'[q] \in Sharing(c)
                 PROVE  pc[q] = "compare" /\ ip[q] \in Sharing(c)
      BY <2>1 DEF Comparing
    <2>2. CASE q = r
      BY <1>1, <2>2, LockedTogether
    <2> QED
      BY <2>2
  <1>2. ASSUME NEW c \in Contributor, ~BlockedFor(c), NEW S \in SUBSET Sharing(c)
        PROVE  Cardinality(Attempting(S)) + failures <= Cardinality(Attempting(S)') + failures'
    <2>1. /\ Attempting(S) \in SUBSET Request /\ Attempting(S)' \in SUBSET Request
          /\ Attempting(S) \ {r} \subseteq Attempting(S)'
      BY DEF Attempting
    <2>2. /\ failures \in Nat /\ failures' \in Nat
          /\ Cardinality(Attempting(S)) \in Nat /\ Cardinality(Attempting(S)') \in Nat
      BY <2>1, PartOfRequests, CountTypes, CountTypesNext DEF CountsAreNatural
    <2>3. CASE r \in Attempting(S)
      <3>1. failures' = failures + 1
        BY <1>2, <2>3, LockedTogether DEF Attempting
      <3>2. Cardinality(Attempting(S) \ {r}) = Cardinality(Attempting(S)) - 1
        BY <2>1, <2>3, PartOfRequests, FS_RemoveElement
      <3>3. Cardinality(Attempting(S) \ {r}) <= Cardinality(Attempting(S)')
        BY <2>1, PartOfRequests
      <3> QED
        BY <2>2, <3>1, <3>2, <3>3
    <2>4. CASE r \notin Attempting(S)
      <3>1. Cardinality(Attempting(S)) <= Cardinality(Attempting(S)')
        BY <2>1, <2>4, PartOfRequests
      <3> QED
        BY <2>2, <3>1
    <2> QED
      BY <2>3, <2>4
  <1>3. ASSUME NEW c \in Contributor PROVE GuessesInLock(c)' /\ GuessesOutside(c)'
    <2>1. BlockedFor(c)' <=> BlockedFor(c)
      BY DEF BlockedFor
    <2> QED
      BY <1>1, <1>2, <2>1, GuessesUnchanged
  <1> QED
    BY <1>3 DEF GuessesAccountedFor

\* What a request that returns leaves
LEMMA ReturnPlace ==
    ASSUME TypeOK, NEW r \in Request, Return(r)
    PROVE  pc'[r] = "idle" /\ \A q \in Request \ {r} : pc'[q] = pc[q] /\ ip'[q] = ip[q]
  BY DEF TypeOK, Return

\* Everything but wrong guesses, counting and clearing
LEMMA QuietSteps ==
    ASSUME TypeOK, TypeOK', GuessesAccountedFor, NEW r \in Request,
           \/ \E c \in config.from, h \in Weights : Begin(r, c, h)
           \/ Reserve(r) \/ LockoutCheck(r) \/ LockoutCheckFails(r)
           \/ CompareExempt(r) \/ \E v \in {"right", "other"} : Compare(r, v)
           \/ MakeAttempt(r) /\ BlockedFor(ip[r])
           \/ LoginNotFinished(r) \/ Cancel(r) \/ CancelFails(r) \/ Crash(r)
    PROVE  GuessesAccountedFor'
  <1>0. pc \in [Request -> {"idle", "reserve", "compare", "attempt", "cancel", "verified"}]
        /\ ip \in [Request -> Contributor]
    BY DEF TypeOK
  <1>1. UNCHANGED <<config, now, record, lock, tries>>
    BY DEF Begin, Reserve, LockoutCheck, LockoutCheckFails, Compare, CompareExempt, MakeAttempt,
           LoginNotFinished, Cancel, CancelFails, Crash, redis, BlockedFor
  <1>2. ASSUME NEW c \in config.from, NEW h \in Weights, Begin(r, c, h)
        PROVE  GuessesAccountedFor'
    BY <1>0, <1>1, <1>2, GuessesOfOneRequest DEF Begin, Goto
  <1>3. CASE Reserve(r)
    <2>1. CASE Return(r)
      BY <1>0, <1>1, <1>3, <2>1, ReturnPlace, GuessesOfOneRequest DEF Reserve
    <2>2. CASE pc' = pc /\ ip' = ip
      BY <1>0, <1>1, <1>3, <2>2, GuessesOfOneRequest DEF Reserve
    <2> QED
      BY <1>3, <2>1, <2>2 DEF Reserve
  <1>4. CASE LockoutCheck(r)
    <2>1. /\ pc[r] = "reserve" /\ ip' = ip /\ failures' = failures
          /\ IF BlockedFor(ip[r]) THEN pc' = [pc EXCEPT ![r] = "cancel"]
                                  ELSE pc' = [pc EXCEPT ![r] = "compare"]
      BY <1>4 DEF LockoutCheck, Goto, BlockedFor
    <2> QED
      BY <1>0, <1>1, <2>1, GuessesOfOneRequest
  <1>4a. CASE LockoutCheckFails(r)
    <2>1. /\ pc[r] = "reserve" /\ ip' = ip /\ failures' = failures + 1
          /\ pc' = [pc EXCEPT ![r] = "cancel"]
      BY <1>4a DEF LockoutCheckFails, Goto
    <2> QED
      BY <1>0, <1>1, <2>1, GuessesOfOneRequest
  <1>4b. CASE CompareExempt(r)
    BY <1>0, <1>1, <1>4b, ReturnPlace, GuessesOfOneRequest DEF CompareExempt
  <1>5. ASSUME NEW v \in {"right", "other"}, Compare(r, v)
        PROVE  GuessesAccountedFor'
    <2>1. /\ pc[r] = "compare" /\ ip' = ip /\ failures' = failures
          /\ pc' = [pc EXCEPT ![r] = "cancel"]
      BY <1>5 DEF Compare, Goto
    <2> QED
      BY <1>0, <1>1, <2>1, GuessesOfOneRequest
  <1>6. CASE MakeAttempt(r) /\ BlockedFor(ip[r])
    BY <1>0, <1>1, <1>6, ReturnPlace, GuessesOfOneRequest DEF MakeAttempt
  <1>7. CASE LoginNotFinished(r)
    BY <1>0, <1>1, <1>7, ReturnPlace, GuessesOfOneRequest DEF LoginNotFinished
  <1>8. CASE Crash(r)
    BY <1>0, <1>1, <1>8, ReturnPlace, GuessesOfOneRequest DEF Crash
  <1>9. CASE Cancel(r) \/ CancelFails(r)
    <2>1. pc[r] = "cancel" /\ CancelDone(r) /\ (failures' = failures \/ failures' = failures + 1)
      BY <1>9 DEF Cancel, CancelFails
    <2>2. /\ pc'[r] # "compare"
          /\ \A q \in Request \ {r} : pc'[q] = pc[q] /\ ip'[q] = ip[q]
      <3>1. CASE UNCHANGED <<pc, ip, halves, verdict>>
        BY <2>1, <3>1
      <3>2. CASE pc' = [pc EXCEPT ![r] = "verified"] /\ UNCHANGED locals
        BY <1>0, <3>2 DEF locals
      <3>3. CASE Return(r)
        BY <3>3, ReturnPlace
      <3> QED
        BY <2>1, <3>1, <3>2, <3>3 DEF CancelDone
    <2> QED
      BY <1>1, <2>1, <2>2, GuessesOfOneRequest
  <1> QED
    BY <1>2, <1>3, <1>4, <1>4a, <1>4b, <1>5, <1>6, <1>7, <1>8, <1>9

\* A wrong guess: one request goes from those that compare to those that are to be counted.
LEMMA WrongGuess ==
    ASSUME TypeOK, TypeOK', GuessesAccountedFor, NEW r \in Request, Compare(r, "wrong")
    PROVE  GuessesAccountedFor'
  <1> DEFINE d == ip[r]
  <1>1. /\ pc[r] = "compare" /\ pc' = [pc EXCEPT ![r] = "attempt"] /\ ip' = ip
        /\ tries' = [tries EXCEPT ![d] = @ + 1]
        /\ UNCHANGED <<config, now, record, lock, failures>>
    BY DEF Compare, Goto, redis
  <1>2. /\ d \in Contributor /\ tries \in [Contributor -> Nat]
        /\ pc \in [Request -> {"idle", "reserve", "compare", "attempt", "cancel", "verified"}]
        /\ config \in Config
    BY DEF TypeOK
  <1>3. CountsAreNatural /\ CountsAreNatural'
    BY CountTypes, CountTypesNext
  <1>4. ASSUME NEW S \in SUBSET Contributor
        PROVE  /\ d \notin S =>
                    /\ Cardinality(Attempting(S)') = Cardinality(Attempting(S))
                    /\ Cardinality(Comparing(S)') = Cardinality(Comparing(S))
                    /\ SumFunctionOnSet(tries', S) = SumFunctionOnSet(tries, S)
               /\ d \in S =>
                    /\ Cardinality(Attempting(S)') = Cardinality(Attempting(S)) + 1
                    /\ Cardinality(Comparing(S)') = Cardinality(Comparing(S)) - 1
                    /\ SumFunctionOnSet(tries', S) = SumFunctionOnSet(tries, S) + 1
    <2>1. IsFiniteSet(S)
      <3>1. IsFiniteSet(Contributor)
        BY FiniteAssumption
      <3> QED
        BY <3>1, FS_Subset
    <2>2. /\ \A x \in S : tries[x] \in Int /\ tries'[x] \in Int
          /\ \A x \in S \ {d} : tries[x] = tries'[x]
          /\ tries'[d] = tries[d] + 1
      BY <1>1, <1>2
    <2>3. /\ Comparing(S) \in SUBSET Request /\ Attempting(S) \in SUBSET Request
      BY DEF Comparing, Attempting
    <2>4. CASE d \notin S
      <3>1. Attempting(S)' = Attempting(S) /\ Comparing(S)' = Comparing(S)
        BY <1>1, <1>2, <2>4 DEF Attempting, Comparing
      <3>2. \A x \in S : tries[x] \in Int /\ tries[x] = tries'[x]
        BY <2>2, <2>4
      <3>3. SumFunctionOnSet(tries, S) = SumFunctionOnSet(tries', S)
        BY <2>1, <3>2, SumOfEqualTerms
      <3> QED
        BY <2>4, <3>1, <3>3
    <2>5. CASE d \in S
      <3>1. /\ Attempting(S)' = Attempting(S) \cup {r} /\ r \notin Attempting(S)
            /\ Comparing(S)' = Comparing(S) \ {r} /\ r \in Comparing(S)
        BY <1>1, <1>2, <2>5 DEF Attempting, Comparing
      <3>2. SumFunctionOnSet(tries', S) = SumFunctionOnSet(tries, S) + (tries'[d] - tries[d])
        <4> DEFINE f == tries
                   g == tries'
        <4>1. /\ \A x \in S : f[x] \in Int /\ g[x] \in Int
              /\ \A x \in S \ {d} : f[x] = g[x]
          BY <2>2
        <4> HIDE DEF d, f, g
        <4>2. SumChange(S, f, g, d)
          BY <2>1, <2>5, <4>1, SumOfChangedTerm
        <4> QED
          BY <4>2 DEF SumChange, f, g
      <3>3. tries'[d] - tries[d] = 1
        BY <1>2, <2>2
      <3>4. /\ Cardinality(Attempting(S)') = Cardinality(Attempting(S)) + 1
            /\ Cardinality(Comparing(S)') = Cardinality(Comparing(S)) - 1
        <4>1. IsFiniteSet(Attempting(S)) /\ IsFiniteSet(Comparing(S))
          BY <2>3, PartOfRequests
        <4>2. Cardinality(Attempting(S) \cup {r}) = Cardinality(Attempting(S)) + 1
          BY <3>1, <4>1, FS_AddElement
        <4>3. Cardinality(Comparing(S) \ {r}) = Cardinality(Comparing(S)) - 1
          BY <3>1, <4>1, FS_RemoveElement
        <4> QED
          BY <3>1, <4>2, <4>3
      <3> QED
        BY <2>5, <3>2, <3>3, <3>4
    <2> QED
      BY <2>4, <2>5
  <1>5. ASSUME NEW c \in Contributor PROVE GuessesInLock(c)' /\ GuessesOutside(c)'
    <2>1. /\ Sharing(c)' = Sharing(c) /\ Sharing(c) \subseteq Contributor
          /\ BlockedFor(c)' <=> BlockedFor(c)
          /\ \A S \in SUBSET Sharing(c) : CountedFor(c, S)' = CountedFor(c, S)
      BY <1>1, <1>2, SharingFacts DEF Sharing, BlockedFor, CountedFor
    <2>2. GuessesInLock(c) /\ GuessesOutside(c)
      BY DEF GuessesAccountedFor
    <2>3. GuessesInLock(c)'
      <3> SUFFICES ASSUME BlockedFor(c)
                   PROVE  SumFunctionOnSet(tries', Sharing(c)) + Cardinality(Comparing(Sharing(c))')
                              <= Cardinality(Request) - 1
        BY <2>1 DEF GuessesInLock
      <3> PICK S : S = Sharing(c)
        OBVIOUS
      <3>0. Comparing(Sharing(c))' = Comparing(S)'
        BY <2>1 DEF Comparing
      <3>1. /\ SumFunctionOnSet(tries, S) + Cardinality(Comparing(S)) <= Cardinality(Request) - 1
        BY <2>2 DEF GuessesInLock
      <3>2. SumFunctionOnSet(tries, S) \in Nat /\ Cardinality(Comparing(S)) \in Nat
        BY <1>3, <2>1 DEF CountsAreNatural
      <3>3. S \in SUBSET Contributor
        BY <2>1
      <3>4. SumFunctionOnSet(tries', S) + Cardinality(Comparing(S)') <= Cardinality(Request) - 1
        <4> DEFINE t == SumFunctionOnSet(tries, S)
                   n == Cardinality(Comparing(S))
                   t2 == SumFunctionOnSet(tries', S)
                   n2 == Cardinality(Comparing(S)')
        <4>1. (t2 = t /\ n2 = n) \/ (t2 = t + 1 /\ n2 = n - 1)
          <5> HIDE DEF d
          <5> QED
            BY <1>4, <3>3
        <4>2. t \in Nat /\ n \in Nat /\ t + n <= Cardinality(Request) - 1
          BY <3>1, <3>2
        <4> HIDE DEF t, n, t2, n2
        <4>3. t2 + n2 = t + n
          BY <4>1, <4>2
        <4>4. t2 + n2 <= Cardinality(Request) - 1
          BY <4>2, <4>3
        <4> QED
          BY <4>4 DEF t2, n2
      <3> QED
        BY <3>0, <3>4
    <2>4. GuessesOutside(c)'
      <3> SUFFICES ASSUME ~BlockedFor(c), NEW S \in SUBSET Sharing(c)
                   PROVE  SumFunctionOnSet(tries', S)
                              <= CountedFor(c, S)' + Cardinality(Attempting(S)')
                                     + (Cardinality(Request) - 1) + failures'
        BY <2>1 DEF GuessesOutside
      <3>1. SumFunctionOnSet(tries, S)
                <= CountedFor(c, S) + Cardinality(Attempting(S))
                   + (Cardinality(Request) - 1) + failures
        BY <2>2 DEF GuessesOutside
      <3>2. /\ SumFunctionOnSet(tries, S) \in Nat /\ Cardinality(Attempting(S)) \in Nat
            /\ failures \in Nat /\ CountedFor(c, S) \in Nat /\ S \in SUBSET Contributor
        BY <1>3, <2>1 DEF CountsAreNatural, CountedFor
      <3>3. CountedFor(c, S)' = CountedFor(c, S) /\ failures' = failures
        BY <1>1, <2>1
      <3> DEFINE t == SumFunctionOnSet(tries, S)
                 n == Cardinality(Attempting(S))
                 t2 == SumFunctionOnSet(tries', S)
                 n2 == Cardinality(Attempting(S)')
                 rest == CountedFor(c, S) + (Cardinality(Request) - 1) + failures
      <3>4. (t2 = t /\ n2 = n) \/ (t2 = t + 1 /\ n2 = n + 1)
        <4> HIDE DEF d
        <4> QED
          BY <1>4, <3>2
      <3>5. t \in Nat /\ n \in Nat /\ rest \in Int /\ t <= n + rest
        BY <3>1, <3>2, RequestCount
      <3> HIDE DEF t, n, t2, n2, rest
      <3>6. t2 <= n2 + rest /\ n2 \in Nat
        BY <3>4, <3>5
      <3> HIDE DEF d
      <3> QED
        BY <3>2, <3>3, <3>6, RequestCount DEF t2, n2, rest
    <2> QED
      BY <2>3, <2>4
  <1> QED
    BY <1>5 DEF GuessesAccountedFor

\* Guesses that are forgotten break no bound.
LEMMA NoGuesses ==
    ASSUME TypeOK, NEW c \in Contributor,
           SumFunctionOnSet(tries, Sharing(c)) = 0,
           \E r \in Request : pc[r] # "compare"
    PROVE  GuessesInLock(c) /\ GuessesOutside(c)
  <1>1. config \in Config /\ CountsAreNatural
    BY CountTypes DEF TypeOK
  <1>2. Sharing(c) \subseteq Contributor
    BY <1>1, SharingFacts
  <1>3. GuessesInLock(c)
    <2>1. PICK r \in Request : pc[r] # "compare"
      OBVIOUS
    <2>2. Comparing(Sharing(c)) \in SUBSET (Request \ {r})
      BY <2>1 DEF Comparing
    <2>3. Cardinality(Comparing(Sharing(c))) <= Cardinality(Request) - 1
      <3>1. IsFiniteSet(Request)
        BY FiniteAssumption
      <3>2. IsFiniteSet(Request \ {r}) /\ Cardinality(Request \ {r}) = Cardinality(Request) - 1
        BY <3>1, FS_RemoveElement
      <3> QED
        BY <2>2, <3>2, FS_Subset
    <2>4. Cardinality(Comparing(Sharing(c))) \in Nat
      BY <1>1, <1>2 DEF CountsAreNatural
    <2> QED
      BY <2>3, <2>4, RequestCount DEF GuessesInLock
  <1>4. GuessesOutside(c)
    <2> SUFFICES ASSUME NEW S \in SUBSET Sharing(c)
                 PROVE  SumFunctionOnSet(tries, S)
                            <= CountedFor(c, S) + Cardinality(Attempting(S))
                                   + (Cardinality(Request) - 1) + failures
      BY DEF GuessesOutside
    <2>1. /\ SumFunctionOnSet(tries, S) <= 0 /\ SumFunctionOnSet(tries, S) \in Nat
          /\ CountedFor(c, S) \in Nat /\ Cardinality(Attempting(S)) \in Nat /\ failures \in Nat
      BY <1>1, <1>2 DEF CountsAreNatural, CountedFor
    <2> QED
      BY <2>1, RequestCount
  <1> QED
    BY <1>3, <1>4

\* The same after a step
LEMMA NoGuessesNext ==
    (TypeOK /\ (\E r \in Request : pc[r] # "compare")
        => \A c \in Contributor : SumFunctionOnSet(tries, Sharing(c)) = 0
               => GuessesInLock(c) /\ GuessesOutside(c))'
  <1>1. TypeOK /\ (\E r \in Request : pc[r] # "compare")
        => \A c \in Contributor : SumFunctionOnSet(tries, Sharing(c)) = 0
               => GuessesInLock(c) /\ GuessesOutside(c)
    BY NoGuesses
  <1> QED
    BY <1>1, PTL

\* A request that returns leaves the others where they are: none passes the check, and only
\* its own guess is no longer about to be counted.
LEMMA ReturnCounts ==
    ASSUME TypeOK, NEW r \in Request, Return(r), NEW S
    PROVE  /\ Comparing(S)' \subseteq Comparing(S)
           /\ Attempting(S)' = Attempting(S) \ {r}
  BY ReturnPlace DEF Comparing, Attempting

\* A guess that is counted. At the limit the lock begins and the count starts anew; the request
\* that locks has returned, so one less can still be comparing.
LEMMA CountingStep ==
    ASSUME TypeOK, TypeOK', GuessesAccountedFor, NEW r \in Request, MakeAttempt(r),
           ~BlockedFor(ip[r])
    PROVE  GuessesAccountedFor'
  <1> DEFINE d == ip[r]
             after == Counted(record, d, now)
             total == Deciding(after, config.perUser, d)
             key == LockKey(config.perUser, d)
  <1>1. /\ pc[r] = "attempt" /\ Return(r) /\ UNCHANGED <<config, now, failures>>
        /\ record' = after
        /\ \/ /\ total >= MaxAttempts
              /\ \E until : lock' = [lock EXCEPT ![key] = until]
              /\ Forget(Sharing(d))
           \/ ~(total >= MaxAttempts) /\ lock' = lock /\ tries' = tries
    BY DEF MakeAttempt, BlockedFor
  <1>2. /\ d \in Contributor /\ config \in Config /\ tries \in [Contributor -> Nat]
        /\ record \in [total : Nat, by : [Contributor -> Nat], expireAt : Nat]
        /\ lock \in [Lock -> Nat]
    BY DEF TypeOK
  <1>3. CountsAreNatural /\ CountsAreNatural'
    BY CountTypes, CountTypesNext
  <1>4. pc'[r] # "compare"
    BY <1>1, ReturnPlace
  <1>5. /\ after.by = [record.by EXCEPT ![d] = @ + 1] /\ after.total = record.total + 1
    BY DEF Counted
  <1>6. ASSUME NEW c \in Contributor, c \notin Sharing(d)
        PROVE  GuessesInLock(c)' /\ GuessesOutside(c)'
    <2>1. /\ LockKey(config.perUser, c) # key /\ ~config.perUser
          /\ Sharing(c) \cap Sharing(d) = {} /\ d \in Sharing(d) /\ Sharing(c) \subseteq Contributor
          /\ c \in Sharing(c)
      BY <1>2, <1>6, SharingFacts
    <2>2. LockKey(config.perUser, c) \in Lock
      BY LockKeyType
    <2>3. lock'[LockKey(config.perUser, c)] = lock[LockKey(config.perUser, c)]
      <3> HIDE DEF key, total
      <3> QED
        BY <1>1, <1>2, <2>1, <2>2
    <2>4. BlockedFor(c)' <=> BlockedFor(c)
      BY <1>1, <2>3 DEF BlockedFor
    <2>5. \A x \in Sharing(c) : tries'[x] = tries[x] /\ record'.by[x] = record.by[x]
      <3> SUFFICES ASSUME NEW x \in Sharing(c)
                   PROVE  tries'[x] = tries[x] /\ record'.by[x] = record.by[x]
        OBVIOUS
      <3>1. x \in Contributor /\ x \notin Sharing(d) /\ x # d
        BY <2>1
      <3>2. tries'[x] = tries[x]
        BY <1>1, <3>1 DEF Forget
      <3>3. after.by[x] = record.by[x]
        BY <1>2, <1>5, <3>1
      <3> QED
        BY <1>1, <3>2, <3>3
    <2>6. Deciding(record', config.perUser, c) = Deciding(record, config.perUser, c)
      BY <2>1, <2>5 DEF Deciding
    <2>7. Comparing(Sharing(c))' \subseteq Comparing(Sharing(c))
      BY <1>1, ReturnPlace DEF Comparing, Sharing
    <2>8. \A S \in SUBSET Sharing(c) :
              Cardinality(Attempting(S)) + failures <= Cardinality(Attempting(S)') + failures'
      <3> SUFFICES ASSUME NEW S \in SUBSET Sharing(c)
                   PROVE  Cardinality(Attempting(S)) + failures
                              <= Cardinality(Attempting(S)') + failures'
        OBVIOUS
      <3>1. r \notin Attempting(S)
        BY <2>1 DEF Attempting
      <3>2. Attempting(S)' = Attempting(S)
        <4>1. Attempting(S)' = Attempting(S) \ {r}
          BY <1>1, ReturnCounts
        <4> QED
          BY <3>1, <4>1
      <3>3. Cardinality(Attempting(S)) \in Nat /\ failures \in Nat
        BY <1>3, <2>1 DEF CountsAreNatural
      <3> QED
        BY <1>1, <3>2, <3>3
    <2> QED
      BY <1>1, <2>4, <2>5, <2>6, <2>7, <2>8, GuessesUnchanged
  <1>7. ASSUME NEW c \in Sharing(d) PROVE GuessesInLock(c)' /\ GuessesOutside(c)'
    <2>1. /\ Sharing(c) = Sharing(d) /\ Sharing(c) \subseteq Contributor /\ c \in Contributor
          /\ LockKey(config.perUser, c) = key
      BY <1>2, <1>7, SharingFacts
    <2>2. Sharing(c)' = Sharing(c)
      BY <1>1 DEF Sharing
    <2>3. CASE total >= MaxAttempts
      <3>1. \A x \in Sharing(c) : tries'[x] = 0
        BY <1>1, <2>1, <2>3 DEF Forget
      <3> PICK S : S = Sharing(c)
        OBVIOUS
      <3>2. SumFunctionOnSet(tries', S) = 0
        <4>1. IsFiniteSet(Contributor)
          BY FiniteAssumption
        <4>2. IsFiniteSet(S) /\ \A x \in S : tries'[x] = 0
          BY <2>1, <3>1, <4>1, FS_Subset
        <4> DEFINE f == tries'
        <4> HIDE DEF f
        <4>3. SumFunctionOnSet(f, S) = 0
          BY <4>2, SumOfZeros DEF f
        <4> QED
          BY <4>3 DEF f
      <3>3. SumFunctionOnSet(tries, Sharing(c))' = 0
        BY <2>2, <3>2
      <3> QED
        BY <1>4, <2>1, <3>3, NoGuessesNext
    <2>4. CASE ~(total >= MaxAttempts)
      <3>1. lock' = lock /\ tries' = tries
        BY <1>1, <2>4
      <3>2. ~BlockedFor(c) /\ ~BlockedFor(c)'
        BY <1>1, <2>1, <3>1 DEF BlockedFor
      <3>3. /\ Deciding(record', config.perUser, c) < MaxAttempts
            /\ Deciding(record, config.perUser, c) < MaxAttempts
        <4>1. /\ total = IF config.perUser THEN record.total + 1 ELSE record.by[d] + 1
              /\ total < MaxAttempts
          <5>1. total = IF config.perUser THEN record.total + 1 ELSE record.by[d] + 1
            BY <1>2, <1>5 DEF Deciding
          <5>2. total \in Nat /\ MaxAttempts \in Nat
            BY <1>2, <5>1, LockoutAssumption
          <5> HIDE DEF total
          <5> QED
            BY <2>4, <5>1, <5>2
        <4>2. ~config.perUser => c = d
          BY <1>7 DEF Sharing
        <4>3. record.total \in Nat /\ record.by[d] \in Nat
          BY <1>2
        <4>4. Deciding(record', config.perUser, c) = total
          BY <1>1, <4>2 DEF Deciding
        <4>5. Deciding(record, config.perUser, c) + 1 = total
          BY <4>1, <4>2 DEF Deciding
        <4>6. Deciding(record, config.perUser, c) \in Nat
          BY <4>2, <4>3 DEF Deciding
        <4> HIDE DEF total
        <4> QED
          BY <4>1, <4>4, <4>5, <4>6, LockoutAssumption
      <3>4. GuessesInLock(c)'
        BY <3>2 DEF GuessesInLock
      <3>5. GuessesOutside(c)'
        <4> SUFFICES ASSUME NEW S \in SUBSET Sharing(c)
                     PROVE  SumFunctionOnSet(tries', S)
                                <= CountedFor(c, S)' + Cardinality(Attempting(S)')
                                       + (Cardinality(Request) - 1) + failures'
          BY <2>2 DEF GuessesOutside
        <4>1. SumFunctionOnSet(tries, S)
                  <= CountedFor(c, S) + Cardinality(Attempting(S))
                     + (Cardinality(Request) - 1) + failures
          BY <2>1, <3>2 DEF GuessesAccountedFor, GuessesOutside
        <4>2. /\ CountedFor(c, S) = SumFunctionOnSet(record.by, S)
              /\ CountedFor(c, S)' = SumFunctionOnSet(after.by, S)
          BY <1>1, <3>3 DEF CountedFor
        <4>3. IsFiniteSet(S) /\ S \in SUBSET Contributor
          <5>1. IsFiniteSet(Contributor)
            BY FiniteAssumption
          <5> QED
            BY <2>1, <5>1, FS_Subset
        <4> DEFINE f == record.by
                   g == after.by
        <4>4. /\ \A x \in S : f[x] \in Int /\ g[x] \in Int
              /\ \A x \in S \ {d} : f[x] = g[x]
              /\ g[d] = f[d] + 1 /\ f[d] \in Int
          BY <1>2, <1>5, <4>3
        <4>5. Attempting(S)' = Attempting(S) \ {r} /\ (r \in Attempting(S) <=> d \in S)
          BY <1>1, ReturnCounts DEF Attempting
        <4>6. IsFiniteSet(Attempting(S))
          <5>1. Attempting(S) \in SUBSET Request
            BY DEF Attempting
          <5> QED
            BY <5>1, PartOfRequests
        <4> HIDE DEF f, g, d
        <4> DEFINE old == SumFunctionOnSet(f, S)
                   new == SumFunctionOnSet(g, S)
                   n == Cardinality(Attempting(S))
                   n2 == Cardinality(Attempting(S)')
                   rest == (Cardinality(Request) - 1) + failures
                   t == SumFunctionOnSet(tries, S)
        <4>7. (new = old + 1 /\ n2 = n - 1) \/ (new = old /\ n2 = n)
          <5>1. CASE d \in S
            <6>1. new = old + (g[d] - f[d])
              <7>1. /\ \A x \in S : f[x] \in Int /\ g[x] \in Int
                    /\ \A x \in S \ {d} : f[x] = g[x]
                    /\ IsFiniteSet(S) /\ d \in S
                BY <4>3, <4>4, <5>1
              <7>2. SumChange(S, f, g, d)
                BY <7>1, SumOfChangedTerm
              <7> QED
                BY <7>2 DEF SumChange
            <6>2. n2 = n - 1
              BY <4>5, <4>6, <5>1, FS_RemoveElement
            <6>3. old \in Int
              BY <4>3, <4>4, SumIsInt
            <6> QED
              BY <4>4, <6>1, <6>2, <6>3
          <5>2. CASE d \notin S
            <6>1. old = new
              <7>1. \A x \in S : f[x] \in Int /\ f[x] = g[x]
                BY <4>4, <5>2
              <7> QED
                BY <4>3, <7>1, SumOfEqualTerms
            <6>2. n2 = n
              BY <4>5, <4>6, <5>2, FS_RemoveElement
            <6> QED
              BY <6>1, <6>2
          <5> QED
            BY <5>1, <5>2
        <4>8. old \in Int /\ n \in Nat /\ rest \in Int /\ t \in Int
          <5>1. old \in Int
            BY <4>3, <4>4, SumIsInt
          <5>2. n \in Nat /\ t \in Int /\ failures \in Nat
            BY <1>3, <4>3 DEF CountsAreNatural
          <5> QED
            BY <5>1, <5>2, RequestCount
        <4>9. t <= old + n + rest
          BY <4>1, <4>2, <4>8, RequestCount, <1>3 DEF f, CountsAreNatural
        <4> HIDE DEF old, new, n, n2, rest, t
        <4>10. t <= new + n2 + rest /\ new \in Int /\ n2 \in Int
          BY <4>7, <4>8, <4>9
        <4> QED
          BY <1>1, <1>3, <3>1, <4>2, <4>10, RequestCount DEF t, new, n2, rest, g, CountsAreNatural
      <3> QED
        BY <3>4, <3>5
    <2> QED
      BY <2>3, <2>4
  <1> QED
    BY <1>6, <1>7 DEF GuessesAccountedFor

\* Clearing takes the guesses of one contributor out of both counts.
LEMMA ClearingStep ==
    ASSUME TypeOK, TypeOK', GuessesAccountedFor, NEW r \in Request,
           NEW d \in config.from, ClearAttempts(r, d)
    PROVE  GuessesAccountedFor'
  <1>1. /\ pc[r] = "verified" /\ Return(r) /\ UNCHANGED <<config, now, lock, failures>>
        /\ record' = Cleared(record, d, now)
        /\ tries' = [x \in Contributor |-> IF x = d THEN 0 ELSE tries[x]]
    BY DEF ClearAttempts, Forget
  <1>2. /\ d \in Contributor /\ config \in Config /\ tries \in [Contributor -> Nat]
        /\ record \in [total : Nat, by : [Contributor -> Nat], expireAt : Nat]
    BY FromType DEF TypeOK
  <1>3. CountsAreNatural /\ CountsAreNatural'
    BY CountTypes, CountTypesNext
  <1>4. /\ record'.by = [record.by EXCEPT ![d] = 0] /\ record'.total <= record.total
        /\ record'.total \in Nat
    <2>1. /\ record'.by = [record.by EXCEPT ![d] = 0]
          /\ record'.total = IF record.total > record.by[d] THEN record.total - record.by[d] ELSE 0
      BY <1>1 DEF Cleared
    <2>2. record.total \in Nat /\ record.by[d] \in Nat
      BY <1>2
    <2> QED
      BY <2>1, <2>2
  <1>5. ASSUME NEW S
        PROVE  /\ Attempting(S)' = Attempting(S) /\ Comparing(S)' \subseteq Comparing(S)
    <2>1. Attempting(S)' = Attempting(S) \ {r} /\ Comparing(S)' \subseteq Comparing(S)
      BY <1>1, ReturnCounts
    <2>2. r \notin Attempting(S)
      BY <1>1 DEF Attempting
    <2> QED
      BY <2>1, <2>2
  <1>6. ASSUME NEW S \in SUBSET Contributor
        PROVE  /\ SumFunctionOnSet(tries', S) <= SumFunctionOnSet(tries, S)
               /\ SumFunctionOnSet(tries', S) <= SumFunctionOnSet(tries, S \ {d})
               /\ SumFunctionOnSet(record'.by, S) >= SumFunctionOnSet(record.by, S \ {d})
    <2>1. IsFiniteSet(Contributor)
      BY FiniteAssumption
    <2>2. IsFiniteSet(S) /\ IsFiniteSet(S \ {d})
      BY <2>1, FS_Subset
    <2> DEFINE f == tries
               g == tries'
               k == record.by
               l == record'.by
    <2>3. \A x \in S : /\ f[x] \in Nat /\ g[x] \in Nat /\ g[x] <= f[x] /\ (x = d => g[x] = 0)
                       /\ k[x] \in Nat /\ l[x] \in Nat /\ (x = d => l[x] = 0)
                       /\ (x # d => g[x] = f[x] /\ l[x] = k[x])
      <3>1. \A x \in S : /\ f[x] \in Nat /\ g[x] \in Nat /\ (x = d => g[x] = 0)
                         /\ (x # d => g[x] = f[x])
        BY <1>1, <1>2
      <3>2. \A x \in S : /\ k[x] \in Nat /\ l[x] \in Nat /\ (x = d => l[x] = 0)
                         /\ (x # d => l[x] = k[x])
        BY <1>2, <1>4
      <3> HIDE DEF f, g, k, l
      <3> QED
        BY <3>1, <3>2
    <2> HIDE DEF f, g, k, l
    <2>4. SumFunctionOnSet(g, S) <= SumFunctionOnSet(f, S)
      <3>1. \A x \in S : g[x] \in Int /\ f[x] \in Int /\ g[x] <= f[x]
        BY <2>3
      <3> QED
        BY <2>2, <3>1, SumIsMonotone
    <2>5. /\ SumFunctionOnSet(g, S \ {d}) = SumFunctionOnSet(f, S \ {d})
          /\ SumFunctionOnSet(l, S \ {d}) = SumFunctionOnSet(k, S \ {d})
      <3>1. \A x \in S \ {d} : g[x] \in Int /\ g[x] = f[x]
        BY <2>3
      <3>2. \A x \in S \ {d} : l[x] \in Int /\ l[x] = k[x]
        BY <2>3
      <3> QED
        BY <2>2, <3>1, <3>2, SumOfEqualTerms
    <2>6. /\ SumFunctionOnSet(g, S) = SumFunctionOnSet(g, S \ {d})
          /\ SumFunctionOnSet(l, S) = SumFunctionOnSet(l, S \ {d})
          /\ SumFunctionOnSet(g, S) \in Int /\ SumFunctionOnSet(l, S) \in Int
      <3>1. \A x \in S : g[x] \in Int
        BY <2>3
      <3>2. \A x \in S : l[x] \in Int
        BY <2>3
      <3>3. SumFunctionOnSet(g, S) \in Int /\ SumFunctionOnSet(l, S) \in Int
        BY <2>2, <3>1, <3>2, SumIsInt
      <3>4. CASE d \in S
        <4>1. g[d] = 0 /\ l[d] = 0
          BY <2>3, <3>4
        <4>2. /\ SumFunctionOnSet(g, S) = g[d] + SumFunctionOnSet(g, S \ {d})
              /\ SumFunctionOnSet(g, S \ {d}) \in Int
          BY <2>2, <3>1, <3>4, SumTakeOut
        <4>3. /\ SumFunctionOnSet(l, S) = l[d] + SumFunctionOnSet(l, S \ {d})
              /\ SumFunctionOnSet(l, S \ {d}) \in Int
          BY <2>2, <3>2, <3>4, SumTakeOut
        <4> QED
          BY <3>3, <4>1, <4>2, <4>3
      <3>5. CASE d \notin S
        <4>1. S \ {d} = S
          BY <3>5
        <4> QED
          BY <3>3, <4>1
      <3> QED
        BY <3>4, <3>5
    <2>7. /\ SumFunctionOnSet(g, S) <= SumFunctionOnSet(f, S)
          /\ SumFunctionOnSet(g, S) <= SumFunctionOnSet(f, S \ {d})
          /\ SumFunctionOnSet(l, S) >= SumFunctionOnSet(k, S \ {d})
      BY <2>4, <2>5, <2>6
    <2> QED
      BY <2>7 DEF f, g, k, l
  <1>7. ASSUME NEW c \in Contributor PROVE GuessesInLock(c)' /\ GuessesOutside(c)'
    <2>1. /\ Sharing(c)' = Sharing(c) /\ Sharing(c) \subseteq Contributor
          /\ BlockedFor(c)' <=> BlockedFor(c)
      BY <1>1, <1>2, SharingFacts DEF Sharing, BlockedFor
    <2>2. GuessesInLock(c) /\ GuessesOutside(c)
      BY DEF GuessesAccountedFor
    <2>3. GuessesInLock(c)'
      <3> PICK S : S = Sharing(c)
        OBVIOUS
      <3> SUFFICES ASSUME BlockedFor(c)
                   PROVE  SumFunctionOnSet(tries', S) + Cardinality(Comparing(S)')
                              <= Cardinality(Request) - 1
        BY <2>1 DEF GuessesInLock, Comparing
      <3>1. SumFunctionOnSet(tries, S) + Cardinality(Comparing(S)) <= Cardinality(Request) - 1
        BY <2>2 DEF GuessesInLock
      <3>2. SumFunctionOnSet(tries', S) <= SumFunctionOnSet(tries, S)
        BY <1>6, <2>1
      <3>3. Cardinality(Comparing(S)') <= Cardinality(Comparing(S))
        <4>1. Comparing(S) \in SUBSET Request
          BY DEF Comparing
        <4> QED
          BY <1>5, <4>1, PartOfRequests
      <3>4. /\ SumFunctionOnSet(tries, S) \in Nat /\ SumFunctionOnSet(tries', S) \in Nat
            /\ Cardinality(Comparing(S)) \in Nat /\ Cardinality(Comparing(S)') \in Nat
        BY <1>3, <2>1 DEF CountsAreNatural
      <3> QED
        BY <3>1, <3>2, <3>3, <3>4, RequestCount
    <2>4. GuessesOutside(c)'
      <3> SUFFICES ASSUME ~BlockedFor(c), NEW S \in SUBSET Sharing(c)
                   PROVE  SumFunctionOnSet(tries', S)
                              <= CountedFor(c, S)' + Cardinality(Attempting(S)')
                                     + (Cardinality(Request) - 1) + failures'
        BY <2>1 DEF GuessesOutside
      <3> DEFINE T == S \ {d}
      <3>1. SumFunctionOnSet(tries, T)
                <= CountedFor(c, T) + Cardinality(Attempting(T))
                   + (Cardinality(Request) - 1) + failures
        <4>1. T \in SUBSET Sharing(c)
          OBVIOUS
        <4> QED
          BY <2>2, <4>1 DEF GuessesOutside
      <3>2. Cardinality(Attempting(T)) <= Cardinality(Attempting(S)')
        <4>1. Cardinality(Attempting(T)) <= Cardinality(Attempting(S))
          BY <1>3, <2>1 DEF CountsAreNatural
        <4> QED
          BY <1>5, <4>1
      <3>3. CountedFor(c, T) <= CountedFor(c, S)' /\ CountedFor(c, T) \in Nat
        <4>1. /\ SumFunctionOnSet(record.by, T) \in Nat /\ SumFunctionOnSet(record'.by, S) \in Nat
              /\ SumFunctionOnSet(record'.by, S) >= SumFunctionOnSet(record.by, T)
          BY <1>3, <1>6, <2>1 DEF CountsAreNatural
        <4>2. Deciding(record', config.perUser, c) <= Deciding(record, config.perUser, c)
          <5>1. record'.by[c] <= record.by[c]
            <6>1. record'.by[c] = IF c = d THEN 0 ELSE record.by[c]
              BY <1>2, <1>4
            <6>2. record.by[c] \in Nat
              BY <1>2
            <6> QED
              BY <6>1, <6>2
          <5> QED
            BY <1>4, <5>1 DEF Deciding
        <4>3. /\ Deciding(record', config.perUser, c) \in Nat
              /\ Deciding(record, config.perUser, c) \in Nat
          <5>1. record.by[c] \in Nat /\ record'.by[c] \in Nat /\ record.total \in Nat
            BY <1>2, <1>4
          <5> QED
            BY <1>4, <5>1 DEF Deciding
        <4>4. Deciding(record', config.perUser, c) < MaxAttempts
                  \/ ~(Deciding(record, config.perUser, c) < MaxAttempts)
          BY <4>2, <4>3, LockoutAssumption
        <4> HIDE DEF T
        <4> QED
          BY <1>1, <4>1, <4>4 DEF CountedFor
      <3>4. /\ SumFunctionOnSet(tries, T) \in Nat /\ SumFunctionOnSet(tries', S) \in Nat
            /\ Cardinality(Attempting(T)) \in Nat /\ Cardinality(Attempting(S)') \in Nat
            /\ CountedFor(c, S)' \in Nat /\ failures \in Nat /\ failures' = failures
        BY <1>1, <1>3, <2>1 DEF CountsAreNatural, CountedFor
      <3>5. SumFunctionOnSet(tries', S) <= SumFunctionOnSet(tries, T)
        BY <1>6, <2>1
      <3> HIDE DEF T
      <3> QED
        BY <3>1, <3>2, <3>3, <3>4, <3>5, RequestCount
    <2> QED
      BY <2>3, <2>4
  <1> QED
    BY <1>7 DEF GuessesAccountedFor

\* Time ends locks and the record.  What a lock has left over is what may be left over then.
LEMMA TimeStep ==
    ASSUME TypeOK, TypeOK', GuessesAccountedFor, Tick
    PROVE  GuessesAccountedFor'
  <1>1. /\ now' = now + 1 /\ UNCHANGED <<config, pc, ip, failures>>
        /\ lock' = [k \in Lock |-> IF IsBlocked(lock[k], now') THEN lock[k] ELSE 0]
        /\ (record' = NoRecord /\ Forget(Contributor)) \/ (record' = record /\ tries' = tries)
    BY DEF Tick, locals
  <1>2. /\ config \in Config /\ now \in Nat /\ lock \in [Lock -> Nat]
        /\ CountsAreNatural /\ CountsAreNatural'
    <2>1. config \in Config /\ now \in Nat /\ lock \in [Lock -> Nat]
      BY DEF TypeOK
    <2> QED
      BY <2>1, CountTypes, CountTypesNext
  <1>3. ASSUME NEW c \in Contributor PROVE GuessesInLock(c)' /\ GuessesOutside(c)'
    <2>1. /\ Sharing(c)' = Sharing(c) /\ Sharing(c) \subseteq Contributor
          /\ \A S : Comparing(S)' = Comparing(S) /\ Attempting(S)' = Attempting(S)
      BY <1>1, <1>2, SharingFacts DEF Sharing, Comparing, Attempting
    <2>2. GuessesInLock(c) /\ GuessesOutside(c)
      BY DEF GuessesAccountedFor
    <2>3. BlockedFor(c)' => BlockedFor(c)
      <3>1. LockKey(config.perUser, c) \in Lock
        BY LockKeyType
      <3>2. /\ lock[LockKey(config.perUser, c)] \in Nat
            /\ lock'[LockKey(config.perUser, c)] =
                 IF IsBlocked(lock[LockKey(config.perUser, c)], now')
                 THEN lock[LockKey(config.perUser, c)] ELSE 0
        BY <1>1, <1>2, <3>1
      <3> QED
        BY <1>1, <1>2, <3>2 DEF BlockedFor, IsBlocked
    <2> PICK A : A = Sharing(c)
      OBVIOUS
    <2>4. SumFunctionOnSet(tries', A) <= SumFunctionOnSet(tries, A)
          /\ \A S \in SUBSET A : SumFunctionOnSet(tries', S) <= SumFunctionOnSet(tries, S)
      <3> SUFFICES ASSUME NEW S \in SUBSET A
                   PROVE  SumFunctionOnSet(tries', S) <= SumFunctionOnSet(tries, S)
        OBVIOUS
      <3>1. SumFunctionOnSet(tries, S) \in Nat
        BY <1>2, <2>1 DEF CountsAreNatural
      <3>2. CASE tries' = tries
        BY <3>1, <3>2
      <3>3. CASE Forget(Contributor)
        <4>1. IsFiniteSet(Contributor)
          BY FiniteAssumption
        <4>2. IsFiniteSet(S) /\ \A x \in S : tries'[x] = 0
          BY <2>1, <3>3, <4>1, FS_Subset DEF Forget
        <4> DEFINE f == tries'
        <4> HIDE DEF f
        <4>3. SumFunctionOnSet(f, S) = 0
          BY <4>2, SumOfZeros DEF f
        <4> QED
          BY <3>1, <4>3 DEF f
      <3> QED
        BY <1>1, <3>2, <3>3
    <2>5. GuessesInLock(c)'
      <3>1. ASSUME BlockedFor(c)'
            PROVE  SumFunctionOnSet(tries', A) + Cardinality(Comparing(A)')
                       <= Cardinality(Request) - 1
        <4>1. SumFunctionOnSet(tries, A) + Cardinality(Comparing(A)) <= Cardinality(Request) - 1
          BY <2>2, <2>3, <3>1 DEF GuessesInLock
        <4>2. /\ SumFunctionOnSet(tries, A) \in Nat /\ SumFunctionOnSet(tries', A) \in Nat
              /\ Cardinality(Comparing(A)) \in Nat /\ Comparing(A)' = Comparing(A)
          BY <1>2, <2>1 DEF CountsAreNatural
        <4> QED
          BY <2>4, <4>1, <4>2, RequestCount
      <3> QED
        BY <2>1, <3>1 DEF GuessesInLock, Comparing
    <2>6. GuessesOutside(c)'
      <3> SUFFICES ASSUME ~BlockedFor(c)', NEW S \in SUBSET A
                   PROVE  SumFunctionOnSet(tries', S)
                              <= CountedFor(c, S)' + Cardinality(Attempting(S)')
                                     + (Cardinality(Request) - 1) + failures'
        BY <2>1 DEF GuessesOutside
      <3>1. /\ SumFunctionOnSet(tries', S) \in Nat /\ SumFunctionOnSet(tries, S) \in Nat
            /\ SumFunctionOnSet(tries, S) <= SumFunctionOnSet(tries, A)
            /\ SumFunctionOnSet(tries, A) \in Nat
            /\ CountedFor(c, S) \in Nat /\ CountedFor(c, S)' \in Nat
            /\ Cardinality(Attempting(S)) \in Nat /\ Attempting(S)' = Attempting(S)
            /\ failures \in Nat /\ failures' = failures
            /\ Cardinality(Comparing(A)) \in Nat
        BY <1>1, <1>2, <2>1 DEF CountsAreNatural, CountedFor
      <3>2. SumFunctionOnSet(tries', S) <= SumFunctionOnSet(tries, S)
        BY <2>4
      <3>3. CASE BlockedFor(c)
        <4>1. SumFunctionOnSet(tries, A) + Cardinality(Comparing(A)) <= Cardinality(Request) - 1
          BY <2>2, <3>3 DEF GuessesInLock
        <4>2. SumFunctionOnSet(tries', S) <= Cardinality(Request) - 1
          BY <3>1, <3>2, <4>1, RequestCount
        <4> QED
          BY <3>1, <4>2, RequestCount
      <3>4. CASE ~BlockedFor(c) /\ tries' = tries /\ record' = record
        <4>1. CountedFor(c, S)' = CountedFor(c, S)
          BY <1>1, <3>4 DEF CountedFor
        <4>2. SumFunctionOnSet(tries, S)
                  <= CountedFor(c, S) + Cardinality(Attempting(S)) + (Cardinality(Request) - 1)
                         + failures
          BY <2>2, <3>4 DEF GuessesOutside
        <4> QED
          BY <3>1, <3>4, <4>1, <4>2
      <3>5. CASE Forget(Contributor)
        <4>1. \A x \in S : tries'[x] = 0
          BY <2>1, <3>5 DEF Forget
        <4>2. IsFiniteSet(S)
          <5>1. IsFiniteSet(Contributor)
            BY FiniteAssumption
          <5> QED
            BY <2>1, <5>1, FS_Subset
        <4> DEFINE f == tries'
        <4> HIDE DEF f
        <4>3. SumFunctionOnSet(f, S) = 0
          BY <4>1, <4>2, SumOfZeros DEF f
        <4> QED
          BY <3>1, <4>3, RequestCount DEF f
      <3> QED
        BY <1>1, <3>3, <3>4, <3>5
    <2> QED
      BY <2>5, <2>6
  <1> QED
    BY <1>3 DEF GuessesAccountedFor

\* For any number of requests and contributors and any limit: between two locks at most as many
\* wrong guesses are made as lock, and twice as many as there are other requests, and as steps
\* have failed.
THEOREM GuessesPerLockCorrect == Spec => []GuessesPerLockAreBounded
  <1>1. Init => GuessesAccountedFor
    <2> SUFFICES ASSUME Init, NEW c \in Contributor PROVE GuessesInLock(c) /\ GuessesOutside(c)
      BY DEF GuessesAccountedFor
    <2>1. TypeOK /\ config \in Config
      BY TypeInit DEF Init
    <2>2. SumFunctionOnSet(tries, Sharing(c)) = 0
      <3>1. IsFiniteSet(Contributor)
        BY FiniteAssumption
      <3>2. IsFiniteSet(Sharing(c)) /\ \A x \in Sharing(c) : tries[x] = 0
        BY <2>1, <3>1, SharingFacts, FS_Subset DEF Init
      <3> QED
        BY <3>2, SumOfZeros
    <2>3. \E r \in Request : pc[r] # "compare"
      BY FiniteAssumption DEF Init
    <2> QED
      BY <2>1, <2>2, <2>3, NoGuesses
  <1>2. TypeOK /\ TypeOK' /\ GuessesAccountedFor /\ [Next]_vars => GuessesAccountedFor'
    <2> SUFFICES ASSUME TypeOK, TypeOK', GuessesAccountedFor, [Next]_vars
                 PROVE  GuessesAccountedFor'
      OBVIOUS
    <2>1. ASSUME UNCHANGED <<config, now, record, lock, tries, pc, ip, failures>>
          PROVE  GuessesAccountedFor'
      BY <2>1 DEF GuessesAccountedFor, GuessesInLock, GuessesOutside, BlockedFor, Sharing,
                  Comparing,
                  Attempting, CountedFor
    <2>2. CASE Tick
      BY <2>2, TimeStep
    <2>3. CASE Observe \/ UNCHANGED vars
      BY <2>1, <2>3 DEF Observe, vars, redis, locals
    <2>4. ASSUME NEW r \in Request, NEW c \in config.from, NEW h \in Weights, Begin(r, c, h)
          PROVE  GuessesAccountedFor'
      BY <2>4, QuietSteps
    <2>5. ASSUME NEW r \in Request, Step(r) PROVE GuessesAccountedFor'
      <3>1. CASE \E v \in {"right", "wrong", "other"} : Compare(r, v)
        BY <3>1, QuietSteps, WrongGuess
      <3>2. CASE MakeAttempt(r)
        BY <3>2, QuietSteps, CountingStep
      <3>3. CASE \E c \in config.from : ClearAttempts(r, c)
        BY <3>3, ClearingStep
      <3>4. CASE \/ Reserve(r) \/ LockoutCheck(r) \/ LockoutCheckFails(r) \/ CompareExempt(r)
                 \/ LoginNotFinished(r) \/ Cancel(r) \/ CancelFails(r) \/ Crash(r)
        BY <3>4, QuietSteps
      <3> QED
        BY <2>5, <3>1, <3>2, <3>3, <3>4 DEF Step
    <2> QED
      BY <2>2, <2>3, <2>4, <2>5 DEF Next
  <1>3. TypeOK /\ TotalIsSumOfParts /\ GuessesAccountedFor => GuessesPerLockAreBounded
    <2> SUFFICES ASSUME TypeOK, TotalIsSumOfParts, GuessesAccountedFor, NEW c \in Contributor
                 PROVE  SumFunctionOnSet(tries, Sharing(c))
                            <= MaxAttempts + 2 * (Cardinality(Request) - 1) + failures
      BY DEF GuessesPerLockAreBounded
    <2> DEFINE S == Sharing(c)
    <2>1. /\ config \in Config /\ CountsAreNatural /\ S \subseteq Contributor
          /\ GuessesInLock(c) /\ GuessesOutside(c)
      BY CountTypes, SharingFacts DEF TypeOK, GuessesAccountedFor
    <2>2. /\ SumFunctionOnSet(tries, S) \in Nat /\ failures \in Nat
          /\ Cardinality(Comparing(S)) \in Nat /\ Cardinality(Attempting(S)) \in Nat
          /\ Cardinality(Attempting(S)) <= Cardinality(Request)
          /\ MaxAttempts \in Nat /\ MaxAttempts >= 1
      BY <2>1, LockoutAssumption DEF CountsAreNatural
    <2>3. CASE BlockedFor(c)
      <3>1. SumFunctionOnSet(tries, S) + Cardinality(Comparing(S)) <= Cardinality(Request) - 1
        BY <2>1, <2>3 DEF GuessesInLock
      <3> HIDE DEF S
      <3> QED
        BY <2>2, <3>1, RequestCount DEF S
    <2>4. CASE ~BlockedFor(c)
      <3>1. SumFunctionOnSet(tries, S)
                <= CountedFor(c, S) + Cardinality(Attempting(S))
                   + (Cardinality(Request) - 1) + failures
        BY <2>1, <2>4 DEF GuessesOutside
      <3>2. CountedFor(c, S) <= MaxAttempts - 1 /\ CountedFor(c, S) \in Nat
        <4>1. SumFunctionOnSet(record.by, S) = Deciding(record, config.perUser, c)
          <5>1. CASE config.perUser
            BY <5>1 DEF TotalIsSumOfParts, Deciding, Sharing
          <5>2. CASE ~config.perUser
            <6>1. S = {c}
              BY <5>2 DEF Sharing
            <6> DEFINE f == record.by
            <6>2. \A x \in {c} : f[x] \in Nat
              BY DEF TypeOK
            <6>3. IsFiniteSet({c}) /\ c \in {c} /\ {c} \ {c} = {}
              BY FS_Singleton
            <6> HIDE DEF f
            <6>4. SumFunctionOnSet(f, {c}) = f[c] + SumFunctionOnSet(f, {})
              BY <6>2, <6>3, SumTakeOut
            <6>5. SumFunctionOnSet(f, {}) = 0
              BY SumRecursion
            <6>6. SumFunctionOnSet(f, {c}) = f[c]
              BY <6>2, <6>4, <6>5
            <6> QED
              BY <5>2, <6>1, <6>6 DEF f, Deciding
          <5> QED
            BY <5>1, <5>2
        <4>2. SumFunctionOnSet(record.by, S) \in Nat
          BY <2>1 DEF CountsAreNatural
        <4> HIDE DEF S
        <4> QED
          BY <2>2, <4>1, <4>2 DEF CountedFor
      <3> HIDE DEF S
      <3>3. SumFunctionOnSet(tries, S) <= MaxAttempts + 2 * (Cardinality(Request) - 1) + failures
        BY <2>2, <3>1, <3>2, RequestCount
      <3> QED
        BY <3>3 DEF S
    <2> QED
      BY <2>3, <2>4
  <1> QED
    BY <1>1, <1>2, <1>3, TypeCorrect, TotalCorrect, PTL DEF Spec
=============================================================================

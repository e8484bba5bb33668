------------------------- MODULE RateLimiterProofs -------------------------
(***************************************************************************)
(* Proofs about RateLimiter, for any clients, buckets, routes, limits and  *)
(* windows.                                                                *)
(*                                                                         *)
(* The sliding bound rests on WatchInv. While a bucket is watched there is *)
(* no key, or one that ends before the watch does (hence opened before it: *)
(* at least one access is not among the passes), or one that ends with it  *)
(* or later; at most one key of each kind occurs, in this order.           *)
(***************************************************************************)
EXTENDS RateLimiter, TLAPS

\* A key has let through at most what it counted, and at most its limit.
GrantInv == \A b \in Buckets : granted[b] <= count[b] /\ granted[b] <= Limit[b]

\* passes were let through by a key opened before the watch.
FromOldKey == passes = 0 \/ passes < Limit[watched]

NoKey == count[watched] = 0 /\ FromOldKey

OldKey ==
    /\ count[watched] > 0
    /\ ttl[watched] < left
    /\ passes < count[watched]
    /\ FromOldKey

LastKey ==
    /\ count[watched] > 0
    /\ ttl[watched] >= left
    /\ passes <= granted[watched] \/ passes < granted[watched] + Limit[watched]

WatchInv ==
    /\ left = 0 => passes = 0
    /\ left > 0 => NoKey \/ OldKey \/ LastKey

IInv == TypeOK /\ KeysExpire /\ GrantInv /\ WatchInv

-----------------------------------------------------------------------------
\* The bucket of a request under way is one of the buckets.
LEMMA BucketType ==
    ASSUME TypeOK, NEW c \in Clients, at[c] # 0
    PROVE  Bucket(c) \in Buckets
<1>1. Route[c] \in Seq(Buckets) /\ at[c] \in 1 .. Len(Route[c])
    BY RateAssumption DEF TypeOK
<1> QED BY <1>1 DEF Bucket

\* The values a bucket and a client can have.
LEMMA Ranges ==
    ASSUME TypeOK
    PROVE  /\ \A b \in Buckets :
                 /\ count[b] \in Nat /\ ttl[b] \in Nat /\ granted[b] \in Nat
                 /\ Limit[b] \in Nat /\ Window[b] \in Nat \ {0}
           /\ \A c \in Clients : at[c] \in Nat /\ Len(Route[c]) \in Nat \ {0}
<1>1. \A c \in Clients : Len(Route[c]) \in Nat \ {0}
    BY RateAssumption
<1> QED BY <1>1, RateAssumption DEF TypeOK

\* The invariant holds initially.
LEMMA IInvInit == Init => IInv
BY RateAssumption DEF Init, IInv, TypeOK, KeysExpire, GrantInv, WatchInv

\* What counting makes of a bucket's value.
LEMMA IncrementedBounds ==
    ASSUME TypeOK, NEW b \in Buckets
    PROVE  /\ Incremented(b) \in Nat \ {0}
           /\ Incremented(b) = count[b] \/ Incremented(b) = count[b] + 1
           /\ Incremented(b) <= Limit[b] + 1
           /\ ~OverLimit(b) => Incremented(b) = count[b] + 1 /\ Incremented(b) <= Limit[b]
<1>1. count[b] \in Nat /\ Limit[b] \in Nat /\ count[b] <= Limit[b] + 1
    BY Ranges DEF TypeOK
<1> QED BY <1>1 DEF Incremented, OverLimit

\* Counting in a bucket keeps the types of the keys and gives every key a life.
LEMMA IncrementKeeps ==
    ASSUME TypeOK, KeysExpire, NEW b \in Buckets, Increment(b)
    PROVE  /\ count' \in [Buckets -> Nat]
           /\ ttl' \in [Buckets -> Nat]
           /\ \A k \in Buckets : ttl'[k] <= Window[k]
           /\ KeysExpire'
           /\ count'[b] = Incremented(b)
           /\ \A k \in Buckets : count'[k] <= Limit[k] + 1
           /\ ttl'[b] = IF count[b] = 0 THEN Window[b] ELSE ttl[b]
           /\ \A k \in Buckets \ {b} : count'[k] = count[k] /\ ttl'[k] = ttl[k]
<1>1. /\ Window[b] \in Nat \ {0} /\ count[b] \in Nat /\ ttl[b] \in Nat
      /\ Incremented(b) \in Nat \ {0} /\ Incremented(b) <= Limit[b] + 1
    BY Ranges, IncrementedBounds
<1>2. /\ count' \in [Buckets -> Nat]
      /\ ttl' \in [Buckets -> Nat]
    BY <1>1 DEF TypeOK, Increment
<1>3. \A k \in Buckets :
          /\ count'[k] = IF k = b THEN Incremented(b) ELSE count[k]
          /\ ttl'[k] = IF k = b /\ ttl[k] = 0 THEN Window[b] ELSE ttl[k]
    BY DEF TypeOK, Increment
<1>4. ASSUME NEW k \in Buckets PROVE ttl'[k] <= Window[k]
    <2>1. Window[k] \in Nat /\ ttl[k] \in Nat /\ ttl[k] <= Window[k]
        BY RateAssumption DEF TypeOK
    <2>2. ttl'[k] = ttl[k] \/ ttl'[k] = Window[k]
        BY <1>3
    <2> QED BY <2>1, <2>2
<1>5. KeysExpire'
    <2>1. ASSUME NEW k \in Buckets PROVE count'[k] > 0 <=> ttl'[k] > 0
        <3>1. /\ count[k] \in Nat /\ ttl[k] \in Nat
              /\ count[k] > 0 <=> ttl[k] > 0
            BY Ranges DEF KeysExpire
        <3>2. CASE k = b
            BY <1>1, <1>3, <3>1, <3>2
        <3>3. CASE k # b
            BY <1>3, <3>1, <3>3
        <3> QED BY <3>2, <3>3
    <2> QED BY <2>1 DEF KeysExpire
<1>6. ttl[b] = 0 <=> count[b] = 0
    BY <1>1 DEF KeysExpire
<1>7. \A k \in Buckets : count'[k] <= Limit[k] + 1
    BY <1>1, <1>3 DEF TypeOK
<1> QED BY <1>2, <1>3, <1>4, <1>5, <1>6, <1>7

\* Ending a request keeps the types of the positions.
LEMMA LeaveKeeps ==
    ASSUME TypeOK, NEW c \in Clients, Leave(c)
    PROVE  at' \in [Clients -> Nat] /\ \A d \in Clients : at'[d] <= Len(Route[d])
<1>1. \A d \in Clients : at'[d] = 0 \/ at'[d] = at[d]
    BY DEF Leave, TypeOK
<1>2. at' \in [Clients -> Nat]
    BY DEF Leave, TypeOK
<1>3. \A d \in Clients : at[d] <= Len(Route[d]) /\ 0 <= Len(Route[d])
    BY Ranges DEF TypeOK
<1> QED BY <1>1, <1>2, <1>3

\* An access that is not let through keeps what the watch and the keys say.
LEMMA IncrementInvariants ==
    ASSUME IInv, NEW b \in Buckets, Increment(b), UNCHANGED <<granted, watchVars>>
    PROVE  KeysExpire' /\ GrantInv' /\ WatchInv'
<1> USE IncrementKeeps DEF IInv
<1>1. GrantInv'
    <2>1. \A k \in Buckets : count'[k] = count[k] \/ count'[k] = count[k] + 1
        BY IncrementedBounds
    <2>2. granted' = granted
        OBVIOUS
    <2>3. \A k \in Buckets : count[k] \in Nat /\ granted[k] \in Nat /\ Limit[k] \in Nat
        BY RateAssumption DEF TypeOK
    <2> HIDE IncrementKeeps
    <2> QED BY <2>1, <2>2, <2>3 DEF GrantInv
<1>2. WatchInv'
    <2>1. CASE b # watched
        BY <2>1 DEF WatchInv, NoKey, OldKey, LastKey, FromOldKey, watchVars, TypeOK
    <2>2. CASE b = watched
        <3>1. /\ count'[b] = count[b] \/ count'[b] = count[b] + 1
              /\ count'[b] > 0
              /\ ttl'[b] = IF count[b] = 0 THEN Window[b] ELSE ttl[b]
            BY IncrementedBounds
        <3>2. /\ count[b] \in Nat /\ ttl[b] \in Nat /\ granted[b] \in Nat /\ Limit[b] \in Nat
              /\ Window[b] \in Nat /\ left \in Nat /\ left <= Window[b] /\ passes \in Nat
              /\ granted' = granted /\ watched' = b /\ left' = left /\ passes' = passes
            BY <2>2, Ranges DEF TypeOK, watchVars
        <3> HIDE IncrementKeeps
        <3> QED BY <2>2, <3>1, <3>2 DEF WatchInv, NoKey, OldKey, LastKey, FromOldKey
    <2> QED BY <2>1, <2>2
<1> QED BY <1>1, <1>2

\* Every step preserves the invariant.
LEMMA IInvInductive == IInv /\ [Next]_vars => IInv'
<1> SUFFICES ASSUME IInv, [Next]_vars PROVE IInv'
    OBVIOUS
<1> USE DEF IInv
<1>1. ASSUME NEW c \in Clients, Arrive(c) PROVE IInv'
    <2>1. TypeOK'
        <3>1. 1 <= Len(Route[c])
            BY RateAssumption
        <3>2. at' \in [Clients -> Nat] /\ \A d \in Clients : at'[d] <= Len(Route[d])
            BY <1>1, <3>1 DEF TypeOK, Arrive
        <3>3. arrived' \in 0 .. MaxPerTick
            BY <1>1, RateAssumption DEF TypeOK, Arrive
        <3> QED BY <1>1, <3>2, <3>3 DEF TypeOK, Arrive, redisVars, watchVars
    <2> QED BY <1>1, <2>1
        DEF Arrive, redisVars, watchVars, KeysExpire, GrantInv, WatchInv, NoKey, OldKey,
            LastKey, FromOldKey
<1>2. ASSUME NEW c \in Clients, Pass(c) PROVE IInv'
    <2> DEFINE b == Bucket(c)
    <2>1. b \in Buckets /\ Increment(b) /\ ~OverLimit(b)
        BY <1>2, BucketType DEF Pass
    <2>2. /\ granted' = [granted EXCEPT ![b] = @ + 1]
          /\ passes' = IF b = watched /\ left > 0 THEN passes + 1 ELSE passes
          /\ UNCHANGED <<arrived, watched, left>>
        BY <1>2 DEF Pass
    <2>3. at' \in [Clients -> Nat] /\ \A d \in Clients : at'[d] <= Len(Route[d])
        <3>1. at' = [at EXCEPT ![c] = IF @ = Len(Route[c]) THEN 0 ELSE @ + 1]
            BY <1>2 DEF Pass
        <3>2. at[c] <= Len(Route[c])
            BY DEF TypeOK
        <3>3. at'[c] \in Nat /\ at'[c] <= Len(Route[c])
            BY <3>1, <3>2, Ranges DEF TypeOK
        <3> QED BY <3>1, <3>3, Ranges DEF TypeOK
    <2> HIDE DEF b
    <2>k. /\ count' \in [Buckets -> Nat]
          /\ ttl' \in [Buckets -> Nat]
          /\ \A k \in Buckets : ttl'[k] <= Window[k]
          /\ KeysExpire'
          /\ count'[b] = Incremented(b)
          /\ \A k \in Buckets : count'[k] <= Limit[k] + 1
          /\ ttl'[b] = IF count[b] = 0 THEN Window[b] ELSE ttl[b]
          /\ \A k \in Buckets \ {b} : count'[k] = count[k] /\ ttl'[k] = ttl[k]
        BY <2>1, IncrementKeeps
    <2>r. /\ count[b] \in Nat /\ ttl[b] \in Nat /\ granted[b] \in Nat
          /\ Limit[b] \in Nat /\ Window[b] \in Nat \ {0}
          /\ ttl[b] <= Window[b]
          /\ granted[b] <= count[b] /\ granted[b] <= Limit[b]
        BY <2>1, Ranges DEF TypeOK, GrantInv
    <2>l. Incremented(b) = count[b] + 1 /\ count[b] + 1 <= Limit[b]
        BY <2>1, IncrementedBounds
    <2>4. TypeOK'
        <3>1. passes' \in Nat /\ granted' \in [Buckets -> Nat]
            BY <2>1, <2>2, <2>r DEF TypeOK
        <3> QED BY <2>2, <2>3, <2>k, <3>1 DEF TypeOK
    <2>5. KeysExpire' /\ GrantInv'
        <3>1. granted'[b] = granted[b] + 1
            BY <2>1, <2>2 DEF TypeOK
        <3>2. \A k \in Buckets \ {b} : granted'[k] = granted[k]
            BY <2>2 DEF TypeOK
        <3> QED BY <2>k, <2>r, <2>l, <3>1, <3>2 DEF GrantInv
    <2>6. WatchInv'
        <3>1. CASE b # watched \/ left = 0
            BY <3>1, <2>2, <2>k DEF WatchInv, NoKey, OldKey, LastKey, FromOldKey, TypeOK
        <3>2. CASE b = watched /\ left > 0
            <4>1. /\ granted'[b] = granted[b] + 1
                  /\ passes' = passes + 1
                BY <3>2, <2>1, <2>2 DEF TypeOK
            <4>2. /\ passes \in Nat /\ left \in Nat /\ left <= Window[b]
                  /\ left' = left /\ watched' = b
                BY <3>2, <2>1, <2>2, <2>r DEF TypeOK
            <4>3. CASE NoKey
                <5>1. LastKey'
                    BY <4>1, <4>2, <4>3, <3>2, <2>k, <2>r, <2>l DEF NoKey, LastKey, FromOldKey
                <5> QED BY <5>1, <4>2, <3>2 DEF WatchInv
            <4>4. CASE OldKey
                <5>1. OldKey'
                    BY <4>1, <4>2, <4>4, <3>2, <2>k, <2>r, <2>l DEF OldKey, FromOldKey
                <5> QED BY <5>1, <4>2, <3>2 DEF WatchInv
            <4>5. CASE LastKey
                <5>1. LastKey'
                    BY <4>1, <4>2, <4>5, <3>2, <2>k, <2>r, <2>l DEF LastKey
                <5> QED BY <5>1, <4>2, <3>2 DEF WatchInv
            <4> QED BY <3>2, <4>3, <4>4, <4>5 DEF WatchInv
        <3> QED BY <3>1, <3>2, <2>r DEF TypeOK
    <2> QED BY <2>4, <2>5, <2>6
<1>3. ASSUME NEW c \in Clients, Reject(c) PROVE IInv'
    <2>1. /\ Bucket(c) \in Buckets /\ Increment(Bucket(c)) /\ Leave(c)
          /\ UNCHANGED <<arrived, granted, watchVars>>
        BY <1>3, BucketType DEF Reject
    <2>2. TypeOK'
        BY <2>1, IncrementKeeps, LeaveKeeps DEF TypeOK, watchVars
    <2> QED BY <2>1, <2>2, IncrementInvariants
<1>4. ASSUME NEW c \in Clients, RedisError(c) PROVE IInv'
    <2>1. /\ Bucket(c) \in Buckets /\ Leave(c)
          /\ UNCHANGED <<arrived, granted, watchVars>>
        BY <1>4, BucketType DEF RedisError
    <2>2. CASE Increment(Bucket(c))
        <3>1. TypeOK'
            BY <2>1, <2>2, IncrementKeeps, LeaveKeeps DEF TypeOK, watchVars
        <3> QED BY <2>1, <2>2, <3>1, IncrementInvariants
    <2>3. CASE UNCHANGED redisVars
        <3>1. TypeOK'
            BY <2>1, <2>3, LeaveKeeps DEF TypeOK, watchVars, redisVars
        <3> QED BY <2>1, <2>3, <3>1
            DEF redisVars, watchVars, KeysExpire, GrantInv, WatchInv, NoKey, OldKey,
                LastKey, FromOldKey
    <2> QED BY <1>4, <2>2, <2>3 DEF RedisError
<1>5. ASSUME NEW b \in Buckets, Watch(b) PROVE IInv'
    <2>1. TypeOK' /\ KeysExpire' /\ GrantInv'
        BY <1>5, RateAssumption DEF Watch, TypeOK, redisVars, KeysExpire, GrantInv
    <2>2. WatchInv'
        BY <1>5, RateAssumption
        DEF Watch, WatchInv, NoKey, OldKey, LastKey, FromOldKey, TypeOK, redisVars
    <2> QED BY <2>1, <2>2
<1>6. ASSUME Tick PROVE IInv'
    <2>1. TypeOK'
        BY <1>6, RateAssumption DEF Tick, TypeOK, Expired
    <2>2. KeysExpire' /\ GrantInv'
        BY <1>6, RateAssumption DEF Tick, TypeOK, Expired, KeysExpire, GrantInv
    <2>3. WatchInv'
        <3>1. /\ ttl'[watched] = IF ttl[watched] = 0 THEN 0 ELSE ttl[watched] - 1
              /\ count'[watched] = IF ttl[watched] = 1 THEN 0 ELSE count[watched]
              /\ granted'[watched] = IF ttl[watched] = 1 THEN 0 ELSE granted[watched]
              /\ left' = IF left = 0 THEN 0 ELSE left - 1
              /\ passes' = IF left = 1 THEN 0 ELSE passes
              /\ watched' = watched
            BY <1>6 DEF Tick, Expired, TypeOK
        <3>2. CASE left = 0
            BY <3>1, <3>2 DEF WatchInv
        <3>3. CASE left > 0
            BY <3>1, <3>3, RateAssumption
            DEF WatchInv, NoKey, OldKey, LastKey, FromOldKey, TypeOK, KeysExpire, GrantInv
        <3> QED BY <3>2, <3>3 DEF TypeOK
    <2> QED BY <2>1, <2>2, <2>3
<1>7. CASE UNCHANGED vars
    BY <1>7
    DEF vars, redisVars, watchVars, TypeOK, KeysExpire, GrantInv, WatchInv, NoKey, OldKey,
        LastKey, FromOldKey
<1> QED BY <1>1, <1>2, <1>3, <1>4, <1>5, <1>6, <1>7 DEF Next

\* The invariant is one of the specification.
THEOREM RateInvariance == Spec => []IInv
BY IInvInit, IInvInductive, PTL DEF Spec

\* The counters, the positions and the clocks keep their types: no key outlives
\* its window, no request runs past its route.
THEOREM RateTypeCorrect == Spec => []TypeOK
<1>1. IInv => TypeOK
    BY DEF IInv
<1> QED BY <1>1, RateInvariance, PTL

\* Every rate_limit key has a remaining life: nobody is locked out for ever by a
\* counter without a TTL, for any routes, limits and windows.
THEOREM EveryKeyExpires == Spec => []KeysExpire
<1>1. IInv => KeysExpire
    BY DEF IInv
<1> QED BY <1>1, RateInvariance, PTL

\* In any interval of a window's length a bucket lets through fewer than twice
\* its limit, for any limits and windows and any interleaving of its clients.
THEOREM BurstsAreBounded == Spec => []SlidingBound
<1>1. IInv => SlidingBound
    BY RateAssumption
    DEF IInv, SlidingBound, WatchInv, NoKey, OldKey, LastKey, FromOldKey, GrantInv, TypeOK
<1> QED BY <1>1, RateInvariance, PTL
=============================================================================

---------------------------- MODULE RateLimiter ----------------------------
(***************************************************************************)
(* RateLimiter.enforce and its callers that chain several counters.        *)
(*                                                                         *)
(* A bucket is one Redis key rate_limit:resource:window:identifier. A      *)
(* request walks the buckets of its route in order and stops at the first  *)
(* one that is over its limit: the windows of one RateLimiter (an hour,    *)
(* then a day, for a submitter of jobs), or the limiters of one caller     *)
(* (the IP, then the account, for a login). Requests of different clients  *)
(* interleave between two buckets and share the buckets they have in       *)
(* common. INCR and EXPIRE NX are one MULTI/EXEC, hence one step.          *)
(*                                                                         *)
(* Time is a Tick; a key lives ttl ticks. Redis keeps its keys for that    *)
(* long (neither evicted nor lost).                                        *)
(***************************************************************************)
EXTENDS Naturals, Sequences

CONSTANTS Clients,    \* who sends requests, one at a time
          Buckets,    \* the Redis keys
          Route,      \* [Clients -> Seq(Buckets)], the counters a request passes
          Limit,      \* [Buckets -> Nat], max_requests
          Window,     \* [Buckets -> Nat \ {0}], window_seconds, in ticks
          MaxPerTick  \* bound: the requests that start between two ticks

ASSUME RateAssumption ==
    /\ Route \in [Clients -> Seq(Buckets) \ {<<>>}]
    /\ Limit \in [Buckets -> Nat]
    /\ Window \in [Buckets -> Nat \ {0}]
    /\ MaxPerTick \in Nat

VARIABLES count,    \* [Buckets -> Nat], the key's value (see Incremented), 0 when there is none
          ttl,      \* [Buckets -> Nat], its remaining life, 0 when it has none
          at,       \* [Clients -> Nat], position in the route, 0 between requests
          arrived,  \* requests started since the last tick
          granted,  \* [Buckets -> Nat], history: requests let through by the key
          watched,  \* history: a bucket under observation,
          left,     \*          for that many ticks more,
          passes    \*          and the requests it has let through meanwhile

redisVars == <<count, ttl>>
watchVars == <<watched, left, passes>>
vars == <<redisVars, at, arrived, granted, watchVars>>

TypeOK ==
    /\ count \in [Buckets -> Nat]
    /\ \A b \in Buckets : count[b] <= Limit[b] + 1
    /\ ttl \in [Buckets -> Nat]
    /\ \A b \in Buckets : ttl[b] <= Window[b]
    /\ at \in [Clients -> Nat]
    /\ \A c \in Clients : at[c] <= Len(Route[c])
    /\ arrived \in 0 .. MaxPerTick
    /\ granted \in [Buckets -> Nat]
    /\ watched \in Buckets
    /\ left \in 0 .. Window[watched]
    /\ passes \in Nat

Init ==
    /\ count = [b \in Buckets |-> 0]
    /\ ttl = [b \in Buckets |-> 0]
    /\ at = [c \in Clients |-> 0]
    /\ arrived = 0
    /\ granted = [b \in Buckets |-> 0]
    /\ watched \in Buckets
    /\ left = 0
    /\ passes = 0

\* The bucket the request of client c is about to count in.
Bucket(c) == Route[c][at[c]]

\* enforce_login, or the enforce of a submission: the first bucket is next.
Arrive(c) ==
    /\ at[c] = 0
    /\ arrived < MaxPerTick
    /\ arrived' = arrived + 1
    /\ at' = [at EXCEPT ![c] = 1]
    /\ UNCHANGED <<redisVars, granted, watchVars>>

\* INCR, kept only up to the first value over the limit: enforce compares it with
\* the limit and does nothing else with it.
Incremented(b) == IF count[b] > Limit[b] THEN count[b] ELSE count[b] + 1

\* Mutant: INCR alone (the process died before a separate EXPIRE was sent).
IncrementWithoutExpire(b) ==
    /\ count' = [count EXCEPT ![b] = Incremented(b)]
    /\ UNCHANGED ttl

\* Mutant: EXPIRE without NX, every access prolongs the window.
IncrementProlonging(b) ==
    /\ count' = [count EXCEPT ![b] = Incremented(b)]
    /\ ttl' = [ttl EXCEPT ![b] = Window[b]]

\* MULTI; INCR key; EXPIRE key window NX; EXEC.
Increment(b) ==
    /\ count' = [count EXCEPT ![b] = Incremented(b)]
    /\ ttl' = [ttl EXCEPT ![b] = IF @ = 0 THEN Window[b] ELSE @]

\* The request ends: admitted, refused, or with an error.
Leave(c) == at' = [at EXCEPT ![c] = 0]

\* Mutant: the count before the increment is compared.
OverLimitBefore(b) == count[b] > Limit[b]

OverLimit(b) == Incremented(b) > Limit[b]

\* Within the limit: on to the next bucket of the route, or admitted.
Pass(c) ==
    LET b == Bucket(c) IN
    /\ at[c] # 0
    /\ ~OverLimit(b)
    /\ Increment(b)
    /\ at' = [at EXCEPT ![c] = IF @ = Len(Route[c]) THEN 0 ELSE @ + 1]
    /\ granted' = [granted EXCEPT ![b] = @ + 1]
    /\ passes' = IF b = watched /\ left > 0 THEN passes + 1 ELSE passes
    /\ UNCHANGED <<arrived, watched, left>>

\* RateLimitExceededError. This bucket and those before it stay counted, the
\* later ones are not touched.
Reject(c) ==
    /\ at[c] # 0
    /\ OverLimit(Bucket(c))
    /\ Increment(Bucket(c))
    /\ Leave(c)
    /\ UNCHANGED <<arrived, granted, watchVars>>

\* Redis raises, with the transaction executed or not: the request fails.
RedisError(c) ==
    /\ at[c] # 0
    /\ Increment(Bucket(c)) \/ UNCHANGED redisVars
    /\ Leave(c)
    /\ UNCHANGED <<arrived, granted, watchVars>>

\* A unit of time: keys whose life is over are gone. A key without a life (the
\* value 0) would stay.
Expired == {b \in Buckets : ttl[b] = 1}

Tick ==
    /\ ttl' = [b \in Buckets |-> IF ttl[b] = 0 THEN 0 ELSE ttl[b] - 1]
    /\ count' = [b \in Buckets |-> IF b \in Expired THEN 0 ELSE count[b]]
    /\ granted' = [b \in Buckets |-> IF b \in Expired THEN 0 ELSE granted[b]]
    /\ arrived' = 0
    /\ left' = IF left = 0 THEN 0 ELSE left - 1
    /\ passes' = IF left = 1 THEN 0 ELSE passes
    /\ UNCHANGED <<at, watched>>

\* History only: some bucket is watched for the length of its window, from an
\* arbitrary moment.
Watch(b) ==
    /\ left = 0
    /\ watched' = b
    /\ left' = Window[b]
    /\ UNCHANGED <<redisVars, at, arrived, granted, passes>>

Next ==
    \/ \E c \in Clients : Arrive(c) \/ Pass(c) \/ Reject(c) \/ RedisError(c)
    \/ \E b \in Buckets : Watch(b)
    \/ Tick

Spec == Init /\ [][Next]_vars

\* Time passes; nothing is asked of the clients.
FairSpec == Spec /\ WF_vars(Tick)

-----------------------------------------------------------------------------
\* Every counter has a remaining life, whatever failed on the way: no client is
\* limited for ever by a key that Redis would never expire.
KeysExpire == \A b \in Buckets : count[b] > 0 <=> ttl[b] > 0

\* Fixed windows allow a burst on each side of a boundary, and no more: in any
\* interval as long as its window a bucket lets through fewer than twice its limit
\* (an old window must have spent one on being opened), however the requests of
\* its clients interleave and whatever errors they see.
SlidingBound == passes > 0 => passes < 2 * Limit[watched]

\* A window closes although its clients go on trying: accesses, refused ones
\* included, do not prolong it.
WindowsClose == \A b \in Buckets : count[b] > 0 ~> count[b] = 0
=============================================================================

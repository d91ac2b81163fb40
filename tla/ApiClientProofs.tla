--------------------------- MODULE ApiClientProofs ---------------------------
(***************************************************************************)
(* Proofs about ApiClient: types, quotas, the way of the API token and the *)
(* accounting of exchanges, for every set of callers and configurations.   *)
(***************************************************************************)
EXTENDS ApiClient, TLAPS

\* A wait for a missing part of a token is never zero.
LEMMA CeilPositive ==
  ASSUME NEW a \in Nat \ {0}, NEW b \in Nat \ {0}
  PROVE  Ceil(a, b) \in Nat \ {0}
<1>1. (a + b - 1) \div b >= 1
  OBVIOUS
<1> QED BY <1>1 DEF Ceil

\* The larger and the smaller of two naturals are naturals.
LEMMA Extremes ==
  ASSUME NEW a \in Nat, NEW b \in Nat
  PROVE  Larger(a, b) \in Nat /\ Smaller(a, b) \in Nat
BY DEF Larger, Smaller
-----------------------------------------------------------------------------
(* The buckets' part of the type invariant, and the requests' part.        *)

BucketsTyped ==
  /\ conf \in Configs
  /\ rate \in [Buckets -> Nat \ {0}] /\ burst \in [Buckets -> Nat \ {0}]
  /\ tokens \in [Buckets -> Nat] /\ idle \in [Buckets -> 0 .. Horizon]
  /\ paused \in [Buckets -> Nat]
  /\ started \subseteq Buckets /\ opened \subseteq Resources
  /\ level \in [Buckets -> Nat] /\ barred \in [Buckets -> Nat]

CallsTyped ==
  /\ holder \in [Buckets -> Callers \cup {None}]
  /\ pc \in [Callers -> {"idle", "attempt", "lock", "wait", "send", "backoff", "clamp"}]
  /\ path \in [Callers -> Seq(Buckets)] /\ held \in [Callers -> Nat]
  /\ timer \in [Callers -> Nat] /\ try \in [Callers -> Nat]
  /\ attempt \in [Callers -> 0 .. Attempts - 1] /\ hop \in [Callers -> Nat]
  /\ at \in [Callers -> Origins] /\ token \in [Callers -> BOOLEAN]
  /\ calls \in [Callers -> Nat] /\ credit \in [Callers -> Int]

LEMMA Split == TypeOK <=> BucketsTyped /\ CallsTyped
  BY DEF TypeOK, BucketsTyped, CallsTyped

LEMMA Joined == BucketsTyped' /\ CallsTyped' => TypeOK'
  BY DEF TypeOK, BucketsTyped, CallsTyped

\* A configured limit has a positive rate and burst.
LEMMA LimitTyped ==
  ASSUME NEW cfg \in Configs, NEW b \in Buckets
  PROVE  Limit(cfg, b).rate \in Nat \ {0} /\ Limit(cfg, b).burst \in Nat \ {0}
  <1>1. cfg \in RateLimitConfig
    BY LimitsAssumption
  <1>2. Limit(cfg, b) \in BucketConfig
    BY <1>1, CallersAssumption DEF Limit, Buckets, RateLimitConfig
  <1> QED
    BY <1>2 DEF BucketConfig

\* A refill keeps a bucket within its burst.
LEMMA RefillTyped ==
  ASSUME BucketsTyped, NEW b \in Buckets
  PROVE  Refilled(b) \in Nat
  <1>1. /\ tokens[b] \in Nat /\ idle[b] \in Nat /\ rate[b] \in Nat /\ burst[b] \in Nat
        /\ Unit \in Nat
    BY LimitsAssumption DEF BucketsTyped
  <1>2. idle[b] * rate[b] \in Nat /\ burst[b] * Unit \in Nat
    BY <1>1
  <1>3. tokens[b] + idle[b] * rate[b] \in Nat
    BY <1>1, <1>2
  <1> QED
    BY <1>2, <1>3, Extremes DEF Refilled

\* A bucket nobody has to wait for holds a token.
LEMMA WaitTyped ==
  ASSUME BucketsTyped, NEW b \in Buckets
  PROVE  Wait(b) \in Nat /\ (Wait(b) = 0 => Refilled(b) >= Unit /\ paused[b] = 0)
  <1>1. Refilled(b) \in Nat /\ Unit \in Nat /\ rate[b] \in Nat \ {0} /\ paused[b] \in Nat
    BY RefillTyped, LimitsAssumption DEF BucketsTyped
  <1>2. CASE Refilled(b) < Unit
    <2>1. Unit - Refilled(b) \in Nat \ {0}
      BY <1>1, <1>2
    <2>2. Ceil(Unit - Refilled(b), rate[b]) \in Nat \ {0}
      BY <1>1, <2>1, CeilPositive
    <2> QED
      BY <1>1, <1>2, <2>2 DEF Wait, Larger
  <1>3. CASE ~(Refilled(b) < Unit)
    BY <1>1, <1>3 DEF Wait, Larger
  <1> QED
    BY <1>2, <1>3

-----------------------------------------------------------------------------
(* Calls keep their types. *)

LEMMA PathTyped ==
  ASSUME NEW c \in Callers
  PROVE  Path(c) \in Seq(Buckets) /\ Path(c) # <<>> /\ Resource(c) \subseteq Resources
         /\ Len(Path(c)) > 0 /\ \E i \in DOMAIN Path(c) : Path(c)[i] = "total"
  <1>1. Scope[c] \in Resources /\ Resource(c) \subseteq Resources
    BY CallersAssumption DEF Resource
  <1>2. Scope[c] \in Buckets /\ "rest" \in Buckets /\ "graphql" \in Buckets /\ "total" \in Buckets
    BY <1>1 DEF Buckets
  <1> DEFINE Good(p) == /\ p \in Seq(Buckets) /\ p # <<>> /\ Len(p) > 0
                        /\ \E i \in DOMAIN p : p[i] = "total"
  <1>3. ASSUME NEW x \in Buckets PROVE Good(<<x, "total">>)
    <2>1. <<x, "total">> \in Seq(Buckets) /\ Len(<<x, "total">>) = 2
          /\ 2 \in DOMAIN <<x, "total">> /\ <<x, "total">>[2] = "total"
      BY <1>2
    <2> QED BY <2>1
  <1>4. Good(<<Scope[c], "graphql", "total">>)
    <2>1. /\ <<Scope[c], "graphql", "total">> \in Seq(Buckets)
          /\ Len(<<Scope[c], "graphql", "total">>) = 3
          /\ 3 \in DOMAIN <<Scope[c], "graphql", "total">>
          /\ <<Scope[c], "graphql", "total">>[3] = "total"
      BY <1>2
    <2> QED BY <2>1
  <1>5. Good(Path(c))
    <2>1. \/ Path(c) = <<"rest", "total">> \/ Path(c) = <<"graphql", "total">>
          \/ Path(c) = <<Scope[c], "graphql", "total">>
      BY DEF Path
    <2> HIDE DEF Good
    <2> QED BY <1>2, <1>3, <1>4, <2>1
  <1> QED BY <1>1, <1>5

LEMMA DroppedTyped ==
  ASSUME CallsTyped, NEW c \in Callers, Dropped(c)
  PROVE  /\ path' \in [Callers -> Seq(Buckets)] /\ hop' \in [Callers -> Nat]
         /\ at' \in [Callers -> Origins] /\ token' \in [Callers -> BOOLEAN]
  BY CallersAssumption DEF CallsTyped, Dropped

LEMMA ReturnedTyped ==
  ASSUME CallsTyped, NEW c \in Callers, Returned(c), UNCHANGED <<holder, held, calls>>,
         credit' \in [Callers -> Int]
  PROVE  CallsTyped'
  <1>1. 0 \in 0 .. Attempts - 1
    BY BoundsAssumption
  <1> QED
    BY <1>1, DroppedTyped DEF CallsTyped, Returned

LEMMA ExchangeTyped ==
  ASSUME CallsTyped, NEW c \in Callers, Exchange(c)
  PROVE  credit' \in [Callers -> Int] /\ UNCHANGED <<holder, held, calls>>
  BY DEF CallsTyped, Exchange

LEMMA AgainTyped ==
  ASSUME CallsTyped, NEW c \in Callers, Again(c), UNCHANGED <<holder, held, calls>>,
         credit' \in [Callers -> Int]
  PROVE  CallsTyped'
  <1>1. CASE try[c] = 0
    <2>1. Dropped(c) /\ UNCHANGED timer
      BY <1>1 DEF Again
    <2>2. /\ pc' = [pc EXCEPT ![c] = "attempt"] /\ try' = [try EXCEPT ![c] = 1]
          /\ attempt' = [attempt EXCEPT ![c] = 0]
      BY <1>1 DEF Again
    <2>3. 0 \in 0 .. Attempts - 1
      BY BoundsAssumption
    <2> QED BY <2>1, <2>2, <2>3, DroppedTyped DEF CallsTyped
  <1>2. CASE try[c] # 0
    BY <1>2, ReturnedTyped DEF Again
  <1> QED
    BY <1>1, <1>2

\* A retry delay is a number of ticks.
LEMMA DelayTyped ==
  ASSUME TypeOK, NEW c \in Callers, NEW after \in Asks \cup {None}
  PROVE  RetryDelay(c, after) \in Nat
  <1>1. /\ MaxDelay \in Nat /\ Asks \subseteq Nat /\ conf.maxPause \in Nat
        /\ attempt[c] \in 0 .. Attempts - 1
    BY BoundsAssumption, LimitsAssumption DEF TypeOK, RateLimitConfig
  <1>2. Backoff[attempt[c]] \in Nat
    BY <1>1, BoundsAssumption
  <1>3. after # None => after \in Nat /\ Smaller(after, conf.maxPause) \in Nat
    BY <1>1, Extremes
  <1> QED
    BY <1>1, <1>2, <1>3, Extremes DEF RetryDelay

-----------------------------------------------------------------------------
(* Every step keeps the types. *)

LEMMA PauseTyped ==
  ASSUME BucketsTyped, NEW b \in Buckets, NEW d \in Nat,
         paused' = Paused(b, d), barred' = [barred EXCEPT ![b] = Larger(@, d)]
  PROVE  paused' \in [Buckets -> Nat] /\ barred' \in [Buckets -> Nat]
  <1>1. paused \in [Buckets -> Nat] /\ barred \in [Buckets -> Nat]
    BY DEF BucketsTyped
  <1>2. Larger(paused[b], d) \in Nat /\ Larger(barred[b], d) \in Nat
    BY <1>1, Extremes
  <1> QED
    BY <1>1, <1>2 DEF Paused

\* A response pauses the REST class for a number of ticks.
LEMMA ObservedTyped ==
  ASSUME BucketsTyped, NEW c \in Callers, NEW limit \in Asks,
         NEW after \in Asks \cup {None}, Observed(c, limit, after)
  PROVE  paused' \in [Buckets -> Nat] /\ barred' \in [Buckets -> Nat]
  <1>1. conf.maxPause \in Nat /\ limit \in Nat /\ (after # None => after \in Nat)
    BY LimitsAssumption, BoundsAssumption DEF BucketsTyped, RateLimitConfig
  <1>2. HeaderPause(limit, after) \in Nat
    BY <1>1, Extremes DEF HeaderPause
  <1>3. "rest" \in Buckets
    BY DEF Buckets
  <1>4. CASE Method[c] = "GET"
    BY <1>2, <1>3, <1>4, PauseTyped DEF Observed
  <1>5. CASE Method[c] # "GET"
    BY <1>5 DEF Observed, BucketsTyped
  <1> QED
    BY <1>4, <1>5

LEMMA ResponseBuckets ==
  ASSUME BucketsTyped, NEW c \in Callers, Exchange(c),
         paused' \in [Buckets -> Nat], barred' \in [Buckets -> Nat]
  PROVE  BucketsTyped'
  BY DEF BucketsTyped, Exchange, limits, fill

LEMMA BucketsFrame ==
  ASSUME BucketsTyped, UNCHANGED <<limits, fill, paused, level, barred>>
  PROVE  BucketsTyped'
  BY DEF BucketsTyped, limits, fill

LEMMA AnsweredTyped ==
  ASSUME TypeOK, NEW c \in Callers, NEW limit \in Asks, NEW after \in Asks \cup {None},
         Answered(c, limit, after)
  PROVE  TypeOK'
  <1>1. BucketsTyped /\ CallsTyped /\ Exchange(c) /\ Observed(c, limit, after) /\ Returned(c)
    BY Split DEF Answered
  <1>2. BucketsTyped'
    BY <1>1, ObservedTyped, ResponseBuckets
  <1>3. CallsTyped'
    BY <1>1, ExchangeTyped, ReturnedTyped
  <1> QED
    BY <1>2, <1>3, Joined

LEMMA RedirectedTyped ==
  ASSUME TypeOK, NEW c \in Callers, NEW limit \in Asks, NEW after \in Asks \cup {None},
         NEW next \in Origins, Redirected(c, next, limit, after)
  PROVE  TypeOK'
  <1>1. BucketsTyped /\ CallsTyped /\ Exchange(c) /\ Observed(c, limit, after)
    BY Split DEF Redirected
  <1>2. BucketsTyped'
    BY <1>1, ObservedTyped, ResponseBuckets
  <1>3. hop' \in [Callers -> Nat] /\ at' \in [Callers -> Origins]
    BY <1>1 DEF CallsTyped, Redirected
  <1>4. Forwarded(c, next) \in BOOLEAN
    BY <1>1 DEF Forwarded, CallsTyped
  <1>5. token' \in [Callers -> BOOLEAN]
    BY <1>1, <1>4 DEF CallsTyped, Redirected
  <1>6. /\ credit' \in [Callers -> Int]
        /\ UNCHANGED <<holder, held, calls, timer, path, try, attempt>>
    BY <1>1, ExchangeTyped DEF Redirected
  <1>7. pc' = [pc EXCEPT ![c] = "lock"]
    BY DEF Redirected, Redirection
  <1>8. CallsTyped'
    BY <1>1, <1>3, <1>5, <1>6, <1>7 DEF CallsTyped
  <1> QED
    BY <1>2, <1>8, Joined

LEMMA RetriedTyped ==
  ASSUME TypeOK, NEW c \in Callers, NEW limit \in Asks, NEW after \in Asks \cup {None},
         Retried(c, limit, after)
  PROVE  TypeOK'
  <1>1. /\ BucketsTyped /\ CallsTyped /\ Exchange(c) /\ Observed(c, limit, after)
        /\ Dropped(c)
    BY Split DEF Retried
  <1>2. BucketsTyped'
    BY <1>1, ObservedTyped, ResponseBuckets
  <1>3. timer' \in [Callers -> Nat]
    BY <1>1, DelayTyped DEF Retried, CallsTyped
  <1>4. attempt' \in [Callers -> 0 .. Attempts - 1]
    <2>1. attempt[c] + 1 \in 0 .. Attempts - 1
      BY <1>1, BoundsAssumption, SMTT(30) DEF Retried, CallsTyped
    <2> QED
      BY <1>1, <2>1 DEF Retried, NextAttempt, CallsTyped
  <1>5. credit' \in [Callers -> Int] /\ UNCHANGED <<holder, held, calls, try>>
    BY <1>1, ExchangeTyped DEF Retried
  <1>6. pc' = [pc EXCEPT ![c] = "backoff"]
    BY DEF Retried
  <1>7. CallsTyped'
    BY <1>1, <1>3, <1>4, <1>5, <1>6, DroppedTyped DEF CallsTyped
  <1> QED
    BY <1>2, <1>7, Joined

LEMMA RefusedTyped ==
  ASSUME TypeOK, NEW c \in Callers, NEW resource \in BOOLEAN, BudgetRefused(c, resource)
  PROVE  TypeOK'
  <1> DEFINE b == Throttled(c, resource)
  <1>1. BucketsTyped /\ CallsTyped /\ Exchange(c)
    BY Split DEF BudgetRefused
  <1>2. b \in Buckets /\ BudgetPause \in Nat
    BY CallersAssumption, BoundsAssumption DEF Throttled, Buckets
  <1>3. paused' = Paused(b, BudgetPause) /\ barred' = [barred EXCEPT ![b] = Larger(@, BudgetPause)]
    BY DEF BudgetRefused
  <1> HIDE DEF b
  <1>4. BucketsTyped'
    BY <1>1, <1>2, <1>3, PauseTyped, ResponseBuckets
  <1>5. credit' \in [Callers -> Int] /\ UNCHANGED <<holder, held, calls>>
    BY <1>1, ExchangeTyped
  <1>6. CASE Again(c)
    BY <1>1, <1>4, <1>5, <1>6, AgainTyped, Joined
  <1>7. CASE ~Again(c)
    <2>1. pc' = [pc EXCEPT ![c] = "clamp"] /\ UNCHANGED <<timer, request>>
      BY <1>7 DEF BudgetRefused
    <2>2. CallsTyped'
      BY <1>1, <1>5, <2>1 DEF CallsTyped, request
    <2> QED
      BY <1>4, <2>2, Joined
  <1> QED
    BY <1>6, <1>7

LEMMA ClampTyped ==
  ASSUME TypeOK, NEW c \in Callers, Clamp(c)
  PROVE  TypeOK'
  <1>1. BucketsTyped /\ CallsTyped
    BY Split
  <1>2. "graphql" \in Buckets /\ SafeRate \in Nat \ {0}
    BY LimitsAssumption DEF Buckets
  <1>3. Smaller(rate["graphql"], SafeRate) \in Nat \ {0}
    BY <1>1, <1>2 DEF Smaller, BucketsTyped
  <1>4. BucketsTyped'
    BY <1>1, <1>2, <1>3 DEF Clamp, BucketsTyped, fill, history
  <1>5. CallsTyped'
    <2>1. UNCHANGED <<holder, held, calls, credit>> /\ Again(c)
      BY DEF Clamp, history
    <2>2. credit' \in [Callers -> Int]
      BY <1>1, <2>1 DEF CallsTyped
    <2> QED
      BY <1>1, <2>1, <2>2, AgainTyped
  <1> QED
    BY <1>4, <1>5, Joined

LEMMA AdmitTyped ==
  ASSUME TypeOK, NEW c \in Callers, Admit(c)
  PROVE  TypeOK'
  <1>1. BucketsTyped /\ CallsTyped /\ Unit \in Nat
    BY Split, LimitsAssumption
  <1>2. On(c) \subseteq Buckets
    BY <1>1 DEF CallsTyped, On
  <1>3. ASSUME NEW b \in Buckets PROVE (IF b \in On(c) THEN Refilled(b) - Unit ELSE tokens[b]) \in Nat
    <2>1. CASE b \in On(c)
      <3>1. Refilled(b) >= Unit
        BY <1>1, <2>1, WaitTyped DEF Admit
      <3> QED
        BY <1>1, <2>1, <3>1, RefillTyped
    <2>2. CASE b \notin On(c)
      BY <1>1, <2>2 DEF BucketsTyped
    <2> QED
      BY <2>1, <2>2
  <1>4. tokens' \in [Buckets -> Nat]
    BY <1>3 DEF Admit, Filled
  <1>5. BucketsTyped'
    BY <1>1, <1>2, <1>4, LimitsAssumption DEF Admit, BucketsTyped, Refreshed
  <1>6. CallsTyped'
    BY <1>1, SMTT(30) DEF Admit, CallsTyped, Unlocked, request
  <1> QED
    BY <1>5, <1>6, Joined

LEMMA RefusalTyped ==
  ASSUME TypeOK, NEW c \in Callers, Delay(c)
  PROVE  TypeOK'
  <1>1. BucketsTyped /\ CallsTyped
    BY Split
  <1>2. On(c) \subseteq Buckets
    BY <1>1 DEF CallsTyped, On
  <1>3. ASSUME NEW b \in Buckets PROVE (IF b \in On(c) THEN Refilled(b) - 0 ELSE tokens[b]) \in Nat
    BY <1>1, RefillTyped DEF BucketsTyped
  <1>4. tokens' \in [Buckets -> Nat]
    BY <1>3 DEF Delay, Filled
  <1>5. BucketsTyped'
    BY <1>1, <1>2, <1>4, LimitsAssumption DEF Delay, BucketsTyped, Refreshed, history
  <1>6. timer' \in [Callers -> Nat]
    BY <1>1, <1>2, WaitTyped DEF Delay, CallsTyped
  <1>7. CallsTyped'
    BY <1>1, <1>6 DEF Delay, CallsTyped, Unlocked, request, history
  <1> QED
    BY <1>5, <1>7, Joined

LEMMA ConfigureTyped ==
  ASSUME TypeOK, NEW cfg \in Configs, Configure(cfg)
  PROVE  TypeOK'
  <1>1. BucketsTyped /\ CallsTyped /\ Unit \in Nat
    BY Split, LimitsAssumption
  <1>2. \A b \in Buckets : Limit(cfg, b).rate \in Nat \ {0} /\ Limit(cfg, b).burst \in Nat \ {0}
    BY LimitTyped
  <1>3. \A b \in Buckets : Limit(cfg, b).burst * Unit \in Nat
    BY <1>1, <1>2
  <1>4. BucketsTyped'
    BY <1>1, <1>2, <1>3 DEF Configure, BucketsTyped, history
  <1>5. CallsTyped'
    BY <1>1 DEF Configure, CallsTyped, request, history
  <1> QED
    BY <1>4, <1>5, Joined

LEMMA TickTyped ==
  ASSUME TypeOK, Tick
  PROVE  TypeOK'
  <1>1. BucketsTyped /\ CallsTyped /\ Horizon \in Nat
    BY Split, LimitsAssumption
  <1>2. \A n \in Nat : Sooner(n) \in Nat
    BY DEF Sooner
  <1>3. \A n \in 0 .. Horizon : Later(n) \in 0 .. Horizon
    BY <1>1 DEF Later
  <1>4. level' \in [Buckets -> Nat]
    BY <1>1, LimitTyped DEF Tick, BucketsTyped, Larger
  <1>5. BucketsTyped'
    BY <1>1, <1>2, <1>3, <1>4 DEF Tick, BucketsTyped, limits
  <1>6. CallsTyped'
    BY <1>1, <1>2 DEF Tick, CallsTyped, request
  <1> QED
    BY <1>5, <1>6, Joined

\* The steps that only move one call.
LEMMA MoveTyped ==
  ASSUME TypeOK, NEW c \in Callers,
         Call(c) \/ Cancelled(c) \/ Attempt(c) \/ Lock(c) \/ Woken(c) \/ BackedOff(c)
         \/ Failed(c)
  PROVE  TypeOK'
  <1>1. BucketsTyped /\ CallsTyped
    BY Split
  <1>2. CASE Call(c)
    <2>1. BucketsTyped'
      BY <1>1, <1>2, BucketsFrame DEF Call, history
    <2>2. CallsTyped'
      BY <1>1, <1>2 DEF Call, CallsTyped, request, history
    <2> QED BY <2>1, <2>2, Joined
  <1>3. CASE Cancelled(c)
    <2>1. BucketsTyped'
      BY <1>1, <1>3, BucketsFrame DEF Cancelled, history
    <2>2. CallsTyped'
      BY <1>1, <1>3, ReturnedTyped DEF Cancelled, CallsTyped, history
    <2> QED BY <2>1, <2>2, Joined
  <1>4. CASE Attempt(c)
    <2>1. Resource(c) \subseteq Resources /\ Path(c) \in Seq(Buckets)
      BY PathTyped
    <2>2. BucketsTyped'
      BY <1>1, <1>4, <2>1 DEF Attempt, BucketsTyped, fill, history
    <2>3. CallsTyped'
      BY <1>1, <1>4, <2>1 DEF Attempt, CallsTyped, history
    <2> QED BY <2>2, <2>3, Joined
  <1>5. CASE Lock(c)
    <2>1. BucketsTyped'
      BY <1>1, <1>5, BucketsFrame DEF Lock, history
    <2>2. holder' \in [Buckets -> Callers \cup {None}] /\ held' \in [Callers -> Nat]
      BY <1>1, <1>5, SMTT(30) DEF Lock, CallsTyped
    <2>3. CallsTyped'
      BY <1>1, <1>5, <2>2 DEF Lock, CallsTyped, request, history
    <2> QED BY <2>1, <2>3, Joined
  <1>6. CASE Woken(c)
    <2>1. BucketsTyped'
      BY <1>1, <1>6, BucketsFrame DEF Woken, history
    <2>2. CallsTyped'
      BY <1>1, <1>6 DEF Woken, CallsTyped, request, history
    <2> QED BY <2>1, <2>2, Joined
  <1>7. CASE BackedOff(c)
    <2>1. BucketsTyped'
      BY <1>1, <1>7, BucketsFrame DEF BackedOff, history
    <2>2. CallsTyped'
      BY <1>1, <1>7 DEF BackedOff, CallsTyped, request, history
    <2> QED BY <2>1, <2>2, Joined
  <1>8. CASE Failed(c)
    <2>1. BucketsTyped'
      BY <1>1, <1>8, ResponseBuckets DEF Failed, BucketsTyped
    <2>2. CallsTyped'
      BY <1>1, <1>8, ExchangeTyped, ReturnedTyped DEF Failed
    <2> QED BY <2>1, <2>2, Joined
  <1> QED
    BY <1>2, <1>3, <1>4, <1>5, <1>6, <1>7, <1>8

LEMMA InitTyped == Init => TypeOK
  <1>1. ASSUME Init PROVE BucketsTyped
    <2>1. \A b \in Buckets : Limit(Default, b).rate \in Nat \ {0}
                              /\ Limit(Default, b).burst \in Nat \ {0}
      BY LimitTyped, LimitsAssumption
    <2>2. \A b \in Buckets : Limit(Default, b).burst * Unit \in Nat
      BY <2>1, LimitsAssumption
    <2> QED
      BY <1>1, <2>1, <2>2, LimitsAssumption DEF Init, BucketsTyped
  <1>2. ASSUME Init PROVE CallsTyped
    <2>1. 0 \in 0 .. Attempts - 1 /\ Home \in Origins /\ <<>> \in Seq(Buckets)
      BY BoundsAssumption, CallersAssumption
    <2> QED
      BY <1>2, <2>1 DEF Init, CallsTyped
  <1> QED
    BY <1>1, <1>2, Split

LEMMA StepTyped == TypeOK /\ [Next]_vars => TypeOK'
  <1> SUFFICES ASSUME TypeOK, [Next]_vars PROVE TypeOK'
    OBVIOUS
  <1>1. CASE Tick
    BY <1>1, TickTyped
  <1>2. ASSUME NEW cfg \in Configs, Configure(cfg) PROVE TypeOK'
    BY <1>2, ConfigureTyped
  <1>3. ASSUME NEW c \in Callers, Response(c) PROVE TypeOK'
    BY <1>3, MoveTyped, AnsweredTyped, RedirectedTyped, RetriedTyped, RefusedTyped
    DEF Response, TooManyRedirects, Exhausted
  <1>4. ASSUME NEW c \in Callers, Call(c) \/ Cancelled(c) \/ Step(c) PROVE TypeOK'
    BY <1>3, <1>4, MoveTyped, AdmitTyped, RefusalTyped, ClampTyped DEF Step
  <1>5. CASE UNCHANGED vars
    BY <1>5 DEF vars, limits, fill, request, history, TypeOK
  <1> QED
    BY <1>1, <1>2, <1>4, <1>5 DEF Next

\* Every variable of the client keeps its type: tokens never go negative, and attempts
\* stay below their limit.
THEOREM TypeCorrect == Spec => []TypeOK
  BY InitTyped, StepTyped, PTL DEF Spec

-----------------------------------------------------------------------------
(* The token and the accounting of exchanges. *)

\* A request that carries the token is at the API's origin.
TokenInv == \A c \in Callers : token[c] => at[c] = Home

LEMMA TokenStep == TypeOK /\ TokenInv /\ [Next]_vars => TokenInv'
  <1> SUFFICES ASSUME TypeOK, TokenInv, [Next]_vars PROVE TokenInv'
    OBVIOUS
  <1>1. ASSUME UNCHANGED <<at, token>> PROVE TokenInv'
    BY <1>1 DEF TokenInv
  <1>2. ASSUME NEW c \in Callers, Dropped(c) PROVE TokenInv'
    BY <1>2 DEF Dropped, TokenInv, TypeOK
  <1>3. ASSUME NEW c \in Callers, Returned(c) PROVE TokenInv'
    BY <1>2, <1>3 DEF Returned
  <1>4. ASSUME NEW c \in Callers, Again(c) PROVE TokenInv'
    BY <1>2, <1>3, <1>4 DEF Again
  <1>5. ASSUME NEW c \in Callers, NEW next \in Origins,
               at' = [at EXCEPT ![c] = next], token' = [token EXCEPT ![c] = Forwarded(c, next)]
        PROVE TokenInv'
    <2>1. Forwarded(c, next) => next = Home
      BY DEF Forwarded, TokenInv
    <2> QED
      BY <1>5, <2>1 DEF TokenInv, TypeOK
  <1>6. ASSUME NEW c \in Callers, Response(c) PROVE TokenInv'
    <2>1. CASE Failed(c)
      BY <1>3, <2>1 DEF Failed
    <2>2. ASSUME NEW limit \in Asks, NEW after \in Asks \cup {None}, Answered(c, limit, after)
          PROVE TokenInv'
      BY <1>3, <2>2 DEF Answered
    <2>3. ASSUME NEW limit \in Asks, NEW after \in Asks \cup {None}, NEW next \in Origins,
                 Redirected(c, next, limit, after)
          PROVE TokenInv'
      BY <1>5, <2>3 DEF Redirected
    <2>4. ASSUME NEW limit \in Asks, NEW after \in Asks \cup {None}, Retried(c, limit, after)
          PROVE TokenInv'
      BY <1>2, <2>4 DEF Retried
    <2>5. ASSUME NEW resource \in BOOLEAN, BudgetRefused(c, resource) PROVE TokenInv'
      BY <1>1, <1>4, <2>5 DEF BudgetRefused, request
    <2> QED
      BY <1>6, <2>1, <2>2, <2>3, <2>4, <2>5 DEF Response, TooManyRedirects, Exhausted
  <1>7. ASSUME NEW c \in Callers, Step(c) PROVE TokenInv'
    BY <1>1, <1>4, <1>6, <1>7
    DEF Step, Attempt, Lock, Admit, Delay, Woken, BackedOff, Clamp, request
  <1>8. ASSUME NEW c \in Callers, Call(c) \/ Cancelled(c) PROVE TokenInv'
    BY <1>1, <1>3, <1>8 DEF Call, Cancelled, request
  <1> QED
    BY <1>1, <1>7, <1>8 DEF Next, Tick, Configure, vars, request

\* Only a redirect lengthens a chain, and it hands on the token it was given or none.
LEMMA TokenNotRestored == TypeOK /\ [Next]_vars => TokenStaysOff
  <1> SUFFICES ASSUME TypeOK, [Next]_vars PROVE TokenStaysOff
    OBVIOUS
  <1>1. ASSUME UNCHANGED hop PROVE TokenStaysOff
    BY <1>1 DEF TokenStaysOff, TypeOK
  <1>2. ASSUME NEW c \in Callers, Dropped(c) PROVE TokenStaysOff
    BY <1>2 DEF Dropped, TokenStaysOff, TypeOK
  <1>3. ASSUME NEW c \in Callers, Returned(c) PROVE TokenStaysOff
    BY <1>2, <1>3 DEF Returned
  <1>4. ASSUME NEW c \in Callers, Again(c) PROVE TokenStaysOff
    BY <1>2, <1>3, <1>4 DEF Again
  <1>5. ASSUME NEW c \in Callers, NEW next \in Origins,
               hop' = [hop EXCEPT ![c] = @ + 1], token' = [token EXCEPT ![c] = Forwarded(c, next)]
        PROVE TokenStaysOff
    <2>1. Forwarded(c, next) => token[c]
      BY DEF Forwarded
    <2> QED
      BY <1>5, <2>1 DEF TokenStaysOff, TypeOK
  <1>6. ASSUME NEW c \in Callers, Response(c) PROVE TokenStaysOff
    <2>1. CASE Failed(c)
      BY <1>3, <2>1 DEF Failed
    <2>2. ASSUME NEW limit \in Asks, NEW after \in Asks \cup {None}, Answered(c, limit, after)
          PROVE TokenStaysOff
      BY <1>3, <2>2 DEF Answered
    <2>3. ASSUME NEW limit \in Asks, NEW after \in Asks \cup {None}, NEW next \in Origins,
                 Redirected(c, next, limit, after)
          PROVE TokenStaysOff
      BY <1>5, <2>3 DEF Redirected
    <2>4. ASSUME NEW limit \in Asks, NEW after \in Asks \cup {None}, Retried(c, limit, after)
          PROVE TokenStaysOff
      BY <1>2, <2>4 DEF Retried
    <2>5. ASSUME NEW resource \in BOOLEAN, BudgetRefused(c, resource) PROVE TokenStaysOff
      BY <1>1, <1>4, <2>5 DEF BudgetRefused, request
    <2> QED
      BY <1>6, <2>1, <2>2, <2>3, <2>4, <2>5 DEF Response, TooManyRedirects, Exhausted
  <1>7. ASSUME NEW c \in Callers, Step(c) PROVE TokenStaysOff
    BY <1>1, <1>4, <1>6, <1>7
    DEF Step, Attempt, Lock, Admit, Delay, Woken, BackedOff, Clamp, request
  <1>8. ASSUME NEW c \in Callers, Call(c) \/ Cancelled(c) PROVE TokenStaysOff
    BY <1>1, <1>3, <1>8 DEF Call, Cancelled, request
  <1> QED
    BY <1>1, <1>7, <1>8 DEF Next, Tick, Configure, vars, request

\* The API token goes to the API's own origin only, along every chain of redirects, and a
\* chain that has lost it does not carry it again (doRedirects).
THEOREM TokenHome == Spec => TokenStaysHome
  <1>1. Init => TokenInv
    BY DEF Init, TokenInv
  <1>2. TokenInv => TokenAtHome
    BY DEF TokenInv, TokenAtHome
  <1>3. TypeOK /\ [Next]_vars => [TokenStaysOff]_vars
    BY TokenNotRestored
  <1> QED
    BY <1>1, <1>2, <1>3, TokenStep, TypeCorrect, PTL DEF Spec, TokenStaysHome

\* A call that is not about to send owes no exchange and goes on without one.
LEMMA CreditKept ==
  ASSUME TypeOK, EveryExchangeMetered, NEW c \in Callers, UNCHANGED credit,
         pc[c] # "send", NEW next \in {"idle", "attempt", "lock", "wait", "backoff", "clamp"},
         pc' = [pc EXCEPT ![c] = next]
  PROVE  EveryExchangeMetered'
  BY DEF TypeOK, EveryExchangeMetered

LEMMA CreditSpent ==
  ASSUME TypeOK, EveryExchangeMetered, NEW c \in Callers, Exchange(c),
         NEW next \in {"idle", "attempt", "lock", "wait", "backoff", "clamp"},
         pc' = [pc EXCEPT ![c] = next]
  PROVE  EveryExchangeMetered'
  BY SMTT(30) DEF TypeOK, EveryExchangeMetered, Exchange

LEMMA CreditStep == TypeOK /\ EveryExchangeMetered /\ [Next]_vars => EveryExchangeMetered'
  <1> SUFFICES ASSUME TypeOK, EveryExchangeMetered, [Next]_vars PROVE EveryExchangeMetered'
    OBVIOUS
  <1>1. ASSUME UNCHANGED <<pc, credit>> PROVE EveryExchangeMetered'
    BY <1>1 DEF EveryExchangeMetered
  <1>2. ASSUME NEW c \in Callers, Response(c) PROVE EveryExchangeMetered'
    <2>1. Exchange(c)
      BY <1>2 DEF Response, Failed, Answered, Redirected, TooManyRedirects, Retried, Exhausted,
                  BudgetRefused
    <2>2. \E next \in {"idle", "attempt", "lock", "wait", "backoff", "clamp"} :
            pc' = [pc EXCEPT ![c] = next]
      BY <1>2 DEF Response, Failed, Answered, Redirected, Redirection, TooManyRedirects, Retried,
                  Exhausted, BudgetRefused, Again, Returned
    <2> QED
      BY <2>1, <2>2, CreditSpent
  <1>3. ASSUME NEW c \in Callers, Admit(c) PROVE EveryExchangeMetered'
    <2>1. pc[c] = "lock"
      BY <1>3 DEF Admit, HoldsAll
    <2> QED
      BY <1>3, <2>1, SMTT(30) DEF Admit, TypeOK, EveryExchangeMetered
  <1>4. ASSUME NEW c \in Callers,
               \/ Call(c) \/ Cancelled(c) \/ Attempt(c) \/ Delay(c) \/ Woken(c) \/ BackedOff(c)
               \/ Clamp(c)
        PROVE EveryExchangeMetered'
    <2>1. UNCHANGED credit /\ pc[c] # "send"
      BY <1>4 DEF Call, Cancelled, Attempt, Delay, Woken, BackedOff, Clamp, HoldsAll, history
    <2>2. \E next \in {"idle", "attempt", "lock", "wait", "backoff", "clamp"} :
            pc' = [pc EXCEPT ![c] = next]
      BY <1>4 DEF Call, Cancelled, Attempt, Delay, Woken, BackedOff, Clamp, Again, Returned
    <2> QED
      BY <2>1, <2>2, CreditKept
  <1>5. ASSUME NEW c \in Callers, Lock(c) PROVE EveryExchangeMetered'
    BY <1>1, <1>5 DEF Lock, history
  <1> QED
    BY <1>1, <1>2, <1>3, <1>4, <1>5 DEF Next, Step, Tick, Configure, vars, history

\* Every HTTP exchange was admitted by its buckets first.
THEOREM Metered == Spec => []EveryExchangeMetered
  <1>1. Init => EveryExchangeMetered
    BY DEF Init, EveryExchangeMetered
  <1> QED
    BY <1>1, CreditStep, TypeCorrect, PTL DEF Spec

-----------------------------------------------------------------------------
(* Quotas.  What the far end's meter holds and what a refill would give    *)
(* now fit in the bucket together.                                         *)

Quota(b) ==
  /\ rate[b] <= Limit(conf, b).rate
  /\ burst[b] = Limit(conf, b).burst
  /\ level[b] + Refilled(b) <= burst[b] * Unit
  /\ b \notin started => level[b] = 0

\* Every admission passes the total bucket.
TotalFirst ==
  /\ started # {} => "total" \in started
  /\ \A c \in Callers : pc[c] \in {"lock", "wait", "send"} => "total" \in On(c)

QuotaInv == TotalFirst /\ \A b \in Buckets : Quota(b)

LEMMA Products ==
  ASSUME NEW x \in Nat, NEW y \in Nat
  PROVE  x * y \in Nat /\ (x + 1) * y = x * y + y /\ 0 * y = 0
OBVIOUS

LEMMA Monotone ==
  ASSUME NEW x \in Nat, NEW y \in Nat, NEW z \in Nat, y <= z
  PROVE  x * y <= x * z
OBVIOUS

LEMMA BucketFacts ==
  ASSUME BucketsTyped, NEW b \in Buckets
  PROVE  /\ tokens[b] \in Nat /\ idle[b] \in 0 .. Horizon /\ idle[b] \in Nat
         /\ rate[b] \in Nat /\ level[b] \in Nat
         /\ burst[b] * Unit \in Nat /\ idle[b] * rate[b] \in Nat /\ Refilled(b) \in Nat
         /\ Refilled(b) <= burst[b] * Unit
  <1>1. /\ tokens[b] \in Nat /\ idle[b] \in 0 .. Horizon /\ rate[b] \in Nat /\ burst[b] \in Nat
        /\ Unit \in Nat /\ level[b] \in Nat /\ Horizon \in Nat
    BY LimitsAssumption DEF BucketsTyped
  <1>2. idle[b] \in Nat
    BY <1>1
  <1>3. burst[b] * Unit \in Nat /\ idle[b] * rate[b] \in Nat
    BY <1>1, <1>2, Products
  <1>4. Refilled(b) \in Nat /\ Refilled(b) <= burst[b] * Unit
    BY <1>1, <1>3 DEF Refilled, Smaller
  <1> QED
    BY <1>1, <1>2, <1>3, <1>4

\* A refill written back gives the same contents.
LEMMA WrittenBack ==
  ASSUME BucketsTyped, NEW b \in Buckets, NEW taken \in Nat, taken <= Refilled(b),
         tokens'[b] = Refilled(b) - taken, idle'[b] = 0, rate'[b] = rate[b], burst'[b] = burst[b]
  PROVE  Refilled(b)' = Refilled(b) - taken
  <1>1. Refilled(b)' = Smaller(burst[b] * Unit, tokens'[b] + 0 * rate[b])
    BY DEF Refilled
  <1>2. /\ rate[b] \in Nat /\ Refilled(b) \in Nat /\ burst[b] * Unit \in Nat
        /\ Refilled(b) <= burst[b] * Unit
    BY BucketFacts
  <1>3. 0 * rate[b] = 0
    BY <1>2, Products
  <1> QED
    BY <1>1, <1>2, <1>3 DEF Smaller

\* Time: the meter drains at least as fast as the bucket fills.
LEMMA QuotaTick ==
  ASSUME BucketsTyped, Tick, NEW b \in Buckets, Quota(b)
  PROVE  Quota(b)'
  <1> DEFINE L == Limit(conf, b).rate
  <1> DEFINE C == burst[b] * Unit
  <1>1. /\ tokens[b] \in Nat /\ idle[b] \in Nat /\ rate[b] \in Nat /\ level[b] \in Nat
        /\ C \in Nat /\ Refilled(b) \in Nat /\ Refilled(b) <= C /\ idle[b] * rate[b] \in Nat
    BY BucketFacts
  <1>2. L \in Nat /\ rate[b] <= L /\ level[b] + Refilled(b) <= C
    BY LimitTyped DEF Quota, BucketsTyped
  <1>3. /\ conf' = conf /\ rate' = rate /\ burst' = burst /\ tokens' = tokens /\ started' = started
        /\ level'[b] = Larger(0, level[b] - L)
        /\ idle'[b] = IF b \in started THEN Later(idle[b]) ELSE 0
    BY DEF Tick, limits
  <1>4. Limit(conf, b)' = Limit(conf, b)
    BY <1>3 DEF Limit
  <1>5. idle'[b] * rate[b] <= idle[b] * rate[b] + rate[b] /\ idle'[b] * rate[b] \in Nat
    <2>1. idle'[b] = idle[b] + 1 \/ idle'[b] = idle[b] \/ idle'[b] = 0
      BY <1>3 DEF Later
    <2>2. (idle[b] + 1) * rate[b] = idle[b] * rate[b] + rate[b] /\ 0 * rate[b] = 0
      BY <1>1, Products
    <2> HIDE DEF L, C
    <2>3. CASE idle'[b] = idle[b] + 1
      BY <1>1, <2>2, <2>3
    <2>4. CASE idle'[b] = idle[b]
      BY <1>1, <2>4
    <2>5. CASE idle'[b] = 0
      BY <1>1, <2>2, <2>5
    <2> QED
      BY <2>1, <2>3, <2>4, <2>5
  <1>6. Refilled(b)' = Smaller(C, tokens[b] + idle'[b] * rate[b])
    BY <1>3 DEF Refilled
  <1>7. level'[b] + Refilled(b)' <= C
    <2>1. Refilled(b) = Smaller(C, tokens[b] + idle[b] * rate[b])
      BY DEF Refilled
    <2> DEFINE I == idle'[b] * rate[b]
    <2> DEFINE J == idle[b] * rate[b]
    <2>2. I \in Nat /\ J \in Nat /\ I <= J + rate[b]
      BY <1>1, <1>5
    <2>3. Refilled(b)' = Smaller(C, tokens[b] + I) /\ Refilled(b) = Smaller(C, tokens[b] + J)
      BY <1>6, <2>1
    <2> HIDE DEF L, C, I, J
    <2>4. Refilled(b)' <= C /\ Refilled(b)' <= Refilled(b) + rate[b] /\ Refilled(b)' \in Nat
      BY <1>1, <2>2, <2>3 DEF Smaller
    <2> QED
      BY <1>1, <1>2, <1>3, <2>4 DEF Larger
  <1>8. b \notin started' => level'[b] = 0
    BY <1>2, <1>3 DEF Quota, Larger
  <1>9. rate'[b] <= Limit(conf, b)'.rate /\ burst'[b] = Limit(conf, b)'.burst
    BY <1>3, <1>4 DEF Quota
  <1> QED
    BY <1>3, <1>7, <1>8, <1>9 DEF Quota

\* An acquisition: a token leaves the bucket and reaches the meter, or neither happens.
LEMMA QuotaAcquire ==
  ASSUME BucketsTyped, NEW c \in Callers, On(c) \subseteq Buckets,
         NEW taken \in Nat, \A b \in On(c) : taken <= Refilled(b),
         tokens' = Filled(c, taken), idle' = Refreshed(c), started' = started \cup On(c),
         level' = [b \in Buckets |-> IF b \in On(c) THEN level[b] + taken ELSE level[b]],
         UNCHANGED <<conf, rate, burst>>,
         NEW b \in Buckets, Quota(b)
  PROVE  Quota(b)'
  <1>1. Limit(conf, b)' = Limit(conf, b)
    BY DEF Limit
  <1>2. level[b] \in Nat /\ Refilled(b) \in Nat /\ burst[b] * Unit \in Nat
    BY BucketFacts
  <1>3. CASE b \in On(c)
    <2>1. tokens'[b] = Refilled(b) - taken /\ idle'[b] = 0 /\ level'[b] = level[b] + taken
      BY <1>3 DEF Filled, Refreshed
    <2>2. Refilled(b)' = Refilled(b) - taken
      BY <1>3, <2>1, WrittenBack
    <2>3. level'[b] + Refilled(b)' = level[b] + Refilled(b)
      BY <1>2, <2>1, <2>2
    <2> QED
      BY <1>1, <1>3, <2>3 DEF Quota
  <1>4. CASE b \notin On(c)
    <2>1. tokens'[b] = tokens[b] /\ idle'[b] = idle[b] /\ level'[b] = level[b]
      BY <1>4 DEF Filled, Refreshed
    <2>2. Refilled(b)' = Refilled(b)
      BY <2>1 DEF Refilled
    <2> QED
      BY <1>1, <1>4, <2>1, <2>2 DEF Quota
  <1> QED
    BY <1>3, <1>4

\* The class's rate goes down, and with it what a refill gives.
LEMMA QuotaClamp ==
  ASSUME BucketsTyped, NEW c \in Callers, Clamp(c), NEW b \in Buckets, Quota(b)
  PROVE  Quota(b)'
  <1>1. /\ UNCHANGED <<conf, burst, started, tokens, idle, level>>
        /\ rate' = [rate EXCEPT !["graphql"] = Smaller(@, SafeRate)]
    BY DEF Clamp, fill, history
  <1>2. Limit(conf, b)' = Limit(conf, b)
    BY <1>1 DEF Limit
  <1>3. /\ rate[b] \in Nat /\ SafeRate \in Nat /\ idle[b] \in Nat /\ tokens[b] \in Nat
        /\ level[b] \in Nat /\ Refilled(b) \in Nat /\ burst[b] * Unit \in Nat
        /\ idle[b] * rate[b] \in Nat
    BY BucketFacts, LimitsAssumption
  <1>4. rate'[b] \in Nat /\ rate'[b] <= rate[b]
    <2>1. rate \in [Buckets -> Nat \ {0}]
      BY DEF BucketsTyped
    <2> QED
      BY <1>1, <1>3, <2>1 DEF Smaller
  <1>5. idle[b] * rate'[b] <= idle[b] * rate[b] /\ idle[b] * rate'[b] \in Nat
    BY <1>3, <1>4, Monotone, Products
  <1>6. Refilled(b)' <= Refilled(b) /\ Refilled(b)' \in Nat
    <2> DEFINE I == idle[b] * rate'[b]
    <2> DEFINE J == idle[b] * rate[b]
    <2> DEFINE C == burst[b] * Unit
    <2>1. Refilled(b)' = Smaller(C, tokens[b] + I) /\ Refilled(b) = Smaller(C, tokens[b] + J)
      BY <1>1 DEF Refilled
    <2>2. C \in Nat /\ I \in Nat /\ J \in Nat /\ I <= J
      BY <1>3, <1>5
    <2> HIDE DEF C, I, J
    <2> QED
      BY <1>3, <2>1, <2>2 DEF Smaller
  <1>7. level[b] + Refilled(b)' <= burst[b] * Unit
    <2> DEFINE C == burst[b] * Unit
    <2>1. level[b] + Refilled(b) <= C /\ C \in Nat
      BY <1>3 DEF Quota
    <2> HIDE DEF C
    <2>2. level[b] + Refilled(b)' <= C
      BY <1>3, <1>6, <2>1
    <2> QED
      BY <2>2 DEF C
  <1>8. rate'[b] <= Limit(conf, b)'.rate
    <2>1. Limit(conf, b).rate \in Nat /\ rate[b] <= Limit(conf, b).rate
      BY LimitTyped DEF Quota, BucketsTyped
    <2> QED
      BY <1>2, <1>3, <1>4, <2>1
  <1> QED
    BY <1>1, <1>2, <1>7, <1>8 DEF Quota

\* Before any traffic the meters are empty, whatever limits arrive.
LEMMA QuotaFresh ==
  ASSUME BucketsTyped, NEW cfg \in Configs, NEW b \in Buckets,
         rate'[b] = Limit(cfg, b).rate, burst'[b] = Limit(cfg, b).burst, conf' = cfg,
         tokens'[b] = Limit(cfg, b).burst * Unit, idle'[b] = idle[b], level'[b] = 0
  PROVE  Quota(b)'
  <1>1. /\ Limit(cfg, b).rate \in Nat /\ Limit(cfg, b).burst \in Nat /\ Unit \in Nat
        /\ idle[b] \in Nat
    BY LimitTyped, LimitsAssumption, BucketFacts
  <1>2. Limit(conf, b)' = Limit(cfg, b)
    BY DEF Limit
  <1> DEFINE C == Limit(cfg, b).burst * Unit
  <1> DEFINE I == idle[b] * Limit(cfg, b).rate
  <1>3. C \in Nat /\ I \in Nat
    BY <1>1, Products
  <1>4. Refilled(b)' = Smaller(C, C + I)
    BY DEF Refilled
  <1>5. level'[b] + Refilled(b)' <= burst'[b] * Unit
    <2>1. burst'[b] * Unit = C
      OBVIOUS
    <2> HIDE DEF C, I
    <2> QED
      BY <1>3, <1>4, <2>1 DEF Smaller
  <1> QED
    BY <1>1, <1>2, <1>5 DEF Quota

\* A configuration replaced before any traffic finds empty meters.
LEMMA QuotaConfigure ==
  ASSUME TypeOK, QuotaInv, NEW cfg \in Configs, Configure(cfg)
  PROVE  QuotaInv'
  <1>1. BucketsTyped
    BY Split
  <1>2. started = {}
    BY DEF QuotaInv, TotalFirst, Configure, InUse, Classes
  <1>3. UNCHANGED <<idle, started, level, pc, path>>
    BY DEF Configure, request, history
  <1>4. ASSUME NEW b \in Buckets PROVE Quota(b)'
    <2>1. level'[b] = 0
      BY <1>2, <1>3 DEF QuotaInv, Quota
    <2> QED
      BY <1>1, <1>3, <2>1, QuotaFresh DEF Configure
  <1>5. TotalFirst'
    BY <1>3 DEF QuotaInv, TotalFirst, On
  <1> QED
    BY <1>4, <1>5 DEF QuotaInv

\* Steps that leave the buckets and the meters alone.
LEMMA QuotaFrame ==
  ASSUME QuotaInv, UNCHANGED <<conf, rate, burst, fill, started, level>>, TotalFirst'
  PROVE  QuotaInv'
  <1>1. ASSUME NEW b \in Buckets PROVE Quota(b)'
    <2>1. Refilled(b)' = Refilled(b) /\ Limit(conf, b)' = Limit(conf, b)
      BY DEF Refilled, Limit, fill
    <2> QED
      BY <2>1 DEF QuotaInv, Quota
  <1> QED
    BY <1>1 DEF QuotaInv

\* A call that leaves the acquisition gives up its path or keeps it.
LEMMA TotalDropped ==
  ASSUME TypeOK, QuotaInv, NEW c \in Callers, started' = started,
         NEW next \in {"idle", "attempt", "backoff", "clamp"},
         pc' = [pc EXCEPT ![c] = next],
         \A o \in Callers \ {c} : path'[o] = path[o]
  PROVE  TotalFirst'
  <1>1. ASSUME NEW o \in Callers, pc'[o] \in {"lock", "wait", "send"} PROVE "total" \in On(o)'
    <2>1. o # c /\ pc'[o] = pc[o]
      BY <1>1 DEF TypeOK
    <2> QED
      BY <1>1, <2>1 DEF QuotaInv, TotalFirst, On
  <1> QED
    BY <1>1 DEF QuotaInv, TotalFirst

LEMMA TotalKept ==
  ASSUME TypeOK, QuotaInv, NEW c \in Callers, started' = started, path' = path,
         pc[c] \in {"lock", "wait", "send"}, NEW next \in {"lock", "wait", "send"},
         pc' = [pc EXCEPT ![c] = next]
  PROVE  TotalFirst'
  <1>1. ASSUME NEW o \in Callers, pc'[o] \in {"lock", "wait", "send"} PROVE "total" \in On(o)'
    BY <1>1 DEF QuotaInv, TotalFirst, On, TypeOK
  <1> QED
    BY <1>1 DEF QuotaInv, TotalFirst

LEMMA PathsKept ==
  ASSUME TypeOK, NEW c \in Callers, Dropped(c) \/ Returned(c) \/ Again(c) \/ UNCHANGED path
  PROVE  \A o \in Callers \ {c} : path'[o] = path[o]
  BY DEF TypeOK, Dropped, Returned, Again

\* Responses move a call and pause buckets.
LEMMA QuotaResponse ==
  ASSUME TypeOK, QuotaInv, NEW c \in Callers, Response(c)
  PROVE  QuotaInv'
  <1>1. Exchange(c)
    BY DEF Response, Failed, Answered, Redirected, TooManyRedirects, Retried, Exhausted,
           BudgetRefused
  <1>2. pc[c] = "send" /\ UNCHANGED <<conf, rate, burst, fill, started, level>>
    BY <1>1 DEF Exchange, limits
  <1>3. CASE /\ pc' = [pc EXCEPT ![c] = "lock"] /\ path' = path
    BY <1>2, <1>3, TotalKept, QuotaFrame
  <1>4. CASE ~(/\ pc' = [pc EXCEPT ![c] = "lock"] /\ path' = path)
    <2>1. /\ \E next \in {"idle", "attempt", "backoff", "clamp"} : pc' = [pc EXCEPT ![c] = next]
          /\ Dropped(c) \/ Returned(c) \/ Again(c) \/ UNCHANGED path
      BY <1>4 DEF Response, Failed, Answered, Redirected, Redirection, TooManyRedirects, Retried,
                  Exhausted, BudgetRefused, Again, Returned, request
    <2> QED
      BY <1>2, <2>1, PathsKept, TotalDropped, QuotaFrame
  <1> QED
    BY <1>3, <1>4

\* The steps of a call that touch neither tokens nor rates.
LEMMA QuotaMove ==
  ASSUME TypeOK, QuotaInv, NEW c \in Callers,
         Call(c) \/ Cancelled(c) \/ Attempt(c) \/ Lock(c) \/ Woken(c) \/ BackedOff(c)
  PROVE  QuotaInv'
  <1>1. UNCHANGED <<conf, rate, burst, fill, started, level>>
    BY DEF Call, Cancelled, Attempt, Lock, Woken, BackedOff, limits, history
  <1>2. TotalFirst'
    <2>1. CASE Call(c) \/ Cancelled(c) \/ BackedOff(c)
      <3>1. /\ \E next \in {"idle", "attempt", "backoff", "clamp"} : pc' = [pc EXCEPT ![c] = next]
            /\ Returned(c) \/ UNCHANGED path
        BY <2>1 DEF Call, Cancelled, BackedOff, Returned, request
      <3> QED
        BY <1>1, <3>1, PathsKept, TotalDropped
    <2>2. CASE Lock(c)
      BY <1>1, <2>2 DEF Lock, QuotaInv, TotalFirst, On, request
    <2>3. CASE Woken(c)
      BY <1>1, <2>3, TotalKept DEF Woken, request
    <2>4. CASE Attempt(c)
      <3>1. ASSUME NEW o \in Callers, pc'[o] \in {"lock", "wait", "send"}
            PROVE  "total" \in On(o)'
        <4>1. CASE o = c
          <5>1. path'[c] = Path(c)
            BY <2>4 DEF Attempt, TypeOK
          <5> QED
            BY <4>1, <5>1, PathTyped DEF On
        <4>2. CASE o # c
          <5>1. path'[o] = path[o] /\ pc'[o] = pc[o]
            BY <2>4, <4>2 DEF Attempt, TypeOK
          <5> QED
            BY <3>1, <5>1 DEF QuotaInv, TotalFirst, On
        <4> QED
          BY <4>1, <4>2
      <3> QED
        BY <1>1, <3>1 DEF QuotaInv, TotalFirst
    <2> QED
      BY <2>1, <2>2, <2>3, <2>4
  <1> QED
    BY <1>1, <1>2, QuotaFrame

\* Admitted or refused, the buckets of the call are brought up to date.
LEMMA QuotaStepAcquire ==
  ASSUME TypeOK, QuotaInv, NEW c \in Callers, Admit(c) \/ Delay(c)
  PROVE  QuotaInv'
  <1>1. BucketsTyped /\ Unit \in Nat
    BY Split, LimitsAssumption
  <1>2. On(c) \subseteq Buckets
    BY DEF TypeOK, On
  <1>3. "total" \in On(c) /\ pc[c] = "lock"
    BY DEF QuotaInv, TotalFirst, Admit, Delay, HoldsAll
  <1>4. /\ started' = started \cup On(c) /\ UNCHANGED <<conf, rate, burst>> /\ path' = path
        /\ idle' = Refreshed(c)
        /\ \E next \in {"send", "wait"} : pc' = [pc EXCEPT ![c] = next]
    BY DEF Admit, Delay, request
  <1>5. TotalFirst'
    <2>1. ASSUME NEW o \in Callers, pc'[o] \in {"lock", "wait", "send"} PROVE "total" \in On(o)'
      BY <1>3, <1>4, <2>1 DEF QuotaInv, TotalFirst, On, TypeOK
    <2> QED
      BY <1>3, <1>4, <2>1 DEF TotalFirst
  <1>6. ASSUME NEW b \in Buckets PROVE Quota(b)'
    <2>1. CASE Admit(c)
      <3>1. \A o \in On(c) : Unit <= Refilled(o)
        <4>1. ASSUME NEW o \in On(c) PROVE Unit <= Refilled(o)
          <5>1. Refilled(o) >= Unit /\ Refilled(o) \in Nat
            BY <1>1, <1>2, <2>1, WaitTyped, RefillTyped DEF Admit
          <5> QED
            BY <1>1, <5>1
        <4> QED
          BY <4>1
      <3>2. /\ tokens' = Filled(c, Unit)
            /\ level' = [o \in Buckets |-> IF o \in On(c) THEN level[o] + Unit ELSE level[o]]
        BY <2>1 DEF Admit
      <3> QED
        BY <1>1, <1>2, <1>4, <3>1, <3>2, QuotaAcquire DEF QuotaInv
    <2>2. CASE Delay(c)
      <3>1. \A o \in On(c) : 0 <= Refilled(o)
        BY <1>1, <1>2, RefillTyped
      <3>2. tokens' = Filled(c, 0) /\ level' = level
        BY <2>2 DEF Delay, history
      <3>3. level' = [o \in Buckets |-> IF o \in On(c) THEN level[o] + 0 ELSE level[o]]
        BY <1>1, <3>2 DEF BucketsTyped
      <3> QED
        BY <1>1, <1>2, <1>4, <3>1, <3>2, <3>3, QuotaAcquire DEF QuotaInv
    <2> QED
      BY <2>1, <2>2
  <1> QED
    BY <1>5, <1>6 DEF QuotaInv

LEMMA QuotaStepClamp ==
  ASSUME TypeOK, QuotaInv, NEW c \in Callers, Clamp(c)
  PROVE  QuotaInv'
  <1>1. ASSUME NEW b \in Buckets PROVE Quota(b)'
    BY Split, QuotaClamp DEF QuotaInv
  <1>2. /\ started' = started /\ Again(c)
        /\ \E next \in {"idle", "attempt", "backoff", "clamp"} : pc' = [pc EXCEPT ![c] = next]
    BY DEF Clamp, Again, Returned
  <1>3. TotalFirst'
    BY <1>2, PathsKept, TotalDropped
  <1> QED
    BY <1>1, <1>3 DEF QuotaInv

LEMMA QuotaStep == TypeOK /\ QuotaInv /\ [Next]_vars => QuotaInv'
  <1> SUFFICES ASSUME TypeOK, QuotaInv, [Next]_vars PROVE QuotaInv'
    OBVIOUS
  <1>1. CASE Tick
    <2>1. ASSUME NEW b \in Buckets PROVE Quota(b)'
      BY <1>1, Split, QuotaTick DEF QuotaInv
    <2>2. TotalFirst'
      BY <1>1 DEF Tick, QuotaInv, TotalFirst, On, limits, request
    <2> QED
      BY <2>1, <2>2 DEF QuotaInv
  <1>2. CASE UNCHANGED vars
    <2>1. UNCHANGED <<conf, rate, burst, fill, started, level, pc, path>>
      BY <1>2 DEF vars, limits, request, history
    <2>2. TotalFirst'
      BY <2>1 DEF QuotaInv, TotalFirst, On
    <2> QED
      BY <2>1, <2>2, QuotaFrame
  <1>3. ASSUME NEW cfg \in Configs, Configure(cfg) PROVE QuotaInv'
    BY <1>3, QuotaConfigure
  <1>4. ASSUME NEW c \in Callers, Call(c) \/ Cancelled(c) \/ Step(c) PROVE QuotaInv'
    BY <1>4, QuotaMove, QuotaStepAcquire, QuotaStepClamp, QuotaResponse DEF Step
  <1> QED
    BY <1>1, <1>2, <1>3, <1>4 DEF Next

LEMMA QuotaInit == Init => QuotaInv
  <1> SUFFICES ASSUME Init PROVE QuotaInv
    OBVIOUS
  <1>1. BucketsTyped
    BY InitTyped, Split
  <1>2. ASSUME NEW b \in Buckets PROVE Quota(b)
    <2> DEFINE C == Limit(Default, b).burst * Unit
    <2> DEFINE R == Limit(Default, b).rate
    <2>1. R \in Nat /\ C \in Nat
      <3>1. R \in Nat /\ Limit(Default, b).burst \in Nat /\ Unit \in Nat
        BY LimitTyped, LimitsAssumption
      <3> QED
        BY <3>1, Products
    <2>2. /\ rate[b] = R /\ burst[b] = Limit(Default, b).burst /\ tokens[b] = C /\ idle[b] = 0
          /\ level[b] = 0 /\ conf = Default
      BY DEF Init
    <2>3. 0 * R = 0
      BY <2>1, Products
    <2>4. Refilled(b) = Smaller(C, C + 0 * R)
      BY <2>2 DEF Refilled
    <2>5. level[b] + Refilled(b) <= burst[b] * Unit
      <3>1. burst[b] * Unit = C
        BY <2>2
      <3> HIDE DEF C, R
      <3> QED
        BY <2>1, <2>2, <2>3, <2>4, <3>1 DEF Smaller
    <2> QED
      BY <2>1, <2>2, <2>5 DEF Quota
  <1>3. TotalFirst
    BY DEF Init, TotalFirst
  <1> QED
    BY <1>2, <1>3 DEF QuotaInv

\* In any stretch of time no bucket admits more than its burst and its configured rate
\* allow, for every number of callers and every configuration.
THEOREM QuotaKept == Spec => []WithinQuota
  <1>1. TypeOK /\ QuotaInv => WithinQuota
    <2> SUFFICES ASSUME TypeOK, QuotaInv, NEW b \in Buckets
                 PROVE  level[b] <= Limit(conf, b).burst * Unit
      BY DEF WithinQuota
    <2>1. /\ level[b] \in Nat /\ Refilled(b) \in Nat /\ burst[b] * Unit \in Nat
          /\ level[b] + Refilled(b) <= burst[b] * Unit
      BY Split, BucketFacts DEF QuotaInv, Quota
    <2>2. level[b] <= burst[b] * Unit
      <3> DEFINE C == burst[b] * Unit
      <3>1. C \in Nat /\ level[b] + Refilled(b) <= C
        BY <2>1
      <3> HIDE DEF C
      <3>2. level[b] <= C
        BY <2>1, <3>1
      <3> QED
        BY <3>2 DEF C
    <2> QED
      BY <2>2 DEF QuotaInv, Quota
  <1> QED
    BY <1>1, QuotaInit, QuotaStep, TypeCorrect, PTL DEF Spec

-----------------------------------------------------------------------------
(* Pauses.  What the responses asked for is what the buckets keep.         *)

PauseKept == \A b \in Buckets : paused[b] = barred[b]

LEMMA PauseStep == TypeOK /\ PauseKept /\ [Next]_vars => PauseKept'
  <1> SUFFICES ASSUME TypeOK, PauseKept, [Next]_vars PROVE PauseKept'
    OBVIOUS
  <1>0. paused \in [Buckets -> Nat] /\ barred \in [Buckets -> Nat]
    BY DEF TypeOK
  <1>1. ASSUME UNCHANGED <<paused, barred>> PROVE PauseKept'
    BY <1>1 DEF PauseKept
  <1>2. ASSUME NEW b \in Buckets, NEW d, paused' = Paused(b, d),
               barred' = [barred EXCEPT ![b] = Larger(@, d)]
        PROVE  PauseKept'
    BY <1>0, <1>2 DEF PauseKept, Paused
  <1>3. ASSUME NEW c \in Callers, Response(c) PROVE PauseKept'
    <2>1. CASE Failed(c)
      BY <1>1, <2>1 DEF Failed
    <2>2. CASE \E resource \in BOOLEAN : BudgetRefused(c, resource)
      <3>1. PICK resource \in BOOLEAN : BudgetRefused(c, resource)
        BY <2>2
      <3>2. Throttled(c, resource) \in Buckets
        BY CallersAssumption DEF Throttled, Buckets
      <3> QED
        BY <1>2, <3>1, <3>2 DEF BudgetRefused
    <2>3. CASE \E limit \in Asks, after \in Asks \cup {None} : Observed(c, limit, after)
      <3>1. PICK limit \in Asks, after \in Asks \cup {None} : Observed(c, limit, after)
        BY <2>3
      <3>2. "rest" \in Buckets
        BY DEF Buckets
      <3> QED
        BY <1>1, <1>2, <3>1, <3>2 DEF Observed
    <2> QED
      BY <1>3, <2>1, <2>2, <2>3
      DEF Response, Answered, Redirected, TooManyRedirects, Retried, Exhausted
  <1>4. CASE Tick
    BY <1>4 DEF Tick, PauseKept
  <1>5. ASSUME NEW c \in Callers,
               \/ Call(c) \/ Cancelled(c) \/ Attempt(c) \/ Lock(c) \/ Admit(c) \/ Delay(c)
               \/ Woken(c) \/ BackedOff(c) \/ Clamp(c)
        PROVE  PauseKept'
    BY <1>1, <1>5 DEF Call, Cancelled, Attempt, Lock, Admit, Delay, Woken, BackedOff, Clamp,
                      history
  <1>6. ASSUME NEW cfg \in Configs, Configure(cfg) PROVE PauseKept'
    BY <1>1, <1>6 DEF Configure, history
  <1> QED
    BY <1>1, <1>3, <1>4, <1>5, <1>6 DEF Next, Step, vars, history

\* No call is admitted while a pause that any response asked for lasts, also when it
\* was already waiting when the response came, for any number of callers.
THEOREM PausesRespected == Spec => NoAdmissionDuringPause
  <1>1. Init => PauseKept
    BY DEF Init, PauseKept
  <1>2. TypeOK /\ PauseKept /\ [Next]_vars =>
          [\A c \in Callers : credit[c]' > credit[c] => \A b \in On(c) : barred[b] = 0]_vars
    <2> SUFFICES ASSUME TypeOK, PauseKept, Next, NEW c \in Callers, credit[c]' > credit[c],
                        NEW b \in On(c)
                 PROVE  barred[b] = 0
      OBVIOUS
    <2>1. credit \in [Callers -> Int]
      BY DEF TypeOK
    <2>2. Admit(c)
      <3>1. credit' # credit
        BY <2>1
      <3>2. ASSUME NEW d \in Callers, Response(d) PROVE FALSE
        <4>1. credit' = [credit EXCEPT ![d] = @ - 1]
          BY <3>2 DEF Response, Failed, Answered, Redirected, TooManyRedirects, Retried,
                      Exhausted, BudgetRefused, Exchange
        <4> QED
          BY <2>1, <4>1
      <3>3. \E d \in Callers : Admit(d)
        BY <3>1, <3>2 DEF Next, Step, Tick, Configure, Call, Cancelled, Attempt, Lock, Delay,
                          Woken, BackedOff, Clamp, history
      <3>4. PICK d \in Callers : Admit(d)
        BY <3>3
      <3>5. credit' = [credit EXCEPT ![d] = @ + 1]
        BY <3>4 DEF Admit
      <3>6. d = c
        BY <2>1, <3>5
      <3> QED
        BY <3>4, <3>6
    <2>3. Wait(b) = 0
      BY <2>2 DEF Admit
    <2>4. b \in Buckets
      BY DEF On, TypeOK
    <2>5. paused[b] = 0
      BY <2>3, <2>4, Split, WaitTyped
    <2> QED
      BY <2>4, <2>5 DEF PauseKept
  <1> QED
    BY <1>1, <1>2, PauseStep, TypeCorrect, PTL DEF Spec, NoAdmissionDuringPause

=============================================================================

------------------------------ MODULE ApiClient ------------------------------
(***************************************************************************)
(* The Cloudflare API client of internal/cfapi: concurrent REST and        *)
(* GraphQL calls, their retries and redirects, and the token buckets that  *)
(* every HTTP exchange passes (limiter.go, ratelimit_headers.go, do,       *)
(* doRedirects and graph).                                                 *)
(*                                                                         *)
(* Time is relative and counted in ticks: a bucket knows the ticks since   *)
(* its last refill and the rest of its pause, a caller the rest of its     *)
(* timer.  A token is Unit parts; a rate is parts per tick.                *)
(***************************************************************************)
EXTENDS Integers, Sequences, FiniteSets

CONSTANTS
  Callers,    \* concurrent calls of the client
  Method,     \* GET (REST) or POST (GraphQL), for each caller
  Scope,      \* the zone or account a GraphQL caller is metered against
  Resources,  \* the zones and accounts
  None,       \* no holder, no Retry-After header
  Origins,    \* the origins of redirect targets
  Home,       \* the origin of the API
  Configs,    \* the configurations ConfigureProcessRateLimit is called with
  Default,    \* the one in force at package initialisation
  Unit,       \* parts of a token
  SafeRate,   \* perTokenSafeRate
  BudgetPause,\* the 300 seconds after a GraphQL budget error
  Asks,       \* the pauses that response headers ask for, 0 for none
  Backoff,    \* the delay after each attempt, 100 ms doubled each time
  MaxDelay,   \* the ceiling of a retry delay, 10 seconds
  Attempts,   \* HTTP attempts of one request, 5
  Hops,       \* exchanges of one attempt, 10
  MaxCalls,   \* bound: calls made by one caller
  Together,   \* bound: the sets of callers that call in one behaviour
  Horizon     \* bound: longer idle times fill every bucket

Limit(cfg, b) == IF b \in Resources THEN cfg.scope ELSE cfg[b]

Buckets == {"rest", "graphql", "total"} \cup Resources

BucketConfig == [rate : Nat \ {0}, burst : Nat \ {0}]

RateLimitConfig ==
  [rest : BucketConfig, graphql : BucketConfig, total : BucketConfig,
   scope : BucketConfig, accountBased : BOOLEAN, maxPause : Nat \ {0}]

ASSUME CallersAssumption ==
  /\ Method \in [Callers -> {"GET", "POST"}]
  /\ Scope \in [Callers -> Resources]
  /\ None \notin Callers \cup Nat
  /\ Home \in Origins
  /\ {"rest", "graphql", "total"} \cap Resources = {}

ASSUME LimitsAssumption ==
  /\ Unit \in Nat \ {0} /\ SafeRate \in Nat \ {0} /\ Horizon \in Nat
  /\ Configs \subseteq RateLimitConfig /\ Default \in Configs
  /\ \A cfg \in Configs : \A b \in Buckets :
       Limit(cfg, b).burst * Unit <= Limit(cfg, b).rate * Horizon

ASSUME BoundsAssumption ==
  /\ Asks \subseteq Nat /\ 0 \in Asks
  /\ BudgetPause \in Nat /\ MaxDelay \in Nat
  /\ Backoff \in [0 .. Attempts - 1 -> Nat]
  /\ Attempts \in Nat \ {0} /\ Hops \in Nat \ {0} /\ MaxCalls \in Nat

VARIABLES
  conf,     \* the accepted configuration
  rate, burst, tokens, idle, paused,  \* the fields of each tokenBucket
  started,  \* buckets that have seen traffic
  opened,   \* scopeBuckets.buckets: the resource buckets that exist
  holder,   \* who holds each bucket's mutex
  pc,       \* where each call is
  path,     \* the buckets the call's attempt acquires, in lock order
  held,     \* how many of them it has locked
  timer,    \* the rest of its delay
  try,      \* graph's attempt
  attempt,  \* do's attempt
  hop,      \* doRedirects' hops
  at,       \* the origin of the next exchange
  token,    \* whether it carries the Authorization header
  calls,    \* calls made
  level,    \* history: each bucket's load on a leaky meter at the far end
  barred,   \* history: the rest of the longest pause asked for
  credit    \* history: admissions less HTTP exchanges of each caller

limits == <<conf, rate, burst, started, opened>>
fill == <<tokens, idle>>
request == <<path, try, attempt, hop, at, token>>
history == <<level, barred, credit>>
vars == <<limits, fill, paused, holder, pc, held, timer, request, calls, history>>

Larger(a, b) == IF a >= b THEN a ELSE b
Smaller(a, b) == IF a <= b THEN a ELSE b
\* Mutant: the wait for a token is rounded down.
CeilCut(a, b) == a \div b

\* a / b, rounded up
Ceil(a, b) == (a + b - 1) \div b

TypeOK ==
  /\ conf \in Configs
  /\ rate \in [Buckets -> Nat \ {0}] /\ burst \in [Buckets -> Nat \ {0}]
  /\ tokens \in [Buckets -> Nat] /\ idle \in [Buckets -> 0 .. Horizon]
  /\ paused \in [Buckets -> Nat]
  /\ started \subseteq Buckets /\ opened \subseteq Resources
  /\ holder \in [Buckets -> Callers \cup {None}]
  /\ pc \in [Callers -> {"idle", "attempt", "lock", "wait", "send", "backoff", "clamp"}]
  /\ path \in [Callers -> Seq(Buckets)] /\ held \in [Callers -> Nat]
  /\ timer \in [Callers -> Nat] /\ try \in [Callers -> Nat]
  /\ attempt \in [Callers -> 0 .. Attempts - 1] /\ hop \in [Callers -> Nat]
  /\ at \in [Callers -> Origins] /\ token \in [Callers -> BOOLEAN]
  /\ calls \in [Callers -> Nat]
  /\ level \in [Buckets -> Nat] /\ barred \in [Buckets -> Nat]
  /\ credit \in [Callers -> Int]

Init ==
  /\ conf = Default
  /\ rate = [b \in Buckets |-> Limit(Default, b).rate]
  /\ burst = [b \in Buckets |-> Limit(Default, b).burst]
  /\ tokens = [b \in Buckets |-> Limit(Default, b).burst * Unit]
  /\ idle = [b \in Buckets |-> 0] /\ paused = [b \in Buckets |-> 0]
  /\ started = {} /\ opened = {}
  /\ holder = [b \in Buckets |-> None]
  /\ pc = [c \in Callers |-> "idle"] /\ path = [c \in Callers |-> <<>>]
  /\ held = [c \in Callers |-> 0] /\ timer = [c \in Callers |-> 0]
  /\ try = [c \in Callers |-> 0] /\ attempt = [c \in Callers |-> 0]
  /\ hop = [c \in Callers |-> 0] /\ at = [c \in Callers |-> Home]
  /\ token = [c \in Callers |-> TRUE] /\ calls = [c \in Callers |-> 0]
  /\ level = [b \in Buckets |-> 0] /\ barred = [b \in Buckets |-> 0]
  /\ credit = [c \in Callers |-> 0]

-----------------------------------------------------------------------------
(* Configuration                                                           *)

Classes == {"rest", "graphql", "total"}

\* The configuration's values are those already in the buckets.
Same(cfg) ==
  /\ \A b \in Classes : rate[b] = cfg[b].rate /\ burst[b] = cfg[b].burst
  /\ conf.maxPause = cfg.maxPause
  /\ conf.accountBased = cfg.accountBased
  /\ conf.scope = cfg.scope

InUse == started \cap Classes # {} \/ opened # {}

\* Every bucket's mutex is held while the values are compared and replaced.
\* Resource buckets take their limits from the configuration when they open.
Configure(cfg) ==
  /\ \A b \in Classes : holder[b] = None
  /\ ~Same(cfg) /\ ~InUse
  /\ conf' = cfg
  /\ rate' = [b \in Buckets |-> Limit(cfg, b).rate]
  /\ burst' = [b \in Buckets |-> Limit(cfg, b).burst]
  /\ tokens' = [b \in Buckets |-> Limit(cfg, b).burst * Unit]
  /\ UNCHANGED <<idle, paused, started, opened, holder, pc, held, timer, request, calls,
                 history>>

-----------------------------------------------------------------------------
(* The token buckets                                                       *)

Refilled(b) == Smaller(burst[b] * Unit, tokens[b] + idle[b] * rate[b])

\* Mutant: a request that waits for a token does not look at the pause.
NoPause(b) == IF Refilled(b) < Unit THEN Ceil(Unit - Refilled(b), rate[b]) ELSE 0

\* How long a request has to wait for this bucket.
Wait(b) ==
  Larger(paused[b],
         IF Refilled(b) < Unit THEN Ceil(Unit - Refilled(b), rate[b]) ELSE 0)

\* Mutant: the latest response decides, so a short pause ends a longer one.
PausedAfresh(b, delay) == [paused EXCEPT ![b] = delay]

\* A pause extends the current one and never shortens it.
Paused(b, delay) == [paused EXCEPT ![b] = Larger(@, delay)]

On(c) == {path[c][i] : i \in DOMAIN path[c]}

HoldsAll(c) == pc[c] = "lock" /\ held[c] = Len(path[c])

\* acquireBudgets locks the buckets one after the other.
Lock(c) ==
  /\ pc[c] = "lock" /\ held[c] < Len(path[c])
  /\ holder[path[c][held[c] + 1]] = None
  /\ holder' = [holder EXCEPT ![path[c][held[c] + 1]] = c]
  /\ held' = [held EXCEPT ![c] = @ + 1]
  /\ UNCHANGED <<limits, fill, paused, pc, timer, request, calls, history>>

\* Mutant: a refused admission leaves its buckets locked.
KeptLocked(c) ==
  [b \in Buckets |-> IF b \in On(c) /\ (\A o \in On(c) : Wait(o) = 0) THEN None ELSE holder[b]]

Unlocked(c) == [b \in Buckets |-> IF b \in On(c) THEN None ELSE holder[b]]

\* The tokens of the call's buckets after a refill, less what is taken.
Filled(c, taken) ==
  [b \in Buckets |-> IF b \in On(c) THEN Refilled(b) - taken ELSE tokens[b]]

\* Mutant: a refused admission keeps the old time of the last refill.
RefreshedTwice(c) ==
  [b \in Buckets |-> IF b \in On(c) /\ (\A o \in On(c) : Wait(o) = 0) THEN 0 ELSE idle[b]]

Refreshed(c) == [b \in Buckets |-> IF b \in On(c) THEN 0 ELSE idle[b]]

\* Every bucket has a token and none is paused: one is taken from each.
Admit(c) ==
  /\ HoldsAll(c)
  /\ \A b \in On(c) : Wait(b) = 0
  /\ tokens' = Filled(c, Unit) /\ idle' = Refreshed(c)
  /\ started' = started \cup On(c)
  /\ holder' = Unlocked(c) /\ held' = [held EXCEPT ![c] = 0]
  /\ pc' = [pc EXCEPT ![c] = "send"]
  /\ level' = [b \in Buckets |-> IF b \in On(c) THEN level[b] + Unit ELSE level[b]]
  /\ credit' = [credit EXCEPT ![c] = @ + 1]
  /\ UNCHANGED <<conf, rate, burst, opened, paused, timer, request, calls, barred>>

\* Otherwise nothing is taken and the call sleeps for the longest wait.
Delay(c) ==
  /\ HoldsAll(c)
  /\ \E b \in On(c) : Wait(b) > 0 /\ (\A o \in On(c) : Wait(o) <= Wait(b))
                      /\ timer' = [timer EXCEPT ![c] = Wait(b)]
  /\ tokens' = Filled(c, 0) /\ idle' = Refreshed(c)
  /\ started' = started \cup On(c)
  /\ holder' = Unlocked(c) /\ held' = [held EXCEPT ![c] = 0]
  /\ pc' = [pc EXCEPT ![c] = "wait"]
  /\ UNCHANGED <<conf, rate, burst, opened, paused, request, calls, history>>

\* Mutant: a call takes its tokens when its timer fires, with no second look at the buckets.
WokenAdmitted(c) ==
  /\ pc[c] = "wait" /\ timer[c] = 0
  /\ pc' = [pc EXCEPT ![c] = "send"]
  /\ credit' = [credit EXCEPT ![c] = @ + 1]
  /\ UNCHANGED <<limits, fill, paused, holder, held, timer, request, calls, level, barred>>

\* The timer of a sleeping call fires and it starts over.
Woken(c) ==
  /\ pc[c] = "wait" /\ timer[c] = 0
  /\ pc' = [pc EXCEPT ![c] = "lock"]
  /\ UNCHANGED <<limits, fill, paused, holder, held, timer, request, calls, history>>

-----------------------------------------------------------------------------
(* Requests, retries and redirects                                         *)

Call(c) ==
  /\ pc[c] = "idle" /\ calls[c] < MaxCalls
  /\ \E few \in Together : {o \in Callers : o = c \/ calls[o] > 0} \subseteq few
  /\ pc' = [pc EXCEPT ![c] = "attempt"]
  /\ calls' = [calls EXCEPT ![c] = @ + 1]
  /\ UNCHANGED <<limits, fill, paused, holder, held, timer, request, history>>

\* Per-resource metering applies to GraphQL when it is configured.
Resource(c) ==
  IF Method[c] = "POST" /\ conf.accountBased THEN {Scope[c]} ELSE {}

\* Mutant: the second try of a GraphQL call locks the class before the resource.
PathTurned(c) ==
  IF Method[c] = "GET" THEN <<"rest", "total">>
  ELSE IF Resource(c) = {} THEN <<"graphql", "total">>
  ELSE IF try[c] = 0 THEN <<Scope[c], "graphql", "total">> ELSE <<"graphql", Scope[c], "total">>

Path(c) ==
  IF Method[c] = "GET" THEN <<"rest", "total">>
  ELSE IF Resource(c) = {} THEN <<"graphql", "total">>
  ELSE <<Scope[c], "graphql", "total">>

\* do builds the request and doRedirects chooses its buckets.
Attempt(c) ==
  /\ pc[c] = "attempt"
  /\ pc' = [pc EXCEPT ![c] = "lock"]
  /\ path' = [path EXCEPT ![c] = Path(c)]
  /\ opened' = opened \cup Resource(c)
  /\ UNCHANGED <<conf, rate, burst, started, fill, paused, holder, held, timer, try,
                 attempt, hop, at, token, calls, history>>

\* The request ends, with the state it keeps for its redirects.
Dropped(c) ==
  /\ path' = [path EXCEPT ![c] = <<>>]
  /\ hop' = [hop EXCEPT ![c] = 0] /\ at' = [at EXCEPT ![c] = Home]
  /\ token' = [token EXCEPT ![c] = TRUE]

\* The call ends, with a result or an error.
Returned(c) ==
  /\ pc' = [pc EXCEPT ![c] = "idle"]
  /\ try' = [try EXCEPT ![c] = 0] /\ attempt' = [attempt EXCEPT ![c] = 0]
  /\ timer' = [timer EXCEPT ![c] = 0]
  /\ Dropped(c)

\* The caller's context ends while no mutex is held.
Cancelled(c) ==
  /\ pc[c] \in {"wait", "backoff"} \/ (pc[c] = "lock" /\ held[c] = 0)
  /\ Returned(c)
  /\ UNCHANGED <<limits, fill, paused, holder, held, calls, history>>

Exchange(c) ==
  /\ pc[c] = "send"
  /\ credit' = [credit EXCEPT ![c] = @ - 1]
  /\ UNCHANGED <<limits, fill, holder, held, calls, level>>

\* The pause that a response's Ratelimit and Retry-After headers ask for.
HeaderPause(limit, after) ==
  Smaller(IF after = None THEN limit ELSE Larger(limit, after), conf.maxPause)

\* observeRESTHeaders: only REST responses pause their class.
Observed(c, limit, after) ==
  IF Method[c] = "GET"
  THEN /\ holder["rest"] = None
       /\ paused' = Paused("rest", HeaderPause(limit, after))
       /\ barred' = [barred EXCEPT !["rest"] = Larger(@, HeaderPause(limit, after))]
  ELSE UNCHANGED <<paused, barred>>

\* No response: the network failed, the context ended or the timeout passed.
Failed(c) ==
  /\ Exchange(c) /\ Returned(c)
  /\ UNCHANGED <<paused, barred>>

\* A final response: a result, an error status, an unreadable or oversized body.
Answered(c, limit, after) ==
  /\ Exchange(c) /\ Observed(c, limit, after) /\ Returned(c)

\* Mutant: the headers are copied as they are.
KeepToken(c, next) == token[c]

\* Mutant: the credential is set for every request to the API's origin.
TokenRestored(c, next) == next = Home

\* The credential stays only while the origin does.
Forwarded(c, next) == token[c] /\ next = at[c]

\* After a redirect the next exchange passes the buckets again.
Redirection == "lock"

\* Only GET follows a redirect.
Redirected(c, next, limit, after) ==
  /\ Method[c] = "GET"
  /\ Exchange(c) /\ Observed(c, limit, after)
  /\ hop[c] < Hops - 1
  /\ hop' = [hop EXCEPT ![c] = @ + 1]
  /\ at' = [at EXCEPT ![c] = next]
  /\ token' = [token EXCEPT ![c] = Forwarded(c, next)]
  /\ pc' = [pc EXCEPT ![c] = Redirection]
  /\ UNCHANGED <<timer, path, try, attempt>>

TooManyRedirects(c, limit, after) ==
  /\ Method[c] = "GET"
  /\ hop[c] >= Hops - 1
  /\ Answered(c, limit, after)

\* The server's wish within both ceilings, or an exponential delay.
RetryDelay(c, after) ==
  Smaller(MaxDelay,
          IF after = None THEN Backoff[attempt[c]]
          ELSE IF Method[c] = "GET" THEN Smaller(after, conf.maxPause) ELSE after)

NextAttempt(c) == [attempt EXCEPT ![c] = @ + 1]

\* Status 429, 502, 503 or 504: wait and try again, or give up.
Retried(c, limit, after) ==
  /\ Exchange(c) /\ Observed(c, limit, after)
  /\ attempt[c] < Attempts - 1
  /\ timer' = [timer EXCEPT ![c] = RetryDelay(c, after)]
  /\ attempt' = NextAttempt(c)
  /\ pc' = [pc EXCEPT ![c] = "backoff"]
  /\ Dropped(c)
  /\ UNCHANGED try

Exhausted(c, limit, after) ==
  /\ attempt[c] >= Attempts - 1
  /\ Answered(c, limit, after)

BackedOff(c) ==
  /\ pc[c] = "backoff" /\ timer[c] = 0
  /\ pc' = [pc EXCEPT ![c] = "attempt"]
  /\ UNCHANGED <<limits, fill, paused, holder, held, timer, request, calls, history>>

-----------------------------------------------------------------------------
(* GraphQL budget errors                                                   *)

\* The bucket a budget error pauses: the resource it names, or the class.
Throttled(c, resource) ==
  IF resource /\ Resource(c) # {} THEN Scope[c] ELSE "graphql"

\* graph tries a second time and then gives up.
Again(c) ==
  IF try[c] = 0
  THEN /\ pc' = [pc EXCEPT ![c] = "attempt"]
       /\ try' = [try EXCEPT ![c] = 1]
       /\ attempt' = [attempt EXCEPT ![c] = 0]
       /\ Dropped(c)
       /\ UNCHANGED timer
  ELSE Returned(c)

BudgetRefused(c, resource) ==
  LET b == Throttled(c, resource) IN
  /\ Method[c] = "POST" /\ Exchange(c)
  /\ holder[b] = None
  /\ paused' = Paused(b, BudgetPause)
  /\ barred' = [barred EXCEPT ![b] = Larger(@, BudgetPause)]
  /\ IF b = "graphql" /\ conf.accountBased
     THEN pc' = [pc EXCEPT ![c] = "clamp"] /\ UNCHANGED <<timer, request>>
     ELSE Again(c)

\* The quota proved to be per token: lower the class's rate, never raise it.
Clamp(c) ==
  /\ pc[c] = "clamp" /\ holder["graphql"] = None
  /\ rate' = [rate EXCEPT !["graphql"] = Smaller(@, SafeRate)]
  /\ Again(c)
  /\ UNCHANGED <<conf, burst, started, opened, fill, paused, holder, held, calls, history>>

-----------------------------------------------------------------------------

Later(n) == IF n < Horizon THEN n + 1 ELSE n
Sooner(n) == IF n > 0 THEN n - 1 ELSE 0

Tick ==
  /\ idle' = [b \in Buckets |-> IF b \in started THEN Later(idle[b]) ELSE 0]
  /\ level' = [b \in Buckets |-> Larger(0, level[b] - Limit(conf, b).rate)]
  /\ paused' = [b \in Buckets |-> Sooner(paused[b])]
  /\ barred' = [b \in Buckets |-> Sooner(barred[b])]
  /\ timer' = [c \in Callers |-> Sooner(timer[c])]
  /\ UNCHANGED <<limits, tokens, holder, pc, held, request, calls, credit>>

Response(c) ==
  \/ Failed(c)
  \/ \E limit \in Asks, after \in Asks \cup {None} :
       \/ Answered(c, limit, after)
       \/ \E next \in Origins : Redirected(c, next, limit, after)
       \/ TooManyRedirects(c, limit, after)
       \/ Retried(c, limit, after)
       \/ Exhausted(c, limit, after)
  \/ \E resource \in BOOLEAN : BudgetRefused(c, resource)

Step(c) ==
  \/ Attempt(c) \/ Lock(c) \/ Admit(c) \/ Delay(c) \/ Woken(c) \/ BackedOff(c)
  \/ Response(c) \/ Clamp(c)

Next ==
  \/ Tick
  \/ \E cfg \in Configs : Configure(cfg)
  \/ \E c \in Callers : Call(c) \/ Cancelled(c) \/ Step(c)

Spec == Init /\ [][Next]_vars

\* Goroutines run, timers fire, and an exchange ends at its timeout.
Fairness == WF_vars(Tick) /\ \A c \in Callers : WF_vars(Step(c))

LiveSpec == Spec /\ Fairness

-----------------------------------------------------------------------------
(* Properties                                                              *)

\* acquireBudgets: in any stretch of time no bucket admits more than its burst and
\* what its configured rate allows, however callers interleave, redirects and retries
\* add exchanges, rates are clamped and configurations arrive: a leaky meter of the
\* configured size at the far end never overflows.
WithinQuota == \A b \in Buckets : level[b] <= Limit(conf, b).burst * Unit

\* tokenBucket.pause: no call is admitted during a pause that any response asked for,
\* not even one that was already waiting when the response arrived.
NoAdmissionDuringPause ==
  [][\A c \in Callers : credit[c]' > credit[c] =>
       \A b \in On(c) : barred[b] = 0]_vars

TokenAtHome == \A c \in Callers : pc[c] = "send" /\ token[c] => at[c] = Home
TokenStaysOff == \A c \in Callers : hop[c]' > hop[c] /\ token[c]' => token[c]

\* doRedirects: the API token goes to the API's own origin only, along every chain of
\* redirects and retries; and a chain that has lost it does not carry it again, not even
\* when it comes back to that origin.
TokenStaysHome == []TokenAtHome /\ [][TokenStaysOff]_vars

\* limiter.go: every HTTP exchange, retries and redirects included, was admitted by its
\* buckets first.
EveryExchangeMetered == \A c \in Callers :
  credit[c] = IF pc[c] = "send" THEN 1 ELSE 0

\* do and graph: every call returns, whatever the server answers and the others do.
Returns == \A c \in Callers : (pc[c] # "idle") ~> (pc[c] = "idle")

\* The comment of ConfigureProcessRateLimit: configuring the values in force again is
\* accepted after traffic.
Idempotent == InUse => Same(conf)

-----------------------------------------------------------------------------
=============================================================================

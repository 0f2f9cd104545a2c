------------------------------ MODULE RateLimit ------------------------------
(***************************************************************************)
(* The limiter in front of every request of the API: RateLimitMiddleware   *)
(* and RedisRateLimiter.  A request names a key, Redis counts it, and a    *)
(* call that fails lets the request through.  A call may run out of time   *)
(* while Redis is up, before or after it was executed; and Redis keeps     *)
(* nothing on disk (infra/docker-compose.yml), so an outage forgets all.   *)
(*                                                                         *)
(* Time is in units of the breaker's ten seconds; a window is longer.      *)
(***************************************************************************)
EXTENDS Naturals, Sequences, FiniteSets

CONSTANTS
  Token,        \* bearer tokens, live, forged or refreshed, from one address
  NoToken,      \* a request that carries none
  Replica,      \* processes of the API, each with its own breaker
  Slot,         \* requests being handled at once
  Limit,        \* requests a window allows
  Threshold,    \* failures in a row that open the breaker
  Cooldown,     \* how long it stays open
  Window,       \* seconds a key lives after its last hit
  MaxNow, MaxRequests, MaxFaults    \* bounds of the checks

ASSUME LimiterConstants ==
  /\ {Limit, Threshold, Cooldown, Window} \subseteq Nat \ {0}
  /\ {MaxNow, MaxRequests, MaxFaults} \subseteq Nat

VARIABLES
  now,
  up,        \* Redis answers
  faults,    \* how often it stopped, or kept a call waiting too long
  late,      \* commands of each key that nobody waits for, still to be executed
  counter,   \* Redis: what each key holds and when it goes
  breaker,   \* each replica's failures in a row, and until when it asks nobody
  request,   \* the requests being handled
  arrived,   \* how many there were
  log        \* history: the hits Redis counted of each key, and its verdicts

limiterVars == << now, up, faults, late, counter, breaker, request, arrived, log >>

Bucket == {"auth", "api"}
Address == "address"

\* _key_for: the digest of a bearer token stands for the caller, except while
\* signing in; without a token it is the address.
KeyFor(bucket, token) ==
  << bucket, IF bucket = "api" /\ token # NoToken THEN token ELSE Address >>

Key == {KeyFor(b, t) : b \in Bucket, t \in Token \cup {NoToken}}

NoHandling == [step |-> "idle"]

Passed(k) == [step |-> "passed", key |-> k]

Handling ==
  [step : {"asking", "counted", "broken"}, key : Key, at : 0 .. MaxNow, by : Replica,
   ok : BOOLEAN]

InitLimiter ==
  /\ now = 0 /\ up = TRUE /\ faults = 0 /\ late = [k \in Key |-> 0]
  /\ counter = [k \in Key |-> [count |-> 0, until |-> 0]]
  /\ breaker = [r \in Replica |-> [failures |-> 0, skip |-> 0]]
  /\ request = [s \in Slot |-> NoHandling] /\ arrived = 0
  /\ log = [k \in Key |-> << >>]

In(s, step) == request[s].step = step

LetThrough(s) == request' = [request EXCEPT ![s] = Passed(@.key)]

\* dispatch and the head of hit: an open breaker asks nobody.
Arrives(s, r, k) ==
  /\ In(s, "idle") /\ arrived < MaxRequests
  /\ arrived' = arrived + 1
  /\ request' = [request EXCEPT ![s] =
       IF now < breaker[r].skip
       THEN Passed(k)
       ELSE [step |-> "asking", key |-> k, at |-> now, by |-> r, ok |-> TRUE]]
  /\ UNCHANGED << now, up, faults, late, counter, breaker, log >>

\* What a key's count becomes with one more hit: INCR on what is still there,
\* and EXPIRE, which every hit pushes back.
Incremented(k) ==
  [count |-> IF now < counter[k].until THEN counter[k].count + 1 ELSE 1,
   until |-> now + Window]

\* Mutant of Allowed: what was used before this request is compared.
AllowedBefore(n) == n - 1 <= Limit

Allowed(n) == n <= Limit

\* INCR and EXPIRE are executed for one more hit of a key.
CountsHit(k) ==
  /\ counter' = [counter EXCEPT ![k] = Incremented(k)]
  /\ log' = [log EXCEPT ![k] = Append(@, [at |-> now, ok |-> Allowed(Incremented(k).count)])]

Counts(s) ==
  LET k == request[s].key IN
  /\ up /\ In(s, "asking")
  /\ CountsHit(k)
  /\ request' = [request EXCEPT ![s].step = "counted",
                                ![s].ok = Allowed(Incremented(k).count)]
  /\ UNCHANGED << now, up, faults, late, breaker, arrived >>

\* The client stops waiting for Redis, which is up: for an answer on its way, or
\* for a command that is executed later or never.
TimesOut(s) ==
  LET k == request[s].key IN
  /\ up /\ faults < MaxFaults
  /\ \/ In(s, "counted") /\ late' = late
     \/ In(s, "asking") /\ \E n \in {0, 1} : late' = [late EXCEPT ![k] = @ + n]
  /\ faults' = faults + 1
  /\ request' = [request EXCEPT ![s].step = "broken", ![s].ok = TRUE]
  /\ UNCHANGED << now, up, counter, breaker, arrived, log >>

\* The client asks again by itself before it gives a call up.
AsksAgain(s) ==
  /\ In(s, "broken")
  /\ request' = [request EXCEPT ![s].step = "asking"]
  /\ UNCHANGED << now, up, faults, late, counter, breaker, arrived, log >>

CountsLate(k) ==
  /\ up /\ late[k] > 0
  /\ late' = [late EXCEPT ![k] = @ - 1]
  /\ CountsHit(k)
  /\ UNCHANGED << now, up, faults, breaker, request, arrived >>

\* The tail of hit: an answer ends the run of failures, and a count past the
\* limit is a 429.
Decided(s) ==
  /\ In(s, "counted")
  /\ breaker' = [breaker EXCEPT ![request[s].by].failures = 0]
  /\ IF request[s].ok THEN LetThrough(s)
                      ELSE request' = [request EXCEPT ![s] = NoHandling]
  /\ UNCHANGED << now, up, faults, late, counter, arrived, log >>

\* The except branch: fail open, and from the third failure in a row on stop
\* asking for ten seconds after the call began.
FailsOpen(s) ==
  LET r == request[s].by
      failures == breaker[r].failures + 1
  IN
  /\ In(s, "broken") \/ (In(s, "asking") /\ ~ up)
  /\ breaker' = [breaker EXCEPT ![r] =
       [failures |-> failures,
        skip |-> IF failures >= Threshold THEN request[s].at + Cooldown ELSE @.skip]]
  /\ LetThrough(s)
  /\ UNCHANGED << now, up, faults, late, counter, arrived, log >>

\* Redis goes down with what it held, and the calls it had not answered break.
GoesDown ==
  /\ up /\ faults < MaxFaults
  /\ up' = FALSE /\ faults' = faults + 1
  /\ late' = [k \in Key |-> 0]
  /\ counter' = [k \in Key |-> [count |-> 0, until |-> 0]]
  /\ log' = [k \in Key |-> << >>]
  /\ request' = [s \in Slot |->
       IF In(s, "asking") \/ In(s, "counted") THEN [request[s] EXCEPT !.step = "broken", !.ok = TRUE]
                                              ELSE request[s]]
  /\ UNCHANGED << now, breaker, arrived >>

ComesBack == ~ up /\ up' = TRUE
             /\ UNCHANGED << now, faults, late, counter, breaker, request, arrived, log >>

Tick == now < MaxNow /\ now' = now + 1
        /\ UNCHANGED << up, faults, late, counter, breaker, request, arrived, log >>

LimiterStep ==
  \/ \E s \in Slot, r \in Replica, k \in Key : Arrives(s, r, k)
  \/ \E s \in Slot :
       \/ Counts(s) \/ TimesOut(s) \/ AsksAgain(s)
       \/ Decided(s) \/ FailsOpen(s)
  \/ \E k \in Key : CountsLate(k)
  \/ ComesBack \/ Tick
-----------------------------------------------------------------------------
LimiterTypeOK ==
  /\ now \in 0 .. MaxNow /\ up \in BOOLEAN /\ faults \in 0 .. MaxFaults
  /\ late \in [Key -> Nat]
  /\ counter \in [Key -> [count : Nat, until : 0 .. now + Window]]
  /\ breaker \in [Replica -> [failures : 0 .. MaxRequests, skip : 0 .. now + Cooldown]]
  /\ request \in [Slot -> Handling \cup {NoHandling} \cup {Passed(k) : k \in Key}]
  /\ arrived \in 0 .. MaxRequests
  /\ \A k \in Key : log[k] \in Seq([at : 0 .. now, ok : BOOLEAN])

\* The hits of a key that Redis granted from the i-th on and within one window
\* of it.
GrantedInWindow(k, i) ==
  {j \in i .. Len(log[k]) : log[k][j].ok /\ log[k][j].at < log[k][i].at + Window}

\* Of the hits of one key that Redis counted since it last forgot, no stretch
\* of a window's length holds more granted ones than the limit, however many
\* replicas ask, calls time out or commands arrive late (ratelimit.py, "10
\* requests a minute on auth", "so every API replica shares them").  A request
\* gets through beyond that only if its own call failed or the breaker was open.
NeverOverLimit ==
  \A k \in Key : \A i \in DOMAIN log[k] :
    Cardinality(GrantedInWindow(k, i)) <= Limit
=============================================================================

---------------------------- MODULE RateLimiter -----------------------------
(***************************************************************************)
(* shared/storage/redis/redis.go, CheckRateLimits, behind the middleware   *)
(* gateway/middleware/ratelimit.go: a request reads its gateway's clock    *)
(* once and then runs up to three EVALs of an INCR-and-EXPIRE script, for  *)
(* its second, its minute and its day.  The keys hold the tenant, so the   *)
(* limits of one tenant are modelled.                                      *)
(*                                                                         *)
(* Redis, the only party that sees all requests, keeps time in ticks; a    *)
(* gateway's clock is off by at most Skew.  A window is named by its first *)
(* tick.  Redis runs the script atomically and forgets a key at its        *)
(* expiry.  The redis client sends a command again when the reply is lost. *)
(* Nothing bounds the time between the reading of the clock and an EVAL: a *)
(* request that is slow may find the key of its window expired and count   *)
(* it anew.  The history variable late tells how often that can have been. *)
(***************************************************************************)
EXTENDS Integers, FiniteSets

CONSTANTS
    Requests,       \* the requests of one tenant
    Quota,          \* per limit; 0 disables the limit
    Window, Ttl,    \* per limit: length of its window, lifetime of its key
    Second,         \* ticks in a second
    Skew,           \* how far a gateway's clock may be off
    Horizon,        \* bound: the clock stops here
    MaxLost         \* bound: replies lost on the way

rps == 1
rpm == 2
daily == 3
Limits == {rps, rpm, daily}
Done == 4

ASSUME RateLimiterAssumption ==
    /\ Quota \in [Limits -> Nat]
    /\ Window \in [Limits -> Nat \ {0}] /\ Ttl \in [Limits -> Nat]
    /\ Second \in Nat \ {0} /\ Window[rps] = Second
    /\ Skew \in Nat /\ Horizon \in Nat /\ MaxLost \in Nat
    /\ IsFiniteSet(Requests)

VARIABLES
    now,            \* the time at Redis
    stage,          \* per request: the limit to check next, 0 before it came
    verdict,        \* what the middleware decided
    read, offset,   \* when the request read its clock, how far that was off
    retryAt,        \* when a client that obeys Retry-After sends again
    count, expires, \* Redis: the counters and their expiry
    lost,           \* replies lost so far
    late            \* history: per window, the EVALs that came Late

requestVars == << stage, verdict, read, offset, retryAt >>
redisVars == << count, expires, late >>
vars == << now, requestVars, redisVars, lost >>

Time == 0 .. Horizon
Starts == 0 .. Horizon + Skew

Init ==
    /\ now = 0
    /\ stage = [r \in Requests |-> 0]
    /\ verdict = [r \in Requests |-> "none"]
    /\ read = [r \in Requests |-> 0]
    /\ offset = [r \in Requests |-> 0]
    /\ retryAt = [r \in Requests |-> 0]
    /\ count = [l \in Limits |-> [w \in Starts |-> 0]]
    /\ expires = [l \in Limits |-> [w \in Starts |-> 0]]
    /\ lost = 0
    /\ late = [l \in Limits |-> [w \in Starts |-> 0]]

Tick ==
    /\ now < Horizon
    /\ now' = now + 1
    /\ UNCHANGED << requestVars, redisVars, lost >>

-----------------------------------------------------------------------------
\* The reading of the gateway's clock, and the window it falls into.
Stamp(r) == read[r] + offset[r]
WindowOf(l, r) == Stamp(r) - (Stamp(r) % Window[l])

\* The first limit from l on that is not disabled.
NextEnabled(l) ==
    IF \E k \in Limits : k \geq l /\ Quota[k] > 0
    THEN CHOOSE k \in Limits : /\ k \geq l /\ Quota[k] > 0
                               /\ \A i \in Limits : i \geq l /\ Quota[i] > 0 => k \leq i
    ELSE Done

Goto(r, l) ==
    /\ stage' = [stage EXCEPT ![r] = l]
    /\ verdict' = [verdict EXCEPT ![r] = IF l = Done THEN "admitted" ELSE "pending"]

Arrive(r) ==
    /\ stage[r] = 0
    /\ \E d \in -Skew .. Skew :
        /\ now + d \geq 0
        /\ offset' = [offset EXCEPT ![r] = d]
    /\ read' = [read EXCEPT ![r] = now]
    /\ Goto(r, NextEnabled(rps))
    /\ UNCHANGED << now, retryAt, redisVars, lost >>

\* atomicIncrExpireScript
Live(l, w) == now < expires[l][w]
Incremented(l, w) == IF Live(l, w) THEN count[l][w] + 1 ELSE 1

\* How long after the reading of its clock a request's EVAL surely finds the key
\* that the first EVAL of its window made, whatever the clocks.
Slack(l) == Ttl[l] - Window[l] - 2 * Skew
Late(l, r) == now > read[r] + Slack(l)

RecordLate(l, r) ==
    late' = [late EXCEPT ![l][WindowOf(l, r)] = IF Late(l, r) THEN @ + 1 ELSE @]

\* Mutant: the key lives no longer than its window.
EvalShort(l, r) ==
    LET w == WindowOf(l, r)
    IN  /\ count' = [count EXCEPT ![l][w] = Incremented(l, w)]
        /\ expires' = [expires EXCEPT ![l][w] = IF Live(l, w) THEN @ ELSE now + Window[l]]
        /\ RecordLate(l, r)

Eval(l, r) ==
    LET w == WindowOf(l, r)
    IN  /\ count' = [count EXCEPT ![l][w] = Incremented(l, w)]
        /\ expires' = [expires EXCEPT ![l][w] = IF Live(l, w) THEN @ ELSE now + Ttl[l]]
        /\ RecordLate(l, r)

\* Mutant: every limit is retried like the one per second.
RetryAfterOne(l, r) == 1

\* Mutant: what is left of the window is truncated, down to no second at all.
RetryAfterTruncated(l, r) ==
    LET left == WindowOf(l, r) + Window[l] - (now + offset[r])
    IN  IF l = rps \/ left < 0 THEN 1 ELSE left \div Second

\* Seconds to wait: one, or those to the end of the minute or day by the
\* gateway's clock, as the conversion to int leaves them.
RetryAfter(l, r) ==
    LET left == WindowOf(l, r) + Window[l] - (now + offset[r])
    IN  IF l = rps \/ left < Second THEN 1 ELSE left \div Second

\* Mutant: the last request of the quota is rejected.
CheckOffByOne(r, l) ==
    LET w == WindowOf(l, r)
    IN  /\ stage[r] = l
        /\ verdict[r] = "pending"
        /\ Eval(l, r)
        /\ \/ /\ Incremented(l, w) < Quota[l]
              /\ Goto(r, NextEnabled(l + 1))
              /\ UNCHANGED retryAt
           \/ /\ Incremented(l, w) \geq Quota[l]
              /\ verdict' = [verdict EXCEPT ![r] = "rejected"]
              /\ retryAt' = [retryAt EXCEPT ![r] = now + Second * RetryAfter(l, r)]
              /\ UNCHANGED stage
        /\ UNCHANGED << now, read, offset, lost >>

Check(r, l) ==
    LET w == WindowOf(l, r)
    IN  /\ stage[r] = l
        /\ verdict[r] = "pending"
        /\ Eval(l, r)
        /\ \/ /\ Incremented(l, w) \leq Quota[l]
              /\ Goto(r, NextEnabled(l + 1))
              /\ UNCHANGED retryAt
           \/ /\ Incremented(l, w) > Quota[l]
              /\ verdict' = [verdict EXCEPT ![r] = "rejected"]
              /\ retryAt' = [retryAt EXCEPT ![r] = now + Second * RetryAfter(l, r)]
              /\ UNCHANGED stage
        /\ UNCHANGED << now, read, offset, lost >>

\* The script ran but its reply is lost; the client library sends it again.
ReplyLost(r, l) ==
    /\ stage[r] = l
    /\ verdict[r] = "pending"
    /\ lost < MaxLost
    /\ Eval(l, r)
    /\ lost' = lost + 1
    /\ UNCHANGED << now, requestVars >>

\* Redis does not answer, or the request's context is done: 503.  What the
\* earlier limits counted stays counted.
Fail(r) ==
    /\ verdict[r] = "pending"
    /\ verdict' = [verdict EXCEPT ![r] = "error"]
    /\ UNCHANGED << now, stage, read, offset, retryAt, redisVars, lost >>

Next ==
    \/ Tick
    \/ \E r \in Requests :
        \/ Arrive(r) \/ Fail(r)
        \/ \E l \in Limits : Check(r, l) \/ ReplyLost(r, l)

Spec == Init /\ [][Next]_vars

-----------------------------------------------------------------------------
(* Properties                                                              *)

\* Type invariant, with the least value of Retry-After, a second.
TypeOK ==
    /\ now \in Time
    /\ stage \in [Requests -> 0 .. Done]
    /\ verdict \in [Requests -> {"none", "pending", "admitted", "rejected", "error"}]
    /\ read \in [Requests -> Time]
    /\ offset \in [Requests -> -Skew .. Skew]
    /\ retryAt \in [Requests -> Nat]
    /\ count \in [Limits -> [Starts -> Nat]]
    /\ expires \in [Limits -> [Starts -> Nat]]
    /\ lost \in 0 .. MaxLost
    /\ late \in [Limits -> [Starts -> Nat]]
    /\ \A r \in Requests : verdict[r] = "rejected" => retryAt[r] \geq read[r] + Second

\* The requests of window w that limit l let through, and those it stopped.
Passed(l, w) == {r \in Requests : stage[r] > l /\ WindowOf(l, r) = w}
Admitted(l, w) == {r \in Requests : verdict[r] = "admitted" /\ WindowOf(l, r) = w}
Stopped(l, w) ==
    {r \in Requests : stage[r] = l /\ verdict[r] = "rejected" /\ WindowOf(l, r) = w}

\* CheckRateLimits: of the requests whose clock reads the same second, minute or
\* day, no more are admitted than the quota, for any interleaving of their EVALs,
\* lost replies and errors.  Only an EVAL that comes Late may let as many through
\* once more, since the key may be gone: the scripts leave 1, 60 and 3600 seconds
\* (redis.go:103-116, 138, 152, 180).
AdmittedWithinQuota ==
    \A l \in Limits, w \in Starts : Quota[l] > 0 =>
        Cardinality(Admitted(l, w)) \leq Quota[l] + Quota[l] * late[l][w]

\* The admitted requests whose clock read one of the ticks that a window is long,
\* from t on, wherever the windows begin.
Burst(l, t) ==
    {r \in Requests : verdict[r] = "admitted" /\ t \leq Stamp(r) /\ Stamp(r) < t + Window[l]}

\* CheckRateLimits: fixed windows let through twice the quota at most in any second,
\* minute or day, not only in those that begin where the windows do, unless an EVAL
\* of the windows that overlap came Late (redis.go:118-190).
BurstWithinTwiceQuota ==
    \A l \in Limits, t \in Starts :
        /\ Quota[l] > 0
        /\ \A w \in Starts : t - Window[l] < w /\ w \leq t + Window[l] => late[l][w] = 0
        => Cardinality(Burst(l, t)) \leq 2 * Quota[l]

\* CheckRateLimits: a request is rejected only when the quota of its window is
\* used up, by requests of the same window that were let through or stopped
\* there, or by repeated commands.
RejectedOnlyWhenFull ==
    \A r \in Requests : verdict[r] = "rejected" =>
        LET l == stage[r]
            w == WindowOf(l, r)
        IN  Cardinality(Passed(l, w)) + Cardinality(Stopped(l, w) \ {r}) + lost
                \geq Quota[l]

\* atomicIncrExpireScript: no counter outlives its time to live, so none stays
\* in Redis for ever.
EveryKeyExpires ==
    \A l \in Limits, w \in Starts : expires[l][w] \leq now + Ttl[l]

\* Retry-After is short of the window's end by less than a second.
RetryAfterWithinASecond ==
    \A r \in Requests : verdict[r] = "rejected" =>
        LET l == stage[r]
        IN  retryAt[r] + offset[r] + Second > WindowOf(l, r) + Window[l]

=============================================================================

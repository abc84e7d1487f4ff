------------------------- MODULE RateLimiterProofs --------------------------
(***************************************************************************)
(* Proofs about RateLimiter for every quota, window, time to live, clock   *)
(* skew, number and delay of requests: no window admits more requests than *)
(* its quota, and as many again for every EVAL that came Late.             *)
(***************************************************************************)
EXTENDS RateLimiter, FiniteSetTheorems, TLAPS

\* Truncating a clock reading to its second, minute or day.
LEMMA Truncate ==
    ASSUME NEW t \in Nat, NEW n \in Nat \ {0}
    PROVE  /\ t - (t % n) \in 0 .. t
           /\ t < (t - (t % n)) + n
<1>1. t % n \in 0 .. n - 1
    OBVIOUS
<1>2. t % n \leq t
  <2>1. CASE t < n
      BY <2>1
  <2>2. CASE t \geq n
      BY <1>1, <2>2
  <2> QED
      BY <2>1, <2>2
<1> QED
    BY <1>1, <1>2

\* The next limit to check is enabled, and those that are skipped are not.
LEMMA NextEnabledFacts ==
    ASSUME NEW l \in 1 .. Done
    PROVE  /\ NextEnabled(l) \in l .. Done
           /\ NextEnabled(l) # Done => NextEnabled(l) \in Limits /\ Quota[NextEnabled(l)] > 0
           /\ \A k \in Limits : l \leq k /\ k < NextEnabled(l) => Quota[k] = 0
<1> USE RateLimiterAssumption DEF Limits, rps, rpm, daily, Done
<1> DEFINE Least(k) == /\ k \geq l /\ Quota[k] > 0
                       /\ \A i \in Limits : i \geq l /\ Quota[i] > 0 => k \leq i
<1>1. CASE \E k \in Limits : k \geq l /\ Quota[k] > 0
  <2>1. \E k \in Limits : Least(k)
    <3>1. CASE l \leq 1 /\ Quota[1] > 0
        BY <3>1
    <3>2. CASE l \leq 2 /\ Quota[2] > 0 /\ ~(l \leq 1 /\ Quota[1] > 0)
        BY <3>2
    <3>3. CASE ~(l \leq 2 /\ Quota[2] > 0) /\ ~(l \leq 1 /\ Quota[1] > 0)
        BY <1>1, <3>3
    <3> QED
        BY <3>1, <3>2, <3>3
  <2>2. NextEnabled(l) = CHOOSE k \in Limits : Least(k)
      BY <1>1 DEF NextEnabled
  <2>3. NextEnabled(l) \in Limits /\ Least(NextEnabled(l))
      BY <2>1, <2>2
  <2> QED
      BY <2>3
<1>2. CASE ~ \E k \in Limits : k \geq l /\ Quota[k] > 0
  <2>1. NextEnabled(l) = Done
      BY <1>2 DEF NextEnabled
  <2> QED
      BY <1>2, <2>1
<1> QED
    BY <1>1, <1>2

-----------------------------------------------------------------------------
(* The inductive invariant                                                 *)

\* What a request knows of its clock and of the limits.
Progress ==
    \A r \in Requests :
        /\ read[r] \leq now
        /\ Stamp(r) \geq 0
        /\ verdict[r] = "pending" => stage[r] \in Limits /\ Quota[stage[r]] > 0
        /\ verdict[r] = "admitted" => stage[r] = Done
        /\ stage[r] = 0 => verdict[r] = "none"

\* A key that was counted on has an expiry, no earlier than this.
Keys ==
    \A l \in Limits, w \in Starts :
        /\ count[l][w] = 0 => expires[l][w] = 0
        /\ count[l][w] > 0 => expires[l][w] \geq w - Skew + Ttl[l]

\* The most that the keys a window had before its last one may have let through.
Before(l, w) == Quota[l] * late[l][w]

\* An enabled limit counted every request that it let through, with the last key of
\* the window or with one that an EVAL came Late for.
Counted ==
    \A l \in Limits, w \in Starts : Quota[l] > 0 =>
        /\ Cardinality(Passed(l, w)) \leq count[l][w] + Before(l, w)
        /\ Cardinality(Passed(l, w)) \leq Quota[l] + Before(l, w)

Base == TypeOK /\ Progress /\ Keys
Inv == Base /\ Counted

\* The window of a request is one that Redis has counters for.
LEMMA WindowFacts ==
    ASSUME TypeOK, Progress, NEW r \in Requests, NEW l \in Limits
    PROVE  /\ WindowOf(l, r) \in Starts
           /\ WindowOf(l, r) \leq Stamp(r)
           /\ Stamp(r) < WindowOf(l, r) + Window[l]
<1>1. Stamp(r) \in Nat /\ Stamp(r) \leq Horizon + Skew
    BY RateLimiterAssumption DEF TypeOK, Progress, Stamp, Time
<1>2. Window[l] \in Nat \ {0}
    BY RateLimiterAssumption
<1>3. /\ Stamp(r) - (Stamp(r) % Window[l]) \in 0 .. Stamp(r)
      /\ Stamp(r) < (Stamp(r) - (Stamp(r) % Window[l])) + Window[l]
    BY <1>1, <1>2, Truncate
<1> QED
    BY <1>1, <1>2, <1>3, RateLimiterAssumption DEF WindowOf, Starts

\* The wait is a natural number of seconds, and falls short of the end of the
\* window by less than one.
LEMMA Division ==
    ASSUME NEW n \in Nat, NEW d \in Nat \ {0}
    PROVE  /\ n \div d \in Nat
           /\ d * (n \div d) + d > n
           /\ n \geq d => n \div d \geq 1
<1>1. n \div d \in Int /\ n % d \in 0 .. d - 1 /\ n = d * (n \div d) + (n % d)
    OBVIOUS
<1>2. n \div d \geq 0
    BY <1>1
<1>3. CASE n \div d = 0
  <2>1. d * (n \div d) = 0
      BY <1>3
  <2> QED
      BY <1>1, <1>3, <2>1
<1>4. CASE n \div d # 0
  <2>1. n \div d \geq 1
      BY <1>1, <1>2, <1>4
  <2> QED
      BY <1>1, <2>1
<1> QED
    BY <1>3, <1>4

LEMMA RetryAfterType ==
    ASSUME TypeOK, Progress, NEW r \in Requests, NEW l \in Limits
    PROVE  /\ RetryAfter(l, r) \in Nat /\ RetryAfter(l, r) \geq 1
           /\ now + Second * RetryAfter(l, r) + offset[r] + Second
                 > WindowOf(l, r) + Window[l]
<1> DEFINE w == WindowOf(l, r)
           left == w + Window[l] - (now + offset[r])
<1>1. w \in Nat /\ w \leq Stamp(r)
    BY WindowFacts, RateLimiterAssumption DEF Starts
<1>2. /\ now \in Nat /\ read[r] \in Nat /\ offset[r] \in Int /\ read[r] \leq now
      /\ Second \in Nat \ {0} /\ Window[l] \in Nat
    BY RateLimiterAssumption DEF TypeOK, Progress, Time
<1>3. RetryAfter(l, r) = IF l = rps \/ left < Second THEN 1 ELSE left \div Second
    BY DEF RetryAfter
<1>4. left \in Int /\ left = w + Window[l] - (now + offset[r])
    BY <1>1, <1>2
<1> HIDE DEF w, left
<1>5. CASE l = rps
  <2>1. Window[l] = Second /\ RetryAfter(l, r) = 1
      BY <1>3, <1>5, RateLimiterAssumption
  <2>2. now + Second + offset[r] + Second > w + Window[l]
      BY <2>1, <1>1, <1>2 DEF Stamp
  <2> QED
      BY <2>1, <2>2, <1>2 DEF w
<1>6. CASE l # rps /\ left < Second
  <2>1. RetryAfter(l, r) = 1
      BY <1>3, <1>6
  <2>2. now + Second + offset[r] + Second > w + Window[l]
      BY <1>1, <1>2, <1>4, <1>6
  <2> QED
      BY <2>1, <2>2, <1>2 DEF w
<1>7. CASE l # rps /\ ~(left < Second)
  <2>1. RetryAfter(l, r) = left \div Second
      BY <1>3, <1>7
  <2>2. left \in Nat
      BY <1>2, <1>4, <1>7
  <2>3. /\ left \div Second \in Nat /\ left \div Second \geq 1
        /\ Second * (left \div Second) + Second > left
      BY <2>2, <1>2, <1>7, Division
  <2> DEFINE wait == Second * (left \div Second)
  <2>4. wait \in Int /\ wait + Second > left
      BY <2>3, <1>2
  <2> HIDE DEF wait
  <2>5. now + wait + offset[r] + Second > w + Window[l]
      BY <2>4, <1>1, <1>2, <1>4
  <2> QED
      BY <2>1, <2>3, <2>5 DEF w, wait
<1> QED
    BY <1>5, <1>6, <1>7

\* What the script leaves in Redis, whether the key was alive or not.
LEMMA EvalFacts ==
    ASSUME Base, NEW r \in Requests, NEW l \in Limits,
           Eval(l, r), now' = now
    PROVE  /\ count' \in [Limits -> [Starts -> Nat]]
           /\ expires' \in [Limits -> [Starts -> Nat]]
           /\ late' \in [Limits -> [Starts -> Nat]]
           /\ Keys'
           /\ count'[l][WindowOf(l, r)] = Incremented(l, WindowOf(l, r))
           /\ Incremented(l, WindowOf(l, r)) \in Nat
           /\ Incremented(l, WindowOf(l, r)) \leq count[l][WindowOf(l, r)] + 1
           /\ \A k \in Limits, v \in Starts :
                 ~(k = l /\ v = WindowOf(l, r)) =>
                     count'[k][v] = count[k][v] /\ late'[k][v] = late[k][v]
           /\ late'[l][WindowOf(l, r)]
                 = IF Late(l, r) THEN late[l][WindowOf(l, r)] + 1 ELSE late[l][WindowOf(l, r)]
<1> DEFINE w == WindowOf(l, r)
<1> USE DEF Base
<1>1. w \in Starts /\ w \leq Stamp(r)
    BY WindowFacts
<1>2. /\ count[l][w] \in Nat /\ Incremented(l, w) \in Nat /\ Incremented(l, w) > 0
      /\ Incremented(l, w) \leq count[l][w] + 1
    BY <1>1 DEF TypeOK, Incremented
<1>3. count' = [count EXCEPT ![l][w] = Incremented(l, w)]
    BY DEF Eval
<1>4. expires' = [expires EXCEPT ![l][w] = IF Live(l, w) THEN @ ELSE now + Ttl[l]]
    BY DEF Eval
<1>5. now \in Nat /\ Ttl[l] \in Nat /\ Skew \in Nat /\ w \in Nat
    BY <1>1, RateLimiterAssumption DEF TypeOK, Time, Starts
<1>6. now + Ttl[l] \geq w - Skew + Ttl[l]
  <2>1. read[r] \in Nat /\ offset[r] \in Int /\ offset[r] \leq Skew /\ read[r] \leq now
      BY RateLimiterAssumption DEF TypeOK, Time, Progress
  <2> HIDE DEF w
  <2> QED
      BY <2>1, <1>1, <1>5 DEF Stamp
<1> HIDE DEF w
<1>7. count' \in [Limits -> [Starts -> Nat]] /\ expires' \in [Limits -> [Starts -> Nat]]
    BY <1>1, <1>2, <1>3, <1>4, <1>5 DEF TypeOK
<1>8. count'[l][w] = Incremented(l, w)
    BY <1>1, <1>3 DEF TypeOK
<1>9. \A k \in Limits, v \in Starts :
          ~(k = l /\ v = w) => count'[k][v] = count[k][v] /\ expires'[k][v] = expires[k][v]
    BY <1>1, <1>3, <1>4 DEF TypeOK
<1>10. expires'[l][w] \geq w - Skew + Ttl[l]
  <2>1. expires'[l][w] = IF Live(l, w) THEN expires[l][w] ELSE now + Ttl[l]
      BY <1>1, <1>4 DEF TypeOK
  <2>2. CASE Live(l, w)
    <3>1. expires[l][w] > 0
        BY <2>2, <1>1, <1>5 DEF Live, TypeOK
    <3>2. count[l][w] > 0
        BY <3>1, <1>1 DEF Keys, TypeOK
    <3> QED
        BY <3>2, <2>1, <2>2, <1>1 DEF Keys
  <2>3. CASE ~Live(l, w)
      BY <2>1, <2>3, <1>6
  <2> QED
      BY <2>2, <2>3
<1>11. Keys'
  <2> SUFFICES ASSUME NEW k \in Limits, NEW v \in Starts
               PROVE  /\ count'[k][v] = 0 => expires'[k][v] = 0
                      /\ count'[k][v] > 0 => expires'[k][v] \geq v - Skew + Ttl[k]
      BY DEF Keys
  <2>1. CASE k = l /\ v = w
      BY <2>1, <1>2, <1>8, <1>10
  <2>2. CASE ~(k = l /\ v = w)
      BY <2>2, <1>9 DEF Keys
  <2> QED
      BY <2>1, <2>2
<1>12. late' = [late EXCEPT ![l][w] = IF Late(l, r) THEN @ + 1 ELSE @]
    BY DEF Eval, RecordLate, w
<1>13. /\ late' \in [Limits -> [Starts -> Nat]]
       /\ late'[l][w] = IF Late(l, r) THEN late[l][w] + 1 ELSE late[l][w]
       /\ \A k \in Limits, v \in Starts :
             ~(k = l /\ v = w) => late'[k][v] = late[k][v]
    BY <1>1, <1>12 DEF TypeOK
<1> QED
    BY <1>2, <1>7, <1>8, <1>9, <1>11, <1>13 DEF w

\* The script adds one to the counter of the window, unless its EVAL came Late: no
\* key expires before.
LEMMA CountsUp ==
    ASSUME Base, NEW r \in Requests, NEW l \in Limits, ~Late(l, r)
    PROVE  Incremented(l, WindowOf(l, r)) = count[l][WindowOf(l, r)] + 1
<1> DEFINE w == WindowOf(l, r)
<1> USE DEF Base
<1>1. w \in Starts /\ w \leq Stamp(r) /\ Stamp(r) < w + Window[l]
    BY WindowFacts
<1>2. /\ now \in Nat /\ count[l][w] \in Nat /\ expires[l][w] \in Nat
      /\ read[r] \in Nat /\ offset[r] \in Int /\ -Skew \leq offset[r]
    BY <1>1, RateLimiterAssumption DEF TypeOK, Time
<1>3. Window[l] \in Nat /\ Ttl[l] \in Nat /\ Skew \in Nat /\ w \in Nat
    BY <1>1, RateLimiterAssumption DEF Starts
<1> HIDE DEF w
<1>4. now < w - Skew + Ttl[l]
  <2>1. now \leq read[r] + (Ttl[l] - Window[l] - 2 * Skew)
      BY <1>2, <1>3 DEF Late, Slack
  <2> QED
      BY <2>1, <1>1, <1>2, <1>3 DEF Stamp
<1>5. CASE count[l][w] > 0
  <2>1. expires[l][w] \geq w - Skew + Ttl[l]
      BY <1>1, <1>5 DEF Keys
  <2>2. now < expires[l][w]
      BY <2>1, <1>2, <1>3, <1>4
  <2> QED
      BY <2>2 DEF w, Incremented, Live
<1>6. CASE count[l][w] = 0
  <2>1. expires[l][w] = 0
      BY <1>1, <1>6 DEF Keys
  <2> QED
      BY <2>1, <1>2, <1>6 DEF w, Incremented, Live
<1> QED
    BY <1>2, <1>5, <1>6

\* What an EVAL does to the bounds of its window: one more request fits below the
\* first if it was the last one to count, or below both if the window is full and
\* was counted anew.
LEMMA EvalBounds ==
    ASSUME Base, NEW r \in Requests, NEW l \in Limits, Eval(l, r), now' = now,
           NEW w \in Starts, w = WindowOf(l, r), NEW n \in Nat, Quota[l] > 0,
           n \leq count[l][w] + Before(l, w), n \leq Quota[l] + Before(l, w)
    PROVE  /\ n + 1 \leq count'[l][w] + Before(l, w)'
           /\ n \leq Quota[l] + Before(l, w)'
           /\ count'[l][w] \leq Quota[l] => n + 1 \leq Quota[l] + Before(l, w)'
<1> DEFINE b == Quota[l] * late[l][w]
           c == Quota[l] * late'[l][w]
<1>1. /\ Incremented(l, w) = count[l][w] + 1 \/ (Incremented(l, w) = 1 /\ Late(l, r))
      /\ count'[l][w] = Incremented(l, w)
      /\ late'[l][w] = IF Late(l, r) THEN late[l][w] + 1 ELSE late[l][w]
    BY EvalFacts, CountsUp DEF Incremented
<1>2. count[l][w] \in Nat /\ late[l][w] \in Nat /\ Quota[l] \in Nat
    BY RateLimiterAssumption DEF Base, TypeOK
<1>3. b \in Nat /\ (~Late(l, r) => c = b) /\ (Late(l, r) => c = b + Quota[l])
    BY <1>1, <1>2
<1>4. n \leq count[l][w] + b /\ n \leq Quota[l] + b
    BY DEF Before
<1> HIDE DEF b, c
<1>5. CASE Late(l, r)
  <2>1. c = b + Quota[l] /\ count'[l][w] \geq 1 /\ count'[l][w] \in Int
      BY <1>1, <1>2, <1>3, <1>5
  <2> QED
      BY <2>1, <1>2, <1>3, <1>4 DEF Before, c
<1>6. CASE ~Late(l, r)
  <2>1. c = b /\ count'[l][w] = count[l][w] + 1
      BY <1>1, <1>3, <1>6
  <2> QED
      BY <2>1, <1>2, <1>3, <1>4 DEF Before, c
<1> QED
    BY <1>5, <1>6

-----------------------------------------------------------------------------
(* Every step preserves it                                                 *)

LEMMA PassedIsFinite ==
    ASSUME NEW l, NEW w
    PROVE  IsFiniteSet(Passed(l, w))
BY FS_Subset, RateLimiterAssumption DEF Passed

\* Steps that move no request on leave what was counted.
LEMMA SamePassed ==
    ASSUME UNCHANGED << stage, read, offset >>, NEW l, NEW w
    PROVE  Passed(l, w)' = Passed(l, w)
BY DEF Passed, WindowOf, Stamp

LEMMA InitInv ==
    ASSUME Init
    PROVE  Inv
<1> USE RateLimiterAssumption DEF Init
<1>1. TypeOK
    BY DEF TypeOK, Time, Done
<1>2. Progress
    BY DEF Progress, Stamp
<1>3. Keys
    BY DEF Keys
<1>4. Counted
  <2> SUFFICES ASSUME NEW l \in Limits, NEW w \in Starts, Quota[l] > 0
               PROVE  /\ Cardinality(Passed(l, w)) \leq count[l][w] + Before(l, w)
                      /\ Cardinality(Passed(l, w)) \leq Quota[l] + Before(l, w)
      BY DEF Counted
  <2>1. Passed(l, w) = {}
      BY DEF Passed, Limits, rps, rpm, daily
  <2>2. Cardinality(Passed(l, w)) = 0
      BY <2>1, FS_EmptySet
  <2>3. Before(l, w) = 0
      BY DEF Before
  <2> QED
      BY <2>2, <2>3
<1> QED
    BY <1>1, <1>2, <1>3, <1>4 DEF Inv, Base

\* Where a request goes that limit l let through.
LEMMA Advance ==
    ASSUME NEW l \in Limits
    PROVE  /\ l \in 1 .. 3
           /\ NextEnabled(l + 1) \in l + 1 .. 4
           /\ NextEnabled(l + 1) # Done =>
                 NextEnabled(l + 1) \in Limits /\ Quota[NextEnabled(l + 1)] > 0
           /\ \A k \in Limits : l < k /\ k < NextEnabled(l + 1) => Quota[k] = 0
<1>1. l \in 1 .. 3 /\ l + 1 \in 1 .. Done /\ Done = 4 /\ \A k \in Limits : k \in Int
    BY DEF Done, Limits, rps, rpm, daily
<1>2. /\ NextEnabled(l + 1) \in l + 1 .. Done
      /\ NextEnabled(l + 1) # Done =>
            NextEnabled(l + 1) \in Limits /\ Quota[NextEnabled(l + 1)] > 0
      /\ \A k \in Limits : l + 1 \leq k /\ k < NextEnabled(l + 1) => Quota[k] = 0
    BY <1>1, NextEnabledFacts
<1> QED
    BY <1>1, <1>2

\* A new request passes only limits that are disabled.
LEMMA Enter ==
    /\ NextEnabled(rps) \in 1 .. 4
    /\ NextEnabled(rps) # Done =>
          NextEnabled(rps) \in Limits /\ Quota[NextEnabled(rps)] > 0
    /\ \A k \in Limits : k < NextEnabled(rps) => Quota[k] = 0
<1>1. 1 \in 1 .. Done /\ rps = 1 /\ Done = 4 /\ \A k \in Limits : 1 \leq k
    BY DEF Done, Limits, rps, rpm, daily
<1> QED
    BY <1>1, NextEnabledFacts

LEMMA TickBase ==
    ASSUME Base, Tick
    PROVE  Base'
<1>1. TypeOK'
    BY RateLimiterAssumption DEF Base, TypeOK, Tick, Time, requestVars, redisVars
<1>2. Progress'
  <2>1. /\ now' = now + 1 /\ UNCHANGED << stage, verdict, read, offset >>
        /\ now \in Nat /\ read \in [Requests -> Time]
      BY RateLimiterAssumption DEF Base, TypeOK, Tick, Time, requestVars, redisVars
  <2> QED
      BY <2>1 DEF Base, Progress, Stamp, Time
<1>3. Keys'
    BY DEF Base, Tick, Keys, redisVars
<1> QED
    BY <1>1, <1>2, <1>3 DEF Base

LEMMA FailBase ==
    ASSUME Base, NEW r \in Requests, Fail(r)
    PROVE  Base'
<1>1. /\ verdict[r] = "pending" /\ verdict' = [verdict EXCEPT ![r] = "error"]
      /\ UNCHANGED << now, stage, read, offset, retryAt, count, expires, late, lost >>
    BY DEF Fail, redisVars
<1>2. TypeOK'
    BY <1>1 DEF Base, TypeOK
<1>3. Progress'
    BY <1>1 DEF Base, TypeOK, Progress, Stamp, Limits, rps, rpm, daily
<1>4. Keys'
    BY <1>1 DEF Base, Keys
<1> QED
    BY <1>2, <1>3, <1>4 DEF Base

LEMMA ReplyLostBase ==
    ASSUME Base, NEW r \in Requests, NEW l \in Limits, ReplyLost(r, l)
    PROVE  Base'
<1>1. /\ Eval(l, r) /\ lost < MaxLost /\ lost' = lost + 1
      /\ UNCHANGED << now, stage, verdict, read, offset, retryAt >>
    BY DEF ReplyLost, requestVars
<1>2. /\ count' \in [Limits -> [Starts -> Nat]]
      /\ expires' \in [Limits -> [Starts -> Nat]]
      /\ late' \in [Limits -> [Starts -> Nat]]
      /\ Keys'
    BY <1>1, EvalFacts
<1>3. TypeOK'
    BY <1>1, <1>2, RateLimiterAssumption DEF Base, TypeOK
<1>4. Progress'
    BY <1>1 DEF Base, Progress, Stamp
<1> QED
    BY <1>2, <1>3, <1>4 DEF Base

LEMMA ArriveBase ==
    ASSUME Base, NEW r \in Requests, Arrive(r)
    PROVE  Base'
<1> DEFINE n == NextEnabled(rps)
<1>1. /\ stage[r] = 0 /\ stage' = [stage EXCEPT ![r] = n]
      /\ verdict' = [verdict EXCEPT ![r] = IF n = Done THEN "admitted" ELSE "pending"]
      /\ read' = [read EXCEPT ![r] = now]
      /\ UNCHANGED << now, retryAt, count, expires, late, lost >>
    BY DEF Arrive, Goto, redisVars
<1>2. PICK d \in -Skew .. Skew : now + d \geq 0 /\ offset' = [offset EXCEPT ![r] = d]
    BY DEF Arrive
<1>3. n \in 1 .. 4 /\ (n # Done => n \in Limits /\ Quota[n] > 0)
    BY Enter
<1> HIDE DEF n
<1>4. TypeOK'
    BY <1>1, <1>2, <1>3 DEF Base, TypeOK, Time, Done
<1>5. Progress'
  <2> SUFFICES ASSUME NEW q \in Requests
               PROVE  /\ read'[q] \leq now'
                      /\ read'[q] + offset'[q] \geq 0
                      /\ verdict'[q] = "pending" => stage'[q] \in Limits /\ Quota[stage'[q]] > 0
                      /\ verdict'[q] = "admitted" => stage'[q] = Done
                      /\ stage'[q] = 0 => verdict'[q] = "none"
      BY DEF Progress, Stamp
  <2>1. CASE q = r
      BY <2>1, <1>1, <1>2, <1>3, RateLimiterAssumption DEF Base, TypeOK, Time, Done
  <2>2. CASE q # r
      BY <2>2, <1>1, <1>2 DEF Base, TypeOK, Progress, Stamp
  <2> QED
      BY <2>1, <2>2
<1>6. Keys'
    BY <1>1 DEF Base, Keys
<1> QED
    BY <1>4, <1>5, <1>6 DEF Base

LEMMA CheckBase ==
    ASSUME Base, NEW r \in Requests, NEW l \in Limits, Check(r, l)
    PROVE  Base'
<1> DEFINE n == NextEnabled(l + 1)
<1>1. /\ stage[r] = l /\ Eval(l, r) /\ UNCHANGED << now, read, offset, lost >>
    BY DEF Check
<1>2. /\ count' \in [Limits -> [Starts -> Nat]]
      /\ expires' \in [Limits -> [Starts -> Nat]]
      /\ late' \in [Limits -> [Starts -> Nat]]
      /\ Keys'
    BY <1>1, EvalFacts
<1>3. n \in 1 .. 4 /\ (n # Done => n \in Limits /\ Quota[n] > 0)
    BY Advance
<1>4. /\ now + Second * RetryAfter(l, r) \in Nat
      /\ now + Second * RetryAfter(l, r) \geq read[r] + Second
  <2>1. RetryAfter(l, r) \in Nat \ {0}
      BY RetryAfterType DEF Base
  <2>2. now \in Nat /\ Second \in Nat /\ read[r] \in Nat /\ read[r] \leq now
      BY RateLimiterAssumption DEF Base, TypeOK, Time, Progress
  <2>3. \A m \in Nat, i \in Nat \ {0} : m * i \in Nat /\ m * i \geq m
    <3> TAKE m \in Nat, i \in Nat \ {0}
    <3>1. m * i = m + m * (i - 1) /\ m * (i - 1) \in Nat
        OBVIOUS
    <3> QED
        BY <3>1
  <2>4. Second * RetryAfter(l, r) \in Nat /\ Second * RetryAfter(l, r) \geq Second
      BY <2>1, <2>2, <2>3
  <2> QED
      BY <2>2, <2>4
<1>5. CASE Goto(r, n) /\ UNCHANGED retryAt
  <2> HIDE DEF n
  <2>1. /\ stage' = [stage EXCEPT ![r] = n]
        /\ verdict' = [verdict EXCEPT ![r] = IF n = Done THEN "admitted" ELSE "pending"]
      BY <1>5 DEF Goto
  <2>2. TypeOK'
      BY <1>1, <1>2, <1>3, <1>5, <2>1 DEF Base, TypeOK, Done
  <2>3. Progress'
    <3> SUFFICES ASSUME NEW q \in Requests
                 PROVE  /\ read'[q] \leq now'
                        /\ read'[q] + offset'[q] \geq 0
                        /\ verdict'[q] = "pending" => stage'[q] \in Limits /\ Quota[stage'[q]] > 0
                        /\ verdict'[q] = "admitted" => stage'[q] = Done
                        /\ stage'[q] = 0 => verdict'[q] = "none"
        BY DEF Progress, Stamp
    <3>1. CASE q = r
        BY <3>1, <1>1, <1>3, <2>1 DEF Base, TypeOK, Progress, Stamp, Done
    <3>2. CASE q # r
        BY <3>2, <1>1, <2>1 DEF Base, TypeOK, Progress, Stamp
    <3> QED
        BY <3>1, <3>2
  <2> QED
      BY <1>2, <2>2, <2>3 DEF Base
<1>6. CASE /\ verdict' = [verdict EXCEPT ![r] = "rejected"]
           /\ retryAt' = [retryAt EXCEPT ![r] = now + Second * RetryAfter(l, r)]
           /\ UNCHANGED stage
  <2>1. TypeOK'
      BY <1>1, <1>2, <1>4, <1>6 DEF Base, TypeOK
  <2>2. Progress'
    <3> SUFFICES ASSUME NEW q \in Requests
                 PROVE  /\ read'[q] \leq now'
                        /\ read'[q] + offset'[q] \geq 0
                        /\ verdict'[q] = "pending" => stage'[q] \in Limits /\ Quota[stage'[q]] > 0
                        /\ verdict'[q] = "admitted" => stage'[q] = Done
                        /\ stage'[q] = 0 => verdict'[q] = "none"
        BY DEF Progress, Stamp
    <3>1. CASE q = r
        BY <3>1, <1>1, <1>6 DEF Base, TypeOK, Progress, Stamp, Limits, rps, rpm, daily
    <3>2. CASE q # r
        BY <3>2, <1>1, <1>6 DEF Base, TypeOK, Progress, Stamp
    <3> QED
        BY <3>1, <3>2
  <2> QED
      BY <1>2, <2>1, <2>2 DEF Base
<1> QED
    BY <1>5, <1>6 DEF Check

LEMMA StepBase ==
    ASSUME Base, [Next]_vars
    PROVE  Base'
<1>1. CASE UNCHANGED vars
    BY <1>1 DEF vars, requestVars, redisVars, Base, Progress, Stamp, Keys, TypeOK
<1> QED
    BY <1>1, TickBase, ArriveBase, FailBase, CheckBase, ReplyLostBase DEF Next

LEMMA CountedTypes ==
    ASSUME Base, NEW l \in Limits, NEW w \in Starts
    PROVE  /\ Cardinality(Passed(l, w)) \in Nat /\ count[l][w] \in Nat
           /\ Quota[l] \in Nat /\ Before(l, w) \in Nat
BY PassedIsFinite, FS_CardinalityType, RateLimiterAssumption DEF Base, TypeOK, Before

\* An EVAL of another window changes nothing for this one.
LEMMA OtherWindows ==
    ASSUME Base, NEW r \in Requests, NEW l \in Limits, Eval(l, r), now' = now,
           NEW k \in Limits, NEW v \in Starts, ~(k = l /\ v = WindowOf(l, r))
    PROVE  count'[k][v] = count[k][v] /\ Before(k, v)' = Before(k, v)
BY EvalFacts DEF Before

\* An EVAL that lets no request through leaves every limit with its count.
LEMMA EvalCounted ==
    ASSUME Inv, NEW r \in Requests, NEW l \in Limits,
           Eval(l, r), UNCHANGED << now, stage, read, offset >>
    PROVE  Counted'
<1> SUFFICES ASSUME NEW k \in Limits, NEW v \in Starts, Quota[k] > 0
             PROVE  /\ Cardinality(Passed(k, v)') \leq count'[k][v] + Before(k, v)'
                    /\ Cardinality(Passed(k, v)') \leq Quota[k] + Before(k, v)'
    BY DEF Counted
<1>1. Passed(k, v)' = Passed(k, v)
    BY SamePassed
<1>2. /\ Cardinality(Passed(k, v)) \leq count[k][v] + Before(k, v)
      /\ Cardinality(Passed(k, v)) \leq Quota[k] + Before(k, v)
      /\ Cardinality(Passed(k, v)) \in Nat /\ Base
    BY CountedTypes DEF Inv, Counted
<1>3. CASE k = l /\ v = WindowOf(l, r)
  <2> DEFINE n == Cardinality(Passed(k, v))
  <2>1. /\ n + 1 \leq count'[k][v] + Before(k, v)'
        /\ n \leq Quota[k] + Before(k, v)'
      BY <1>2, <1>3, EvalBounds
  <2>2. count'[k][v] + Before(k, v)' \in Int
    <3>1. late' \in [Limits -> [Starts -> Nat]] /\ count' \in [Limits -> [Starts -> Nat]]
        BY <1>2, EvalFacts
    <3>2. Before(k, v)' \in Nat
        BY <3>1, RateLimiterAssumption DEF Before
    <3> QED
        BY <3>1, <3>2
  <2> QED
      BY <1>1, <1>2, <2>1, <2>2
<1>4. CASE ~(k = l /\ v = WindowOf(l, r))
    BY <1>1, <1>2, <1>4, OtherWindows
<1> QED
    BY <1>3, <1>4

LEMMA ArriveCounted ==
    ASSUME Inv, NEW r \in Requests, Arrive(r)
    PROVE  Counted'
<1> DEFINE n == NextEnabled(rps)
<1>1. /\ stage[r] = 0 /\ stage' = [stage EXCEPT ![r] = n] /\ UNCHANGED << count, late >>
      /\ read' = [read EXCEPT ![r] = now]
      /\ \E d \in -Skew .. Skew : offset' = [offset EXCEPT ![r] = d]
    BY DEF Arrive, Goto, redisVars
<1>2. n \in 1 .. 4 /\ \A k \in Limits : k < n => Quota[k] = 0
    BY Enter
<1> HIDE DEF n
<1> SUFFICES ASSUME NEW k \in Limits, NEW v \in Starts, Quota[k] > 0
             PROVE  /\ Cardinality(Passed(k, v)') \leq count'[k][v] + Before(k, v)'
                    /\ Cardinality(Passed(k, v)') \leq Quota[k] + Before(k, v)'
    BY DEF Counted
<1>3. k \in Nat /\ k > 0 /\ n \in Nat /\ ~(k < n)
    BY <1>2, RateLimiterAssumption DEF Limits, rps, rpm, daily
<1>4. ASSUME NEW q \in Requests
      PROVE  q \in Passed(k, v)' <=> q \in Passed(k, v)
  <2>1. CASE q = r
      BY <2>1, <1>1, <1>3 DEF Inv, Base, TypeOK, Passed
  <2>2. CASE q # r
      BY <2>2, <1>1 DEF Inv, Base, TypeOK, Passed, WindowOf, Stamp
  <2> QED
      BY <2>1, <2>2
<1>5. Passed(k, v)' = Passed(k, v)
    BY <1>4 DEF Passed
<1> QED
    BY <1>1, <1>5 DEF Inv, Counted, Before

\* The script of limit l let request r through.
LEMMA AdmitCounted ==
    ASSUME Inv, NEW r \in Requests, NEW l \in Limits, Check(r, l),
           Incremented(l, WindowOf(l, r)) \leq Quota[l]
    PROVE  Counted'
<1> DEFINE n == NextEnabled(l + 1)
           w == WindowOf(l, r)
<1>1. /\ stage[r] = l /\ verdict[r] = "pending" /\ Eval(l, r)
      /\ UNCHANGED << now, read, offset, lost >>
    BY DEF Check
<1>2. w \in Starts /\ Incremented(l, w) \in Nat /\ Quota[l] \in Nat
    BY <1>1, WindowFacts, EvalFacts, RateLimiterAssumption DEF Inv, Base
<1>3. stage' = [stage EXCEPT ![r] = n]
    BY <1>2 DEF Check, Goto
<1>4. count'[l][w] \leq Quota[l] /\ count'[l][w] = Incremented(l, w)
    BY <1>1, EvalFacts DEF Inv
<1>5. n > l /\ n \in Nat /\ \A k \in Limits : l < k /\ k < n => Quota[k] = 0
    BY Advance
<1> HIDE DEF n
<1> SUFFICES ASSUME NEW k \in Limits, NEW v \in Starts, Quota[k] > 0
             PROVE  /\ Cardinality(Passed(k, v)') \leq count'[k][v] + Before(k, v)'
                    /\ Cardinality(Passed(k, v)') \leq Quota[k] + Before(k, v)'
    BY DEF Counted
<1>6. k \in Nat /\ l \in Nat /\ ~(l < k /\ k < n) /\ Quota[k] \in Nat
    BY <1>5, RateLimiterAssumption DEF Limits, rps, rpm, daily
<1>7. /\ Cardinality(Passed(k, v)) \leq count[k][v] + Before(k, v)
      /\ Cardinality(Passed(k, v)) \leq Quota[k] + Before(k, v)
      /\ Cardinality(Passed(k, v)) \in Nat /\ Base
    BY CountedTypes DEF Inv, Counted
<1>8. ASSUME NEW q \in Requests, q # r
      PROVE  q \in Passed(k, v)' <=> q \in Passed(k, v)
    BY <1>8, <1>1, <1>3 DEF Inv, Base, TypeOK, Passed, WindowOf, Stamp
<1>9. r \in Passed(k, v)' <=> n > k /\ WindowOf(k, r) = v
    BY <1>1, <1>3 DEF Inv, Base, TypeOK, Passed, WindowOf, Stamp
<1>10. r \in Passed(k, v) <=> l > k /\ WindowOf(k, r) = v
    BY <1>1 DEF Passed
<1>11. CASE k = l /\ v = w
  <2>1. r \notin Passed(k, v)
      BY <1>6, <1>10, <1>11
  <2>2. Passed(k, v)' = Passed(k, v) \cup {r}
      BY <1>8, <1>9, <1>11, <1>5 DEF Passed
  <2>3. Cardinality(Passed(k, v)') = Cardinality(Passed(k, v)) + 1
      BY <2>1, <2>2, PassedIsFinite, FS_AddElement
  <2> DEFINE m == Cardinality(Passed(k, v))
  <2>4. /\ m + 1 \leq count'[k][v] + Before(k, v)'
        /\ count'[k][v] \leq Quota[k] => m + 1 \leq Quota[k] + Before(k, v)'
      BY <1>1, <1>7, <1>11, EvalBounds
  <2> QED
      BY <2>3, <2>4, <1>4, <1>11
<1>12. CASE ~(k = l /\ v = w)
  <2>1. r \in Passed(k, v)' <=> r \in Passed(k, v)
      BY <1>6, <1>9, <1>10, <1>12, <1>5
  <2>2. Passed(k, v)' = Passed(k, v)
      BY <2>1, <1>8 DEF Passed
  <2>3. count'[k][v] = count[k][v] /\ Before(k, v)' = Before(k, v)
      BY <1>1, <1>7, <1>12, OtherWindows
  <2> QED
      BY <2>2, <2>3, <1>7
<1> QED
    BY <1>11, <1>12

LEMMA StepInv ==
    ASSUME Inv, [Next]_vars
    PROVE  Inv'
<1>1. ASSUME UNCHANGED << stage, read, offset, count, late >>
      PROVE  Counted'
    BY <1>1, SamePassed DEF Inv, Counted, Before
<1>2. ASSUME Tick \/ UNCHANGED vars
      PROVE  Counted'
    BY <1>1, <1>2 DEF Tick, vars, requestVars, redisVars
<1>3. ASSUME NEW r \in Requests, Arrive(r) \/ Fail(r)
      PROVE  Counted'
    BY <1>1, <1>3, ArriveCounted DEF Fail, redisVars
<1>4. ASSUME NEW r \in Requests, NEW l \in Limits, Check(r, l)
      PROVE  Counted'
  <2>1. CASE Incremented(l, WindowOf(l, r)) \leq Quota[l]
      BY <1>4, <2>1, AdmitCounted
  <2>2. CASE ~(Incremented(l, WindowOf(l, r)) \leq Quota[l])
      BY <1>4, <2>2, EvalCounted DEF Check
  <2> QED
      BY <2>1, <2>2
<1>5. ASSUME NEW r \in Requests, NEW l \in Limits, ReplyLost(r, l)
      PROVE  Counted'
    BY <1>5, EvalCounted DEF ReplyLost, requestVars
<1>6. Counted'
    BY <1>2, <1>3, <1>4, <1>5 DEF Next
<1> QED
    BY <1>6, StepBase DEF Inv

-----------------------------------------------------------------------------
(* Theorems                                                                *)

\* The inductive invariant, whatever the times to live, the skew of the clocks and the
\* delays of the requests: what the counters and expiries of atomicIncrExpireScript say
\* of the requests that CheckRateLimits has let through.
THEOREM Invariance == Spec => []Inv
<1>1. Init => Inv
    BY InitInv
<1>2. Inv /\ [Next]_vars => Inv'
    BY StepInv
<1> QED
    BY <1>1, <1>2, PTL DEF Spec

\* The inductive part of it that does not count requests.
LEMMA BaseInvariance == Spec => []Base
<1>1. Inv => Base
    BY DEF Inv
<1> QED
    BY <1>1, Invariance, PTL

\* The state of CheckRateLimits and of Redis stays within its type.
THEOREM TypeCorrect == Spec => []TypeOK
<1>1. Base => TypeOK
    BY DEF Base
<1> QED
    BY <1>1, BaseInvariance, PTL

\* CheckRateLimits admits no more requests of one second, minute or day than the
\* tenant's quota, for every number of requests and every interleaving; and where
\* EVALs came Late, as many again at most for each of them.
THEOREM WithinQuota == Spec => []AdmittedWithinQuota
<1>1. Inv => AdmittedWithinQuota
  <2> SUFFICES ASSUME Inv, NEW l \in Limits, NEW w \in Starts, Quota[l] > 0
               PROVE  Cardinality(Admitted(l, w)) \leq Quota[l] + Quota[l] * late[l][w]
      BY DEF AdmittedWithinQuota
  <2>1. Admitted(l, w) \subseteq Passed(l, w)
      BY DEF Inv, Base, Progress, Admitted, Passed, Limits, rps, rpm, daily, Done
  <2>2. /\ IsFiniteSet(Passed(l, w))
        /\ Cardinality(Passed(l, w)) \leq Quota[l] + Before(l, w)
      BY PassedIsFinite DEF Inv, Counted
  <2>3. /\ IsFiniteSet(Admitted(l, w))
        /\ Cardinality(Admitted(l, w)) \leq Cardinality(Passed(l, w))
      BY <2>1, <2>2, FS_Subset
  <2>4. /\ Cardinality(Admitted(l, w)) \in Nat /\ Cardinality(Passed(l, w)) \in Nat
        /\ Quota[l] \in Nat /\ Before(l, w) \in Nat
      BY <2>3, FS_CardinalityType, CountedTypes DEF Inv
  <2>5. Cardinality(Admitted(l, w)) \leq Quota[l] + Before(l, w)
      BY <2>2, <2>3, <2>4
  <2> QED
      BY <2>5 DEF Before
<1> QED
    BY <1>1, Invariance, PTL

\* atomicIncrExpireScript never leaves a counter that does not expire: EXPIRE
\* follows the first INCR, and no later INCR moves the expiry.
THEOREM KeysExpire == Spec => []EveryKeyExpires
<1> USE RateLimiterAssumption
<1>1. Init => EveryKeyExpires
    BY DEF Init, EveryKeyExpires
<1>2. Base /\ EveryKeyExpires /\ [Next]_vars => EveryKeyExpires'
  <2> SUFFICES ASSUME Base, EveryKeyExpires, [Next]_vars
               PROVE  EveryKeyExpires'
      OBVIOUS
  <2>1. /\ now \in Nat /\ expires \in [Limits -> [Starts -> Nat]] /\ Ttl \in [Limits -> Nat]
      BY DEF Base, TypeOK, Time
  <2>2. CASE Tick
      BY <2>1, <2>2 DEF Tick, EveryKeyExpires, redisVars
  <2>3. ASSUME NEW r \in Requests, NEW l \in Limits,
               Eval(l, r), now' = now
        PROVE  EveryKeyExpires'
    <3> DEFINE w == WindowOf(l, r)
    <3>1. w \in Starts
        BY WindowFacts DEF Base
    <3>2. expires' = [expires EXCEPT ![l][w] = IF Live(l, w) THEN @ ELSE now + Ttl[l]]
        BY <2>3 DEF Eval
    <3> HIDE DEF w
    <3> QED
        BY <2>1, <2>3, <3>1, <3>2 DEF EveryKeyExpires
  <2>4. CASE UNCHANGED << now, expires >>
      BY <2>4 DEF EveryKeyExpires
  <2>5. ASSUME NEW r \in Requests, Arrive(r) \/ Fail(r)
        PROVE  EveryKeyExpires'
      BY <2>4, <2>5 DEF Arrive, Fail, redisVars
  <2>6. ASSUME NEW r \in Requests, NEW l \in Limits, Check(r, l) \/ ReplyLost(r, l)
        PROVE  EveryKeyExpires'
      BY <2>3, <2>6 DEF Check, ReplyLost
  <2> QED
      BY <2>2, <2>4, <2>5, <2>6 DEF Next, vars, redisVars
<1> QED
    BY <1>1, <1>2, BaseInvariance, PTL DEF Spec

\* CheckRateLimits: the Retry-After of a rejected request is short of the end
\* of its window by less than the second that the conversion to int cuts off.
THEOREM RetryAfterIsClose == Spec => []RetryAfterWithinASecond
<1> DEFINE Close(r, l) == retryAt[r] + offset[r] + Second > WindowOf(l, r) + Window[l]
           RInv == \A r \in Requests : verdict[r] = "rejected" =>
                       stage[r] \in Limits /\ Close(r, stage[r])
<1>1. Init => RInv
    BY DEF Init
<1>2. Base /\ RInv /\ [Next]_vars => RInv'
  <2> SUFFICES ASSUME Base, RInv, [Next]_vars, NEW q \in Requests, verdict'[q] = "rejected"
               PROVE  /\ stage'[q] \in Limits
                      /\ retryAt'[q] + offset'[q] + Second
                           > WindowOf(stage[q], q)' + Window[stage'[q]]
                      /\ stage'[q] = stage[q]
      BY DEF WindowOf, Stamp
  <2>0. /\ stage \in [Requests -> 0 .. Done] /\ read \in [Requests -> Time]
        /\ offset \in [Requests -> -Skew .. Skew] /\ retryAt \in [Requests -> Nat]
        /\ verdict \in [Requests -> {"none", "pending", "admitted", "rejected", "error"}]
      BY DEF Base, TypeOK
  <2>1. CASE /\ verdict[q] = "rejected"
             /\ stage'[q] = stage[q] /\ read'[q] = read[q]
             /\ offset'[q] = offset[q] /\ retryAt'[q] = retryAt[q]
      BY <2>1 DEF WindowOf, Stamp
  <2>2. ASSUME NEW l \in Limits, Check(q, l)
        PROVE  /\ stage'[q] \in Limits
               /\ retryAt'[q] + offset'[q] + Second
                    > WindowOf(stage[q], q)' + Window[stage'[q]]
               /\ stage'[q] = stage[q]
    <3>1. ~Goto(q, NextEnabled(l + 1))
        BY <2>0 DEF Goto
    <3>2. /\ stage[q] = l /\ UNCHANGED << stage, read, offset >>
          /\ retryAt' = [retryAt EXCEPT ![q] = now + Second * RetryAfter(l, q)]
        BY <2>2, <3>1 DEF Check
    <3>3. now + Second * RetryAfter(l, q) + offset[q] + Second > WindowOf(l, q) + Window[l]
        BY RetryAfterType DEF Base
    <3>4. retryAt'[q] = now + Second * RetryAfter(l, q)
        BY <2>0, <3>2
    <3>5. WindowOf(stage[q], q)' = WindowOf(l, q)
        BY <3>2 DEF WindowOf, Stamp
    <3> QED
        BY <3>2, <3>3, <3>4, <3>5
  <2>3. ASSUME NEW r \in Requests, NEW l \in Limits, Check(r, l), r # q
        PROVE  /\ verdict[q] = "rejected"
               /\ stage'[q] = stage[q] /\ read'[q] = read[q]
               /\ offset'[q] = offset[q] /\ retryAt'[q] = retryAt[q]
      BY <2>0, <2>3 DEF Check, Goto
  <2>4. ASSUME NEW r \in Requests, Arrive(r)
        PROVE  /\ verdict[q] = "rejected"
               /\ stage'[q] = stage[q] /\ read'[q] = read[q]
               /\ offset'[q] = offset[q] /\ retryAt'[q] = retryAt[q]
    <3>1. r # q
        BY <2>0, <2>4 DEF Arrive, Goto
    <3> QED
        BY <2>0, <2>4, <3>1 DEF Arrive, Goto
  <2>5. ASSUME NEW r \in Requests, Fail(r)
        PROVE  /\ verdict[q] = "rejected"
               /\ stage'[q] = stage[q] /\ read'[q] = read[q]
               /\ offset'[q] = offset[q] /\ retryAt'[q] = retryAt[q]
      BY <2>0, <2>5 DEF Fail
  <2>6. ASSUME NEW r \in Requests, NEW l \in Limits, ReplyLost(r, l)
        PROVE  UNCHANGED requestVars
      BY <2>6 DEF ReplyLost
  <2>7. CASE Tick \/ UNCHANGED vars
      BY <2>1, <2>7 DEF Tick, vars, requestVars
  <2> QED
      BY <2>1, <2>2, <2>3, <2>4, <2>5, <2>6, <2>7 DEF Next, requestVars
<1>3. RInv => RetryAfterWithinASecond
    BY DEF RetryAfterWithinASecond
<1> QED
    BY <1>1, <1>2, <1>3, BaseInvariance, PTL DEF Spec

-----------------------------------------------------------------------------
(* Rejections                                                              *)

\* The EVALs that the counter of a window may have counted.
Heard(l, w) == Cardinality(Passed(l, w)) + Cardinality(Stopped(l, w)) + lost

CountExplained ==
    \A l \in Limits, w \in Starts : Quota[l] > 0 => count[l][w] \leq Heard(l, w)

RejectedFull ==
    \A r \in Requests : verdict[r] = "rejected" =>
        /\ stage[r] \in Limits
        /\ Heard(stage[r], WindowOf(stage[r], r)) > Quota[stage[r]]

LEMMA HeardType ==
    ASSUME TypeOK, NEW l, NEW w
    PROVE  /\ IsFiniteSet(Passed(l, w)) /\ Cardinality(Passed(l, w)) \in Nat
           /\ IsFiniteSet(Stopped(l, w)) /\ Cardinality(Stopped(l, w)) \in Nat
           /\ lost \in Nat /\ Heard(l, w) \in Nat
<1>1. IsFiniteSet(Passed(l, w)) /\ IsFiniteSet(Stopped(l, w))
    BY FS_Subset, RateLimiterAssumption DEF Passed, Stopped
<1>2. Cardinality(Passed(l, w)) \in Nat /\ Cardinality(Stopped(l, w)) \in Nat
    BY <1>1, FS_CardinalityType
<1>3. lost \in Nat
    BY RateLimiterAssumption DEF TypeOK
<1> QED
    BY <1>1, <1>2, <1>3 DEF Heard

LEMMA HeardTypeNext ==
    ASSUME TypeOK', NEW l, NEW w
    PROVE  /\ IsFiniteSet(Passed(l, w)') /\ Cardinality(Passed(l, w)') \in Nat
           /\ IsFiniteSet(Stopped(l, w)') /\ Cardinality(Stopped(l, w)') \in Nat
           /\ lost' \in Nat /\ Heard(l, w)' \in Nat
<1>1. IsFiniteSet(Passed(l, w)') /\ IsFiniteSet(Stopped(l, w)')
    BY FS_Subset, RateLimiterAssumption DEF Passed, Stopped
<1>2. Cardinality(Passed(l, w)') \in Nat /\ Cardinality(Stopped(l, w)') \in Nat
    BY <1>1, FS_CardinalityType
<1>3. lost' \in Nat
    BY RateLimiterAssumption DEF TypeOK
<1> QED
    BY <1>1, <1>2, <1>3 DEF Heard

\* A set that gains an element.
LEMMA Gains ==
    ASSUME NEW S, NEW T, IsFiniteSet(T), S \subseteq T, NEW x \in T, x \notin S
    PROVE  Cardinality(T) \geq Cardinality(S) + 1
<1>1. IsFiniteSet(S) /\ IsFiniteSet(S \cup {x})
    BY FS_Subset
<1>2. Cardinality(S \cup {x}) = Cardinality(S) + 1
    BY <1>1, FS_AddElement
<1>3. Cardinality(S \cup {x}) \leq Cardinality(T)
    BY FS_Subset
<1> QED
    BY <1>2, <1>3

\* No step takes a request back, or moves one that was rejected.
LEMMA Onwards ==
    ASSUME Base, [Next]_vars, NEW q \in Requests, stage[q] # 0
    PROVE  /\ stage'[q] \geq stage[q] /\ read'[q] = read[q] /\ offset'[q] = offset[q]
           /\ verdict[q] = "rejected" => stage'[q] = stage[q] /\ verdict'[q] = "rejected"
<1>0. /\ stage \in [Requests -> 0 .. Done] /\ Done = 4
      /\ verdict \in [Requests -> {"none", "pending", "admitted", "rejected", "error"}]
      /\ read \in [Requests -> Time] /\ offset \in [Requests -> -Skew .. Skew]
    BY DEF Base, TypeOK, Done
<1>1. CASE Tick \/ UNCHANGED vars
    BY <1>0, <1>1 DEF Tick, vars, requestVars
<1>2. ASSUME NEW r \in Requests, Arrive(r)
      PROVE  /\ UNCHANGED << stage[q], verdict[q] >>
             /\ read'[q] = read[q] /\ offset'[q] = offset[q]
    BY <1>0, <1>2 DEF Arrive, Goto
<1>3. ASSUME NEW r \in Requests, Fail(r)
      PROVE  /\ UNCHANGED << stage, read, offset >>
             /\ verdict[q] = "rejected" => verdict'[q] = "rejected"
    BY <1>0, <1>3 DEF Fail
<1>4. ASSUME NEW r \in Requests, NEW l \in Limits, ReplyLost(r, l)
      PROVE  UNCHANGED << stage, verdict, read, offset >>
    BY <1>4 DEF ReplyLost, requestVars
<1>5. ASSUME NEW r \in Requests, NEW l \in Limits, Check(r, l)
      PROVE  /\ UNCHANGED << read, offset >>
             /\ stage'[q] \geq stage[q]
             /\ verdict[q] = "rejected" => stage'[q] = stage[q] /\ verdict'[q] = "rejected"
  <2>1. l \in 1 .. 3 /\ l + 1 \in 1 .. Done
      BY DEF Done, Limits, rps, rpm, daily
  <2>2. NextEnabled(l + 1) \in l + 1 .. Done
      BY <2>1, NextEnabledFacts
  <2>3. /\ stage[r] = l /\ verdict[r] = "pending" /\ UNCHANGED << read, offset >>
        /\ \/ stage' = [stage EXCEPT ![r] = NextEnabled(l + 1)]
           \/ UNCHANGED stage
        /\ \E v : verdict' = [verdict EXCEPT ![r] = v]
      BY <1>5 DEF Check, Goto
  <2> QED
      BY <1>0, <2>1, <2>2, <2>3
<1> QED
    BY <1>0, <1>1, <1>2, <1>3, <1>4, <1>5 DEF Next

LEMMA HeardGrows ==
    ASSUME Base, Base', [Next]_vars, NEW l \in Limits, NEW w
    PROVE  /\ Passed(l, w) \subseteq Passed(l, w)' /\ Stopped(l, w) \subseteq Stopped(l, w)'
           /\ lost \leq lost' /\ Heard(l, w) \leq Heard(l, w)'
<1>1. l \in 1 .. 3
    BY DEF Limits, rps, rpm, daily
<1>2. \A q \in Requests : stage[q] \in 0 .. 4 /\ stage'[q] \in 0 .. 4
    BY DEF Base, TypeOK, Done
<1>3. Passed(l, w) \subseteq Passed(l, w)' /\ Stopped(l, w) \subseteq Stopped(l, w)'
    BY <1>1, <1>2, Onwards DEF Passed, Stopped, WindowOf, Stamp
<1>4. lost \leq lost'
    BY RateLimiterAssumption
       DEF Base, TypeOK, Next, vars, requestVars, Tick, Arrive, Fail, Check, ReplyLost
<1>5. /\ TypeOK /\ TypeOK'
      /\ IsFiniteSet(Passed(l, w)') /\ Cardinality(Passed(l, w)') \in Nat
      /\ IsFiniteSet(Stopped(l, w)') /\ Cardinality(Stopped(l, w)') \in Nat
      /\ lost' \in Nat
    BY HeardTypeNext DEF Base
<1>6. /\ Cardinality(Passed(l, w)) \leq Cardinality(Passed(l, w)')
      /\ Cardinality(Stopped(l, w)) \leq Cardinality(Stopped(l, w)')
    BY <1>3, <1>5, FS_Subset
<1> QED
    BY <1>3, <1>4, <1>5, <1>6, HeardType DEF Heard

\* A counter that goes up has heard of something new.
LEMMA CountStep ==
    ASSUME Base, Base', CountExplained, [Next]_vars
    PROVE  CountExplained'
<1> SUFFICES ASSUME NEW k \in Limits, NEW v \in Starts, Quota[k] > 0
             PROVE  count'[k][v] \leq Heard(k, v)'
    BY DEF CountExplained
<1>1. /\ count[k][v] \leq Heard(k, v) /\ Heard(k, v) \leq Heard(k, v)'
      /\ count[k][v] \in Nat /\ count'[k][v] \in Nat
    BY HeardGrows DEF CountExplained, Base, TypeOK
<1>2. Heard(k, v) \in Nat /\ Heard(k, v)' \in Nat
    BY HeardType, HeardTypeNext DEF Base
<1>3. CASE UNCHANGED count
    BY <1>1, <1>2, <1>3
<1>4. ASSUME NEW r \in Requests, NEW l \in Limits, Check(r, l) \/ ReplyLost(r, l)
      PROVE  \/ count'[k][v] = count[k][v]
             \/ /\ k = l /\ v = WindowOf(l, r) /\ count'[k][v] \leq count[k][v] + 1
                /\ stage[r] = l /\ verdict[r] = "pending"
  <2>1. /\ Eval(l, r) /\ now' = now
        /\ stage[r] = l /\ verdict[r] = "pending"
      BY <1>4 DEF Check, ReplyLost
  <2> QED
      BY <2>1, EvalFacts DEF Base
<1>5. ASSUME NEW r \in Requests, NEW l \in Limits, ReplyLost(r, l)
      PROVE  count'[k][v] \leq Heard(k, v)'
  <2>1. lost' = lost + 1 /\ UNCHANGED << stage, verdict, read, offset >>
      BY <1>5 DEF ReplyLost, requestVars
  <2>2. Heard(k, v)' = Heard(k, v) + 1
    <3>1. Passed(k, v)' = Passed(k, v) /\ Stopped(k, v)' = Stopped(k, v)
        BY <2>1 DEF Passed, Stopped, WindowOf, Stamp
    <3>2. TypeOK
        BY DEF Base
    <3> QED
        BY <2>1, <3>1, <3>2, HeardType DEF Heard
  <2> QED
      BY <1>1, <1>2, <1>4, <1>5, <2>2
<1>6. ASSUME NEW r \in Requests, NEW l \in Limits, Check(r, l),
             k = l, v = WindowOf(l, r), stage[r] = l, verdict[r] = "pending"
      PROVE  Heard(k, v)' \geq Heard(k, v) + 1
  <2>1. UNCHANGED << read, offset, lost >>
      BY <1>6 DEF Check
  <2>2. WindowOf(l, r)' = v /\ l \in 1 .. 3
      BY <1>6, <2>1 DEF WindowOf, Stamp, Limits, rps, rpm, daily
  <2>3. /\ Passed(k, v) \subseteq Passed(k, v)' /\ Stopped(k, v) \subseteq Stopped(k, v)'
        /\ IsFiniteSet(Passed(k, v)') /\ IsFiniteSet(Stopped(k, v)')
      BY HeardGrows, FS_Subset, RateLimiterAssumption DEF Passed, Stopped
  <2>4. /\ Cardinality(Passed(k, v)) \leq Cardinality(Passed(k, v)')
        /\ Cardinality(Stopped(k, v)) \leq Cardinality(Stopped(k, v)')
        /\ Cardinality(Passed(k, v)') \in Nat /\ Cardinality(Stopped(k, v)') \in Nat
        /\ Cardinality(Passed(k, v)) \in Nat /\ Cardinality(Stopped(k, v)) \in Nat
        /\ lost \in Nat
    <3>1. TypeOK
        BY DEF Base
    <3> QED
        BY <2>3, <3>1, FS_Subset, FS_CardinalityType, HeardType
  <2>5. r \notin Passed(k, v) /\ r \notin Stopped(k, v)
      BY <1>6, <2>2 DEF Passed, Stopped
  <2>6. r \in Passed(k, v)' \/ r \in Stopped(k, v)'
    <3>1. CASE Goto(r, NextEnabled(l + 1))
      <4>1. l + 1 \in 1 .. Done
          BY <2>2 DEF Done
      <4>2. NextEnabled(l + 1) \in l + 1 .. Done
          BY <4>1, NextEnabledFacts
      <4>3. stage'[r] = NextEnabled(l + 1)
          BY <3>1 DEF Goto, Base, TypeOK
      <4> QED
          BY <1>6, <2>2, <4>2, <4>3 DEF Passed, Done
    <3>2. CASE verdict' = [verdict EXCEPT ![r] = "rejected"] /\ UNCHANGED stage
        BY <1>6, <2>2, <3>2 DEF Stopped, Base, TypeOK
    <3> QED
        BY <1>6, <3>1, <3>2 DEF Check
  <2>7. \/ Cardinality(Passed(k, v)') \geq Cardinality(Passed(k, v)) + 1
        \/ Cardinality(Stopped(k, v)') \geq Cardinality(Stopped(k, v)) + 1
      BY <2>3, <2>5, <2>6, Gains
  <2> QED
      BY <2>1, <2>4, <2>7 DEF Heard
<1>7. ASSUME NEW r \in Requests, NEW l \in Limits, Check(r, l)
      PROVE  count'[k][v] \leq Heard(k, v)'
    BY <1>1, <1>2, <1>4, <1>6, <1>7
<1>8. CASE \/ Tick \/ UNCHANGED vars
           \/ \E r \in Requests : Arrive(r) \/ Fail(r)
    BY <1>3, <1>8 DEF Tick, Arrive, Fail, vars, redisVars
<1> QED
    BY <1>5, <1>7, <1>8 DEF Next

LEMMA RejectedStep ==
    ASSUME Base, Base', CountExplained, CountExplained', RejectedFull, [Next]_vars
    PROVE  RejectedFull'
<1> SUFFICES ASSUME NEW q \in Requests, verdict'[q] = "rejected"
             PROVE  /\ stage'[q] \in Limits
                    /\ Heard(stage[q], WindowOf(stage[q], q))' > Quota[stage'[q]]
    BY DEF RejectedFull
<1>1. CASE verdict[q] = "rejected"
  <2>1. stage[q] \in Limits /\ Heard(stage[q], WindowOf(stage[q], q)) > Quota[stage[q]]
      BY <1>1 DEF RejectedFull
  <2>2. stage[q] # 0
      BY <2>1 DEF Limits, rps, rpm, daily
  <2>3. stage'[q] = stage[q] /\ read'[q] = read[q] /\ offset'[q] = offset[q]
      BY <1>1, <2>2, Onwards
  <2>4. PICK l \in Limits : l = stage[q]
      BY <2>1
  <2>5. PICK w \in Starts : w = WindowOf(l, q)
      BY WindowFacts DEF Base
  <2>6. Heard(l, w) > Quota[l]
      BY <2>1, <2>4, <2>5
  <2>7. Heard(l, w) \leq Heard(l, w)'
      BY HeardGrows
  <2>8. Heard(l, w) \in Nat /\ Heard(l, w)' \in Nat /\ Quota[l] \in Nat
      BY HeardType, HeardTypeNext, RateLimiterAssumption DEF Base
  <2>9. stage'[q] = l /\ WindowOf(l, q)' = w
      BY <2>3, <2>4, <2>5 DEF WindowOf, Stamp
  <2>10. Heard(l, w)' > Quota[l]
      BY <2>6, <2>7, <2>8
  <2> QED
      BY <2>9, <2>10
<1>2. CASE verdict[q] # "rejected"
  <2>1. PICK l \in Limits : Check(q, l)
    <3>1. CASE Tick \/ UNCHANGED vars
        BY <1>2, <3>1 DEF Tick, vars, requestVars
    <3>2. ASSUME NEW r \in Requests, Arrive(r) \/ Fail(r)
          PROVE  FALSE
        BY <1>2, <3>2 DEF Arrive, Fail, Goto, Base, TypeOK
    <3>3. ASSUME NEW r \in Requests, NEW l \in Limits, ReplyLost(r, l)
          PROVE  FALSE
        BY <1>2, <3>3 DEF ReplyLost, requestVars
    <3>4. ASSUME NEW r \in Requests, NEW l \in Limits, Check(r, l)
          PROVE  r = q
        BY <1>2, <3>4 DEF Check, Goto, Base, TypeOK
    <3> QED
        BY <3>1, <3>2, <3>3, <3>4 DEF Next
  <2>2. ~Goto(q, NextEnabled(l + 1))
      BY DEF Goto, Base, TypeOK
  <2>3. PICK w \in Starts : w = WindowOf(l, q)
      BY WindowFacts DEF Base
  <2>4. /\ stage[q] = l /\ verdict[q] = "pending" /\ Eval(l, q)
        /\ UNCHANGED << now, stage, read, offset >>
        /\ Incremented(l, w) > Quota[l]
      BY <2>1, <2>2, <2>3 DEF Check
  <2>5. Incremented(l, w) = count'[l][w]
      BY <2>3, <2>4, EvalFacts
  <2>6. Quota[l] > 0
      BY <2>4 DEF Base, Progress
  <2>7. stage'[q] = l /\ WindowOf(l, q)' = w
      BY <2>3, <2>4 DEF WindowOf, Stamp
  <2>8. count'[l][w] \leq Heard(l, w)'
      BY <2>6 DEF CountExplained
  <2>9. Quota[l] \in Nat /\ count'[l][w] \in Nat /\ Heard(l, w)' \in Nat
      BY HeardTypeNext, RateLimiterAssumption DEF Base, TypeOK
  <2>10. Heard(l, w)' > Quota[l]
      BY <2>4, <2>5, <2>8, <2>9
  <2> QED
      BY <2>7, <2>10
<1> QED
    BY <1>1, <1>2

\* CheckRateLimits rejects a request only when as many EVALs as the quota, of other
\* requests of its window or repeated, came before it: what the counter holds is
\* explained by requests the limit let through or stopped and by lost replies,
\* however soon the key expires.
THEOREM RejectedForCause == Spec => []RejectedOnlyWhenFull
<1>1. Init => CountExplained /\ RejectedFull
  <2> SUFFICES ASSUME Init PROVE CountExplained
      BY DEF Init, RejectedFull
  <2>1. TypeOK
      BY InitInv DEF Inv, Base
  <2> QED
      BY <2>1, HeardType DEF Init, CountExplained
<1>2. Base /\ Base' /\ CountExplained /\ RejectedFull /\ [Next]_vars
          => CountExplained' /\ RejectedFull'
    BY CountStep, RejectedStep
<1>3. Base /\ RejectedFull => RejectedOnlyWhenFull
  <2> SUFFICES ASSUME Base, RejectedFull, NEW r \in Requests, verdict[r] = "rejected"
               PROVE  LET l == stage[r]
                          w == WindowOf(l, r)
                      IN  Cardinality(Passed(l, w)) + Cardinality(Stopped(l, w) \ {r}) + lost
                             \geq Quota[l]
      BY DEF RejectedOnlyWhenFull
  <2> DEFINE l == stage[r]
             w == WindowOf(l, r)
  <2>1. l \in Limits /\ Heard(l, w) > Quota[l] /\ r \in Stopped(l, w)
      BY DEF RejectedFull, Stopped
  <2> HIDE DEF l, w
  <2>2. TypeOK /\ Quota[l] \in Nat
      BY <2>1, RateLimiterAssumption DEF Base
  <2>3. Cardinality(Stopped(l, w) \ {r}) = Cardinality(Stopped(l, w)) - 1
      BY <2>1, <2>2, HeardType, FS_RemoveElement
  <2>4. Cardinality(Passed(l, w)) + Cardinality(Stopped(l, w) \ {r}) + lost \geq Quota[l]
      BY <2>1, <2>2, <2>3, HeardType DEF Heard
  <2> QED
      BY <2>4 DEF l, w
<1> QED
    BY <1>1, <1>2, <1>3, BaseInvariance, PTL DEF Spec

-----------------------------------------------------------------------------
(* Bursts                                                                  *)

\* A factor that is not zero can be left out of a comparison.
LEMMA Cancel ==
    ASSUME NEW n \in Nat \ {0}, NEW a \in Int, NEW b \in Int, n * a < n * b
    PROVE  a < b
<1> SUFFICES ASSUME b \leq a PROVE FALSE
    OBVIOUS
<1>1. n * (a - b) \geq 0
    OBVIOUS
<1> QED
    BY <1>1

\* Readings less than a window apart are in the same window or in the next.
LEMMA NextWindow ==
    ASSUME NEW n \in Nat \ {0}, NEW t \in Nat, NEW s \in Nat, t \leq s, s < t + n
    PROVE  s - (s % n) \in {t - (t % n), t - (t % n) + n}
<1> DEFINE p == t \div n
           q == s \div n
<1>1. /\ p \in Int /\ t % n \in 0 .. n - 1 /\ t = n * p + (t % n)
      /\ q \in Int /\ s % n \in 0 .. n - 1 /\ s = n * q + (s % n)
    OBVIOUS
<1> HIDE DEF p, q
<1>2. n * p \in Int /\ n * q \in Int /\ n * (q + 1) = n * q + n /\ n * (p + 2) = n * p + n + n
      /\ n * (p + 1) = n * p + n
    BY <1>1
<1>3. p < q + 1
  <2>1. n * p < n * (q + 1)
      BY <1>1, <1>2
  <2> QED
      BY <1>1, <2>1, Cancel
<1>4. q < p + 2
  <2>1. n * q < n * (p + 2)
      BY <1>1, <1>2
  <2> QED
      BY <1>1, <2>1, Cancel
<1>5. q = p \/ q = p + 1
    BY <1>1, <1>3, <1>4
<1> QED
    BY <1>1, <1>2, <1>5

\* In any second, minute or day twice the quota at most is admitted, since the
\* requests fall into two windows, if no EVAL of these came Late (redis.go:118-190).
THEOREM BurstsAreBounded == Spec => []BurstWithinTwiceQuota
<1>1. Inv /\ AdmittedWithinQuota => BurstWithinTwiceQuota
  <2> SUFFICES ASSUME Inv, AdmittedWithinQuota,
                      NEW l \in Limits, NEW t \in Starts, Quota[l] > 0,
                      \A w \in Starts : t - Window[l] < w /\ w \leq t + Window[l]
                                            => late[l][w] = 0
               PROVE  Cardinality(Burst(l, t)) \leq 2 * Quota[l]
      BY DEF BurstWithinTwiceQuota
  <2> DEFINE first == t - (t % Window[l])
             second == first + Window[l]
             A == Admitted(l, first)
             B == Admitted(l, second)
  <2>1. \A r \in Requests : WindowOf(l, r) \in Starts
      BY WindowFacts DEF Inv, Base
  <2>2. \A w : t - Window[l] < w /\ w \leq t + Window[l] =>
             Cardinality(Admitted(l, w)) \leq Quota[l] /\ IsFiniteSet(Admitted(l, w))
    <3> SUFFICES ASSUME NEW w, t - Window[l] < w, w \leq t + Window[l]
                 PROVE  Cardinality(Admitted(l, w)) \leq Quota[l] /\ IsFiniteSet(Admitted(l, w))
        OBVIOUS
    <3>1. IsFiniteSet(Admitted(l, w))
        BY FS_Subset, RateLimiterAssumption DEF Admitted
    <3>2. CASE w \in Starts
      <4>1. late[l][w] = 0 /\ Quota[l] \in Nat
          BY <3>2, RateLimiterAssumption
      <4>2. Quota[l] + Quota[l] * late[l][w] = Quota[l]
          BY <4>1
      <4> QED
          BY <3>1, <3>2, <4>2 DEF AdmittedWithinQuota
    <3>3. CASE w \notin Starts
      <4>1. Admitted(l, w) = {}
          BY <2>1, <3>3 DEF Admitted
      <4> QED
          BY <3>1, <4>1, FS_EmptySet, RateLimiterAssumption
    <3> QED
        BY <3>2, <3>3
  <2>3. Burst(l, t) \subseteq A \union B
    <3> SUFFICES ASSUME NEW r \in Burst(l, t)
                 PROVE  WindowOf(l, r) \in {first, second}
        BY DEF Burst, Admitted
    <3>1. Stamp(r) \in Nat /\ t \in Nat /\ Window[l] \in Nat \ {0}
        BY RateLimiterAssumption DEF Burst, Inv, Base, TypeOK, Progress, Stamp, Time, Starts
    <3>2. t \leq Stamp(r) /\ Stamp(r) < t + Window[l]
        BY DEF Burst
    <3> QED
        BY <3>1, <3>2, NextWindow DEF WindowOf
  <2>8. /\ t - Window[l] < first /\ first \leq t + Window[l]
        /\ t - Window[l] < second /\ second \leq t + Window[l]
    <3>1. t \in Nat /\ Window[l] \in Nat \ {0}
        BY RateLimiterAssumption DEF Starts
    <3>2. first \in 0 .. t /\ t < first + Window[l]
        BY <3>1, Truncate
    <3> HIDE DEF first
    <3> QED
        BY <3>1, <3>2
  <2> HIDE DEF A, B
  <2>4. IsFiniteSet(A) /\ IsFiniteSet(B) /\ Cardinality(A) \leq Quota[l] /\ Cardinality(B) \leq Quota[l]
      BY <2>2, <2>8 DEF A, B
  <2>5. /\ IsFiniteSet(A \union B) /\ IsFiniteSet(A \intersect B)
        /\ Cardinality(A \union B)
              = Cardinality(A) + Cardinality(B) - Cardinality(A \intersect B)
      BY <2>4, FS_Union, FS_Subset
  <2>6. /\ Cardinality(A) \in Nat /\ Cardinality(B) \in Nat
        /\ Cardinality(A \intersect B) \in Nat /\ Cardinality(A \union B) \in Nat
      BY <2>4, <2>5, FS_CardinalityType
  <2>7. /\ Cardinality(Burst(l, t)) \leq Cardinality(A \union B)
        /\ Cardinality(Burst(l, t)) \in Nat
      BY <2>3, <2>5, FS_Subset, FS_CardinalityType
  <2> QED
      BY <2>4, <2>5, <2>6, <2>7, RateLimiterAssumption
<1> QED
    BY <1>1, Invariance, WithinQuota, PTL
=============================================================================

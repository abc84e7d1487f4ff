-------------------------- MODULE TelemetryProofs ---------------------------
(***************************************************************************)
(* Proofs about Telemetry for every set of jobs and every channel size:    *)
(* the inductive invariant IInv, the safety properties it implies, and the *)
(* refinement of the Ledger.                                               *)
(***************************************************************************)
EXTENDS Telemetry, TLAPS

\* Sending a job to the channel (enqueue): the channel holds that job besides
\* the others, each in its place.
LEMMA AppendFacts ==
    ASSUME NEW q \in Seq(Jobs), NEW j \in Jobs
    PROVE  /\ Append(q, j) \in Seq(Jobs)
           /\ Len(Append(q, j)) = Len(q) + 1
           /\ DOMAIN q = 1 .. Len(q)
           /\ DOMAIN Append(q, j) = 1 .. Len(q) + 1
           /\ Len(q) \in Nat
           /\ \A i \in 1 .. Len(q) : Append(q, j)[i] = q[i]
           /\ Append(q, j)[Len(q) + 1] = j
OBVIOUS

\* Receiving from the channel (worker, drain): its head leaves, the others move up.
LEMMA TailFacts ==
    ASSUME NEW q \in Seq(Jobs), q # << >>
    PROVE  /\ Len(q) \in Nat \ {0}
           /\ DOMAIN q = 1 .. Len(q)
           /\ Head(q) = q[1]
           /\ Head(q) \in Jobs
           /\ Tail(q) \in Seq(Jobs)
           /\ Len(Tail(q)) = Len(q) - 1
           /\ DOMAIN Tail(q) = 1 .. Len(q) - 1
           /\ \A i \in 1 .. Len(q) - 1 : Tail(q)[i] = q[i + 1]
OBVIOUS

\* New and Start: the recorder starts in a state of the inductive invariant.
LEMMA InitIInv == Init => IInv
<1> SUFFICES ASSUME Init PROVE IInv
    OBVIOUS
<1> USE DEF Init, Zero
<1>1. TypeOK
  <2>1. queue \in Seq(Jobs) /\ Len(queue) = 0
      OBVIOUS
  <2>2. up \in BOOLEAN /\ draining \in BOOLEAN /\ expired \in BOOLEAN
      OBVIOUS
  <2> QED
      BY <2>1, <2>2, TelemetryAssumption DEF TypeOK, MaxAttempts
<1>2. Queued = {}
    BY DEF Queued
<1>3. QueueInv /\ CallerInv
    BY <1>2 DEF QueueInv, CallerInv, Untouched
<1>4. WorkerInv /\ StopInv
    BY DEF WorkerInv, StopInv
<1>5. ReportedOnce
    BY TelemetryAssumption, <1>2 DEF ReportedOnce, Outstanding, Settled
<1>6. NoSilentLossBeforeStop /\ BoundedAttempts /\ CleanDrainLeavesOnlyRacers
    BY DEF NoSilentLossBeforeStop, BoundedAttempts, CleanDrainLeavesOnlyRacers,
           MaxAttempts
<1> QED
    BY <1>1, <1>3, <1>4, <1>5, <1>6 DEF IInv

\* What enqueue's context check does to the job, and to the others.
CheckEffect(j) ==
    /\ /\ caller[j] = "ready" /\ Untouched(j)
       /\ j \notin Queued /\ j # current
    /\ /\ Queued' = Queued /\ current' = current
       /\ \A k \in Jobs : k # j =>
             /\ caller'[k] = caller[k] /\ dropped'[k] = dropped[k]
             /\ Untouched(k)' = Untouched(k) /\ Settled(k)' = Settled(k)
    /\ \/ caller'[j] = "done" /\ dropped'[j] = 1
       \/ caller'[j] = "checked" /\ dropped'[j] = 0
    /\ Queued \subseteq Jobs

\* Each such step has that effect in a state of the inductive invariant.
LEMMA CheckHasEffect ==
    ASSUME IInv, NEW j \in Jobs, Check(j)
    PROVE  CheckEffect(j)
<1> USE TelemetryAssumption DEF Check, IInv, lifecycleVars, workerVars, Count
<1>1. /\ caller[j] = "ready" /\ Untouched(j)
      /\ j \notin Queued /\ j # current
    BY DEF QueueInv, CallerInv, WorkerInv, TypeOK
<1>2. /\ Queued' = Queued /\ current' = current
      /\ \A k \in Jobs : k # j =>
            /\ caller'[k] = caller[k] /\ dropped'[k] = dropped[k]
            /\ Untouched(k)' = Untouched(k) /\ Settled(k)' = Settled(k)
    BY DEF TypeOK, Queued, Untouched, Settled
<1>3. \/ caller'[j] = "done" /\ dropped'[j] = 1
      \/ caller'[j] = "checked" /\ dropped'[j] = 0
    BY <1>1 DEF TypeOK, Untouched
<1>4. Queued \subseteq Jobs
    BY DEF TypeOK, Queued
<1> QED
    BY <1>1, <1>2, <1>3, <1>4 DEF CheckEffect

\* enqueue's context check: the counters move only for the job that is refused,
\* which the channel and the worker do not hold.
LEMMA CheckStep ==
    ASSUME IInv, NEW j \in Jobs, Check(j)
    PROVE  IInv'
<1> USE TelemetryAssumption DEF Check, IInv, lifecycleVars, workerVars, Count
<1>1. CheckEffect(j)
    BY CheckHasEffect
<1>2. TypeOK'
  <2>1. caller' \in [Jobs -> {"ready", "checked", "done"}]
      BY DEF TypeOK
  <2>2. dropped' \in [Jobs -> Nat]
    <3>1. dropped' = dropped \/ dropped' = [dropped EXCEPT ![j] = dropped[j] + 1]
        OBVIOUS
    <3>2. dropped \in [Jobs -> Nat]
        BY DEF TypeOK
    <3> QED
        BY <3>1, <3>2
  <2> QED
      BY <2>1, <2>2 DEF TypeOK
<1>3. QueueInv'
    BY <1>1 DEF CheckEffect, QueueInv
<1>4. CallerInv'
    BY <1>1 DEF CheckEffect, CallerInv, Untouched
<1>5. WorkerInv'
    BY <1>1 DEF CheckEffect, WorkerInv, TypeOK
<1>6. StopInv'
    BY <1>1 DEF CheckEffect, StopInv, TypeOK
<1>7. ReportedOnce'
    BY <1>1 DEF CheckEffect, ReportedOnce, Outstanding, Settled, Untouched
<1>8. NoSilentLossBeforeStop'
    BY <1>1 DEF CheckEffect, NoSilentLossBeforeStop, Outstanding, Settled
<1>9. BoundedAttempts' /\ CleanDrainLeavesOnlyRacers'
    BY <1>1 DEF CheckEffect, BoundedAttempts, CleanDrainLeavesOnlyRacers
<1> QED
    BY <1>2, <1>3, <1>4, <1>5, <1>6, <1>7, <1>8, <1>9

\* What enqueue's send does to the job, the channel and the other jobs.
SendEffect(j) ==
    /\ /\ caller[j] = "checked" /\ Untouched(j)
       /\ j \notin Queued /\ j # current
    /\ /\ current' = current /\ caller'[j] = "done"
       /\ \A k \in Jobs : k # j =>
             /\ caller'[k] = caller[k] /\ dropped'[k] = dropped[k]
             /\ Untouched(k)' = Untouched(k) /\ Settled(k)' = Settled(k)
    /\ /\ Queued \subseteq Jobs
       /\ \/ Queued' = Queued \cup {j} /\ Untouched(j)' /\ UNCHANGED dropped
          \/ Queued' = Queued /\ dropped'[j] = 1
       /\ queue' \in Seq(Jobs) /\ Len(queue') \leq BufferSize
       /\ \A i, k \in DOMAIN queue' : queue'[i] = queue'[k] => i = k

\* Each such step has that effect in a state of the inductive invariant.
LEMMA SendHasEffect ==
    ASSUME IInv, NEW j \in Jobs, Send(j)
    PROVE  SendEffect(j)
<1> USE TelemetryAssumption DEF Send, IInv, lifecycleVars, workerVars, Count
<1>1. /\ caller[j] = "checked" /\ Untouched(j)
      /\ j \notin Queued /\ j # current
    BY DEF QueueInv, CallerInv, WorkerInv, TypeOK
<1>2. /\ current' = current /\ caller'[j] = "done"
      /\ \A k \in Jobs : k # j =>
            /\ caller'[k] = caller[k] /\ dropped'[k] = dropped[k]
            /\ Untouched(k)' = Untouched(k) /\ Settled(k)' = Settled(k)
    BY DEF TypeOK, Untouched, Settled
<1>3. /\ Queued \subseteq Jobs
      /\ \/ Queued' = Queued \cup {j} /\ Untouched(j)' /\ UNCHANGED dropped
         \/ Queued' = Queued /\ dropped'[j] = 1
      /\ queue' \in Seq(Jobs) /\ Len(queue') \leq BufferSize
      /\ \A i, k \in DOMAIN queue' : queue'[i] = queue'[k] => i = k
  <2>1. CASE queue' = Append(queue, j)
    <3> DEFINE n == Len(queue)
    <3>1. /\ n \in Nat /\ DOMAIN queue = 1 .. n
          /\ queue' \in Seq(Jobs) /\ Len(queue') = n + 1 /\ DOMAIN queue' = 1 .. n + 1
          /\ \A i \in 1 .. n : queue'[i] = queue[i]
          /\ queue'[n + 1] = j
        BY <2>1, AppendFacts DEF TypeOK
    <3> HIDE DEF n
    <3>2. n < BufferSize /\ UNCHANGED dropped
      <4>1. Len(queue) = n
          BY DEF n
      <4>2. Len(queue') # Len(queue)
          BY <3>1, <4>1
      <4>3. queue' # queue
          BY <4>2
      <4> QED
          BY <4>1, <4>3
    <3>3. \A i \in 1 .. n : queue[i] # j
        BY <1>1, <3>1 DEF Queued
    <3>4. Queued = {queue[i] : i \in 1 .. n} /\ Queued' = {queue'[i] : i \in 1 .. n + 1}
        BY <3>1 DEF Queued
    <3>5. Queued' = Queued \cup {j}
      <4>1. \A i \in 1 .. n + 1 : i \in 1 .. n \/ i = n + 1
          BY <3>1
      <4>2. 1 .. n \subseteq 1 .. n + 1 /\ n + 1 \in 1 .. n + 1
          BY <3>1
      <4> QED
          BY <3>1, <3>4, <4>1, <4>2
    <3>6. \A i, k \in DOMAIN queue' : queue'[i] = queue'[k] => i = k
      <4>1. \A i, k \in 1 .. n : queue[i] = queue[k] => i = k
          BY <3>1 DEF QueueInv
      <4> QED
          BY <3>1, <3>3, <4>1
    <3>7. Queued \subseteq Jobs
        BY DEF TypeOK, Queued
    <3>8. Len(queue') \leq BufferSize
        BY <3>1, <3>2
    <3> QED
        BY <1>1, <3>1, <3>2, <3>5, <3>6, <3>7, <3>8 DEF Untouched
  <2>2. CASE UNCHANGED queue
    <3>1. Len(queue) = BufferSize /\ dropped'[j] = 1
        BY <1>1, <2>2, AppendFacts DEF TypeOK, Untouched
    <3> QED
        BY <2>2, <3>1 DEF TypeOK, Queued, QueueInv
  <2> QED
      BY <2>1, <2>2
<1> QED
    BY <1>1, <1>2, <1>3 DEF SendEffect

\* enqueue's send: the job joins the channel or, when that is full, is counted.
LEMMA SendStep ==
    ASSUME IInv, NEW j \in Jobs, Send(j)
    PROVE  IInv'
<1> USE TelemetryAssumption DEF Send, IInv, lifecycleVars, workerVars, Count
<1>1. SendEffect(j)
    BY SendHasEffect
<1>2. TypeOK'
  <2>1. caller' \in [Jobs -> {"ready", "checked", "done"}]
      BY DEF TypeOK
  <2>2. dropped' \in [Jobs -> Nat]
    <3>1. dropped' = dropped \/ dropped' = [dropped EXCEPT ![j] = dropped[j] + 1]
        OBVIOUS
    <3>2. dropped \in [Jobs -> Nat]
        BY DEF TypeOK
    <3> QED
        BY <3>1, <3>2
  <2> QED
      BY <1>1, <2>1, <2>2 DEF SendEffect, TypeOK
<1>3. QueueInv'
    BY <1>1 DEF SendEffect, QueueInv, Untouched
<1>4. CallerInv'
    BY <1>1 DEF SendEffect, CallerInv
<1>5. WorkerInv'
    BY <1>1 DEF SendEffect, WorkerInv, TypeOK
<1>6. StopInv'
    BY <1>1 DEF SendEffect, StopInv
<1>7. ReportedOnce'
    BY <1>1 DEF SendEffect, ReportedOnce, Outstanding, Settled, Untouched
<1>8. NoSilentLossBeforeStop'
    BY <1>1 DEF SendEffect, NoSilentLossBeforeStop, Outstanding, Settled
<1>9. BoundedAttempts'
    BY DEF BoundedAttempts
<1>10. CleanDrainLeavesOnlyRacers'
    BY <1>1 DEF SendEffect, CleanDrainLeavesOnlyRacers, StopInv
<1> QED
    BY <1>2, <1>3, <1>4, <1>5, <1>6, <1>7, <1>8, <1>9, <1>10

\* What a receive does to the channel and the worker.
ReceiveEffect ==
    /\ /\ current' \in Jobs /\ current' \in Queued
       /\ Queued = Queued' \cup {current'} /\ current' \notin Queued'
       /\ queue' \in Seq(Jobs) /\ Len(queue') \leq BufferSize
       /\ \A i, k \in DOMAIN queue' : queue'[i] = queue'[k] => i = k
    /\ current = NoJob /\ worker = "select" /\ worker' = "writing" /\ attempt' = 1
    /\ /\ UNCHANGED << caller, acked, rows, failures, dropped >>
       /\ \A j \in Jobs : Outstanding(j)' = Outstanding(j)

\* Each such step has that effect in a state of the inductive invariant.
LEMMA ReceiveHasEffect ==
    ASSUME IInv, Receive
    PROVE  ReceiveEffect
<1> USE TelemetryAssumption DEF Receive, IInv, lifecycleVars, counters
<1>1. /\ current' \in Jobs /\ current' \in Queued
      /\ Queued = Queued' \cup {current'} /\ current' \notin Queued'
      /\ queue' \in Seq(Jobs) /\ Len(queue') \leq BufferSize
      /\ \A i, k \in DOMAIN queue' : queue'[i] = queue'[k] => i = k
  <2> DEFINE n == Len(queue)
  <2>1. /\ n \in Nat \ {0} /\ DOMAIN queue = 1 .. n
        /\ current' = queue[1] /\ current' \in Jobs
        /\ queue' \in Seq(Jobs) /\ Len(queue') = n - 1 /\ DOMAIN queue' = 1 .. n - 1
        /\ \A i \in 1 .. n - 1 : queue'[i] = queue[i + 1]
      BY TailFacts DEF TypeOK
  <2> HIDE DEF n
  <2>2. \A i, k \in 1 .. n : queue[i] = queue[k] => i = k
      BY <2>1 DEF QueueInv
  <2>3. Queued = {queue[i] : i \in 1 .. n} /\ Queued' = {queue[i + 1] : i \in 1 .. n - 1}
    <3>1. Queued' = {queue'[i] : i \in 1 .. n - 1}
        BY <2>1 DEF Queued
    <3> QED
        BY <2>1, <3>1 DEF Queued
  <2>4. {queue[i] : i \in 1 .. n} = {queue[i + 1] : i \in 1 .. n - 1} \cup {queue[1]}
    <3>1. ASSUME NEW i \in 1 .. n, i # 1
          PROVE  i - 1 \in 1 .. n - 1 /\ queue[i] = queue[(i - 1) + 1]
        BY <2>1, <3>1
    <3>2. \A i \in 1 .. n - 1 : i + 1 \in 1 .. n
        BY <2>1
    <3>3. 1 \in 1 .. n
        BY <2>1
    <3> QED
        BY <3>1, <3>2, <3>3
  <2>5. queue[1] \notin {queue[i + 1] : i \in 1 .. n - 1}
      BY <2>1, <2>2
  <2>6. \A i, k \in DOMAIN queue' : queue'[i] = queue'[k] => i = k
    <3> SUFFICES ASSUME NEW i \in 1 .. n - 1, NEW k \in 1 .. n - 1, queue'[i] = queue'[k]
                 PROVE  i = k
        BY <2>1
    <3>1. queue[i + 1] = queue[k + 1] /\ i + 1 \in 1 .. n /\ k + 1 \in 1 .. n
        BY <2>1
    <3> QED
        BY <2>1, <2>2, <3>1
  <2>7. Len(queue') \leq BufferSize
    <3>1. n \leq BufferSize
        BY DEF TypeOK, n
    <3> QED
        BY <2>1, <3>1
  <2> QED
    <3>1. Queued = Queued' \cup {current'} /\ current' \notin Queued'
        BY <2>1, <2>3, <2>4, <2>5
    <3> QED
        BY <2>1, <2>6, <2>7, <3>1
<1>2. current = NoJob /\ worker = "select" /\ worker' = "writing" /\ attempt' = 1
    BY DEF WorkerInv
<1>3. /\ UNCHANGED << caller, acked, rows, failures, dropped >>
      /\ \A j \in Jobs : Outstanding(j)' = Outstanding(j)
    BY <1>1, <1>2 DEF Outstanding
<1> QED
    BY <1>1, <1>2, <1>3 DEF ReceiveEffect

\* worker and drain receive: the head of the channel becomes the worker's job.
LEMMA ReceiveStep ==
    ASSUME IInv, Receive
    PROVE  IInv'
<1> USE TelemetryAssumption DEF Receive, IInv, lifecycleVars, counters
<1>1. ReceiveEffect
    BY ReceiveHasEffect
<1>2. TypeOK'
    BY <1>1 DEF ReceiveEffect, TypeOK, MaxAttempts
<1>3. QueueInv'
    BY <1>1 DEF ReceiveEffect, QueueInv, Untouched
<1>4. CallerInv'
    BY DEF CallerInv, Untouched
<1>5. WorkerInv'
    BY <1>1 DEF ReceiveEffect, WorkerInv, QueueInv, Untouched, Settled, MaxAttempts
<1>6. StopInv'
    BY <1>1 DEF ReceiveEffect, StopInv
<1>7. ReportedOnce' /\ NoSilentLossBeforeStop'
    BY <1>1 DEF ReceiveEffect, ReportedOnce, NoSilentLossBeforeStop, Settled
<1>8. BoundedAttempts' /\ CleanDrainLeavesOnlyRacers'
    BY <1>1 DEF ReceiveEffect, BoundedAttempts, CleanDrainLeavesOnlyRacers
<1> QED
    BY <1>2, <1>3, <1>4, <1>5, <1>6, <1>7, <1>8

\* What a successful write does to the worker's job and to the others.
WriteAckedEffect ==
    /\ /\ current \in Jobs /\ current \notin Queued /\ current' = NoJob
       /\ worker = "writing" /\ worker' = "select" /\ caller[current] = "done"
       /\ failures[current] = attempt - 1 /\ attempt \in 1 .. MaxAttempts
       /\ acked[current] = 0 /\ dropped[current] = 0
    /\ /\ Queued' = Queued /\ Queued \subseteq Jobs
       /\ UNCHANGED << caller, failures, dropped >>
       /\ acked'[current] = 1 /\ rows'[current] = rows[current] + 1
       /\ \A k \in Jobs : k # current => acked'[k] = acked[k] /\ rows'[k] = rows[k]

\* Each such step has that effect in a state of the inductive invariant.
LEMMA WriteAckedHasEffect ==
    ASSUME IInv, WriteAcked
    PROVE  WriteAckedEffect
<1> USE TelemetryAssumption DEF WriteAcked, IInv, BackToSelect, lifecycleVars, Count
<1>1. /\ current \in Jobs /\ current \notin Queued /\ current' = NoJob
      /\ worker = "writing" /\ worker' = "select" /\ caller[current] = "done"
      /\ failures[current] = attempt - 1 /\ attempt \in 1 .. MaxAttempts
      /\ acked[current] = 0 /\ dropped[current] = 0
    BY DEF TypeOK, WorkerInv, QueueInv, Settled
<1>2. /\ Queued' = Queued /\ Queued \subseteq Jobs
      /\ UNCHANGED << caller, failures, dropped >>
      /\ acked'[current] = 1 /\ rows'[current] = rows[current] + 1
      /\ \A k \in Jobs : k # current => acked'[k] = acked[k] /\ rows'[k] = rows[k]
    BY <1>1 DEF TypeOK, Queued
<1> QED
    BY <1>1, <1>2 DEF WriteAckedEffect

\* process, err == nil: the job leaves the worker, acknowledged.
LEMMA WriteAckedStep ==
    ASSUME IInv, WriteAcked
    PROVE  IInv'
<1> USE TelemetryAssumption DEF WriteAcked, IInv, BackToSelect, lifecycleVars, Count
<1>1. WriteAckedEffect
    BY WriteAckedHasEffect
<1>2. TypeOK'
  <2>1. acked' \in [Jobs -> Nat] /\ rows' \in [Jobs -> Nat]
      BY <1>1 DEF WriteAckedEffect, TypeOK
  <2> QED
      BY <1>1, <2>1 DEF WriteAckedEffect, TypeOK, MaxAttempts
<1>3. QueueInv' /\ CallerInv'
    BY <1>1 DEF WriteAckedEffect, QueueInv, CallerInv, Untouched
<1>4. WorkerInv' /\ StopInv'
    BY <1>1 DEF WriteAckedEffect, WorkerInv, StopInv
<1>5. ReportedOnce'
  <2> SUFFICES ASSUME NEW j \in Jobs
               PROVE  (/\ acked[j] + dropped[j] \leq 1
                       /\ Outstanding(j) => ~Settled(j))'
      BY DEF ReportedOnce
  <2>1. CASE j = current
      BY <1>1, <2>1, TelemetryAssumption DEF WriteAckedEffect, Outstanding, Settled
  <2>2. CASE j # current
      BY <1>1, <2>2 DEF WriteAckedEffect, ReportedOnce, Outstanding, Settled
  <2> QED
      BY <2>1, <2>2
<1>6. NoSilentLossBeforeStop'
    BY <1>1 DEF WriteAckedEffect, NoSilentLossBeforeStop, Outstanding, Settled
<1>7. BoundedAttempts'
    BY <1>1 DEF WriteAckedEffect, BoundedAttempts, TypeOK, MaxAttempts
<1>8. CleanDrainLeavesOnlyRacers'
    BY <1>1 DEF WriteAckedEffect, CleanDrainLeavesOnlyRacers
<1> QED
    BY <1>2, <1>3, <1>4, <1>5, <1>6, <1>7, <1>8

\* What a failed write does to the worker's job and to the others.
WriteFailsEffect ==
    /\ /\ current \in Jobs /\ current \notin Queued
       /\ worker = "writing" /\ caller[current] = "done"
       /\ failures[current] = attempt - 1 /\ attempt \in 1 .. MaxAttempts
       /\ acked[current] = 0 /\ dropped[current] = 0
    /\ /\ Queued' = Queued /\ Queued \subseteq Jobs /\ UNCHANGED << caller, acked >>
       /\ failures'[current] = attempt
       /\ rows'[current] \in {rows[current], rows[current] + 1}
       /\ \A k \in Jobs : k # current =>
             /\ failures'[k] = failures[k] /\ rows'[k] = rows[k]
             /\ dropped'[k] = dropped[k]
    /\ \/ /\ attempt < MaxAttempts /\ worker' = "backoff"
          /\ current' = current /\ attempt' = attempt /\ dropped'[current] = 0
       \/ /\ attempt = MaxAttempts /\ worker' = "select"
          /\ current' = NoJob /\ attempt' = 0 /\ dropped'[current] = 1

\* Each such step has that effect in a state of the inductive invariant.
LEMMA WriteFailsHasEffect ==
    ASSUME IInv, WriteFails
    PROVE  WriteFailsEffect
<1> USE TelemetryAssumption DEF WriteFails, IInv, BackToSelect, lifecycleVars, Count
<1>1. /\ current \in Jobs /\ current \notin Queued
      /\ worker = "writing" /\ caller[current] = "done"
      /\ failures[current] = attempt - 1 /\ attempt \in 1 .. MaxAttempts
      /\ acked[current] = 0 /\ dropped[current] = 0
    BY DEF TypeOK, WorkerInv, QueueInv, Settled
<1>2. /\ Queued' = Queued /\ Queued \subseteq Jobs /\ UNCHANGED << caller, acked >>
      /\ failures'[current] = attempt
      /\ rows'[current] \in {rows[current], rows[current] + 1}
      /\ \A k \in Jobs : k # current =>
            /\ failures'[k] = failures[k] /\ rows'[k] = rows[k]
            /\ dropped'[k] = dropped[k]
    BY <1>1 DEF TypeOK, Queued
<1>3. \/ /\ attempt < MaxAttempts /\ worker' = "backoff"
         /\ current' = current /\ attempt' = attempt /\ dropped'[current] = 0
      \/ /\ attempt = MaxAttempts /\ worker' = "select"
         /\ current' = NoJob /\ attempt' = 0 /\ dropped'[current] = 1
    BY <1>1 DEF TypeOK
<1> QED
    BY <1>1, <1>2, <1>3 DEF WriteFailsEffect

\* process, err # nil: one attempt more, or the job is counted as dropped.
LEMMA WriteFailsStep ==
    ASSUME IInv, WriteFails
    PROVE  IInv'
<1> USE TelemetryAssumption DEF WriteFails, IInv, BackToSelect, lifecycleVars, Count
<1>1. WriteFailsEffect
    BY WriteFailsHasEffect
<1>2. TypeOK'
  <2>1. failures' \in [Jobs -> Nat] /\ rows' \in [Jobs -> Nat] /\ dropped' \in [Jobs -> Nat]
    <3>1. rows' = rows \/ rows' = [rows EXCEPT ![current] = rows[current] + 1]
        OBVIOUS
    <3>2. dropped' = dropped \/ dropped' = [dropped EXCEPT ![current] = dropped[current] + 1]
        OBVIOUS
    <3>3. /\ failures \in [Jobs -> Nat] /\ rows \in [Jobs -> Nat]
          /\ dropped \in [Jobs -> Nat]
        BY DEF TypeOK
    <3>4. failures' \in [Jobs -> Nat]
        BY <1>1, <3>3 DEF WriteFailsEffect
    <3>5. rows' \in [Jobs -> Nat]
        BY <1>1, <3>1, <3>3 DEF WriteFailsEffect
    <3>6. dropped' \in [Jobs -> Nat]
        BY <1>1, <3>2, <3>3 DEF WriteFailsEffect
    <3> QED
        BY <3>4, <3>5, <3>6
  <2>2. worker' \in {"select", "backoff"} /\ current' \in Jobs \cup {NoJob} /\ attempt' \in 0 .. MaxAttempts
      BY <1>1 DEF WriteFailsEffect, MaxAttempts
  <2> QED
      BY <2>1, <2>2 DEF TypeOK
<1>3. QueueInv' /\ CallerInv'
    BY <1>1 DEF WriteFailsEffect, QueueInv, CallerInv, Untouched, TypeOK
<1>4. WorkerInv'
    BY <1>1 DEF WriteFailsEffect, WorkerInv, Settled, MaxAttempts
<1>5. StopInv'
    BY <1>1 DEF WriteFailsEffect, StopInv
<1>6. ReportedOnce'
  <2> SUFFICES ASSUME NEW j \in Jobs
               PROVE  (/\ acked[j] + dropped[j] \leq 1
                       /\ Outstanding(j) => ~Settled(j))'
      BY DEF ReportedOnce
  <2>1. CASE j = current
      BY <1>1, <2>1, TelemetryAssumption DEF WriteFailsEffect, Outstanding, Settled
  <2>2. CASE j # current
      BY <1>1, <2>2 DEF WriteFailsEffect, ReportedOnce, Outstanding, Settled
  <2> QED
      BY <2>1, <2>2
<1>7. NoSilentLossBeforeStop'
    BY <1>1 DEF WriteFailsEffect, NoSilentLossBeforeStop, Outstanding, Settled
<1>8. BoundedAttempts'
    BY <1>1 DEF WriteFailsEffect, BoundedAttempts, TypeOK, MaxAttempts
<1>9. CleanDrainLeavesOnlyRacers'
    BY <1>1 DEF WriteFailsEffect, CleanDrainLeavesOnlyRacers
<1> QED
    BY <1>2, <1>3, <1>4, <1>5, <1>6, <1>7, <1>8, <1>9

\* A step of main, of a timer or of the worker between two jobs leaves the
\* conjuncts about the jobs alone, if it does not undo a cancellation.
LEMMA JobsLeftAlone ==
    ASSUME IInv, UNCHANGED << caller, queue, current, counters >>,
           lifecycle = "cancelled" => lifecycle' = "cancelled"
    PROVE  /\ QueueInv' /\ CallerInv' /\ ReportedOnce' /\ BoundedAttempts'
           /\ NoSilentLossBeforeStop'
<1> USE DEF IInv, counters, Queued, Outstanding, Settled, Untouched
<1>1. QueueInv' /\ CallerInv'
    BY DEF QueueInv, CallerInv
<1>2. ReportedOnce' /\ BoundedAttempts'
    BY DEF ReportedOnce, BoundedAttempts
<1>3. NoSilentLossBeforeStop'
    BY DEF NoSilentLossBeforeStop
<1> QED
    BY <1>1, <1>2, <1>3

\* Start, Stop and the end of the process preserve the inductive invariant.
LEMMA MainStep ==
    ASSUME IInv, Start \/ StopCancel \/ StopStep \/ ProcessEnds
    PROVE  IInv'
<1> USE TelemetryAssumption DEF counters, workerVars
<1>1. CASE Start
  <2>1. TypeOK'
      BY <1>1 DEF Start, IInv, TypeOK, MaxAttempts
  <2>2. WorkerInv' /\ StopInv' /\ CleanDrainLeavesOnlyRacers'
    <3>1. worker = "unstarted" /\ current = NoJob
        BY <1>1 DEF Start, IInv, StopInv, WorkerInv
    <3> QED
        BY <1>1, <3>1 DEF Start, IInv, WorkerInv, StopInv, CleanDrainLeavesOnlyRacers
  <2> QED
      BY <1>1, <2>1, <2>2, JobsLeftAlone DEF Start, IInv
<1>2. CASE StopCancel
  <2>1. TypeOK'
      BY <1>2 DEF StopCancel, IInv, TypeOK
  <2>2. WorkerInv' /\ StopInv'
      BY <1>2 DEF StopCancel, IInv, WorkerInv, StopInv, Settled
  <2>3. CleanDrainLeavesOnlyRacers'
      BY <1>2 DEF StopCancel, IInv, StopInv, CleanDrainLeavesOnlyRacers
  <2> QED
      BY <1>2, <2>1, <2>2, <2>3, JobsLeftAlone DEF StopCancel, IInv
<1>3. CASE StopStep
  <2>1. /\ UNCHANGED << up, lifecycle, racing, caller, queue, workerVars, counters >>
        /\ stop' = "timedout" \/ (stop' = "clean" /\ worker = "exited")
    <3>1. CASE StopClean
        BY <3>1 DEF StopClean
    <3>2. CASE StopTimeout
        BY <3>2 DEF StopTimeout
    <3> QED
        BY <1>3, <3>1, <3>2 DEF StopStep
  <2>2. TypeOK' /\ WorkerInv' /\ StopInv' /\ CleanDrainLeavesOnlyRacers'
      BY <2>1 DEF IInv, TypeOK, WorkerInv, StopInv, CleanDrainLeavesOnlyRacers,
                  Queued, Settled
  <2> QED
      BY <2>1, <2>2, JobsLeftAlone DEF IInv
<1>4. CASE ProcessEnds
  <2>1. TypeOK' /\ WorkerInv' /\ StopInv' /\ CleanDrainLeavesOnlyRacers'
      BY <1>4 DEF ProcessEnds, IInv, TypeOK, WorkerInv, StopInv,
                  CleanDrainLeavesOnlyRacers, Queued, Settled
  <2> QED
      BY <1>4, <2>1, JobsLeftAlone DEF ProcessEnds, IInv
<1> QED
    BY <1>1, <1>2, <1>3, <1>4

\* drain begins, meets its deadline and ends.
LEMMA DrainStep ==
    ASSUME IInv, BeginDrain \/ DrainDeadline \/ DrainEnds
    PROVE  IInv'
<1> USE TelemetryAssumption
<1>1. /\ UNCHANGED << lifecycleVars, caller, queue, current, attempt, counters >>
      /\ draining' \in BOOLEAN /\ expired' \in BOOLEAN
      /\ worker' \in {"unstarted", "select", "writing", "backoff", "exited"}
    BY DEF BeginDrain, DrainDeadline, DrainEnds, IInv, TypeOK
<1>2. TypeOK'
    BY <1>1 DEF IInv, TypeOK, lifecycleVars, counters
<1>3. WorkerInv'
    BY <1>1 DEF BeginDrain, DrainDeadline, DrainEnds, IInv, WorkerInv, Settled, counters
<1>4. StopInv'
    BY <1>1 DEF BeginDrain, DrainDeadline, DrainEnds, IInv, StopInv, lifecycleVars
<1>5. CleanDrainLeavesOnlyRacers'
    BY <1>1 DEF BeginDrain, DrainDeadline, DrainEnds, IInv, StopInv, Queued,
                CleanDrainLeavesOnlyRacers, lifecycleVars
<1> QED
    BY <1>1, <1>2, <1>3, <1>4, <1>5, JobsLeftAlone DEF IInv, lifecycleVars

\* process after a failed attempt: the next attempt begins.
LEMMA BackoffElapsedStep ==
    ASSUME IInv, BackoffElapsed
    PROVE  IInv'
<1> USE TelemetryAssumption DEF BackoffElapsed, IInv
<1>1. attempt \in 1 .. MaxAttempts - 1 /\ current # NoJob
    BY DEF WorkerInv
<1>2. TypeOK'
    BY <1>1 DEF TypeOK, MaxAttempts, lifecycleVars, counters
<1>3. WorkerInv'
    BY <1>1 DEF WorkerInv, MaxAttempts, Settled, counters
<1>4. StopInv' /\ CleanDrainLeavesOnlyRacers'
    BY DEF StopInv, CleanDrainLeavesOnlyRacers, lifecycleVars
<1> QED
    BY <1>2, <1>3, <1>4, JobsLeftAlone DEF lifecycleVars

\* process after a failed attempt, cancelled: the job leaves the worker without
\* a trace, which NoSilentLossBeforeStop allows since Stop has been called.
LEMMA BackoffCancelledStep ==
    ASSUME IInv, BackoffCancelled
    PROVE  IInv'
<1> USE TelemetryAssumption DEF BackoffCancelled, IInv, BackToSelect, lifecycleVars, counters
<1>1. TypeOK'
    BY DEF TypeOK, MaxAttempts
<1>2. Queued' = Queued /\ Queued \subseteq Jobs /\ current' = NoJob /\ worker' = "select"
    BY DEF Queued, TypeOK
<1>3. QueueInv' /\ CallerInv'
    BY <1>2 DEF QueueInv, CallerInv, Untouched
<1>4. WorkerInv' /\ StopInv'
    BY <1>2 DEF WorkerInv, StopInv
<1>5. ReportedOnce' /\ BoundedAttempts'
    BY <1>2 DEF ReportedOnce, BoundedAttempts, Outstanding, Settled
<1>6. NoSilentLossBeforeStop' /\ CleanDrainLeavesOnlyRacers'
    BY <1>2 DEF NoSilentLossBeforeStop, CleanDrainLeavesOnlyRacers
<1> QED
    BY <1>1, <1>3, <1>4, <1>5, <1>6

\* Every step of the recorder preserves the inductive invariant.
LEMMA NextIInv == IInv /\ [Next]_vars => IInv'
<1> SUFFICES ASSUME IInv, [Next]_vars PROVE IInv'
    OBVIOUS
<1>1. CASE Start \/ StopCancel \/ StopStep \/ ProcessEnds
    BY <1>1, MainStep
<1>2. CASE \E j \in Jobs : Enqueue(j)
    BY <1>2, CheckStep, SendStep DEF Enqueue
<1>3. CASE WorkerStep
    BY <1>3, ReceiveStep, DrainStep, WriteAckedStep, WriteFailsStep,
       BackoffElapsedStep, BackoffCancelledStep DEF WorkerStep
<1>4. CASE DrainDeadline
    BY <1>4, DrainStep
<1>5. CASE UNCHANGED vars
  <2>1. TypeOK' /\ WorkerInv' /\ StopInv' /\ CleanDrainLeavesOnlyRacers'
      BY <1>5 DEF vars, lifecycleVars, workerVars, counters, IInv, TypeOK, WorkerInv,
                  StopInv, CleanDrainLeavesOnlyRacers, Queued, Settled
  <2> QED
      BY <1>5, <2>1, JobsLeftAlone DEF vars, lifecycleVars, workerVars, IInv
<1> QED
    BY <1>1, <1>2, <1>3, <1>4, <1>5 DEF Next

\* The inductive invariant holds in every reachable state of the recorder.
THEOREM Invariance == Spec => []IInv
BY InitIInv, NextIInv, PTL DEF Spec

\* The variables keep their types, and the channel stays within BufferSize.
THEOREM TypeCorrect == Spec => []TypeOK
<1>1. IInv => TypeOK
    BY DEF IInv
<1> QED
    BY <1>1, Invariance, PTL

\* A job is reported at most once, and only after it left channel and worker.
THEOREM Reported == Spec => []ReportedOnce
<1>1. IInv => ReportedOnce
    BY DEF IInv
<1> QED
    BY <1>1, Invariance, PTL

\* Before Stop no job that was handed over vanishes without being counted.
THEOREM NoSilentLoss == Spec => []NoSilentLossBeforeStop
<1>1. IInv => NoSilentLossBeforeStop
    BY DEF IInv
<1> QED
    BY <1>1, Invariance, PTL

\* Postgres sees a job at most three times.
THEOREM Attempts == Spec => []BoundedAttempts
<1>1. IInv => BoundedAttempts
    BY DEF IInv
<1> QED
    BY <1>1, Invariance, PTL

\* A drain that beats its deadline leaves only jobs that raced with Stop.
THEOREM CleanDrain == Spec => []CleanDrainLeavesOnlyRacers
<1>1. IInv => CleanDrainLeavesOnlyRacers
    BY DEF IInv
<1> QED
    BY <1>1, Invariance, PTL

\* After a clean Stop the recorder writes nothing more to Postgres.
THEOREM QuietAfterStop == Spec => NoWriteAfterCleanStop
<1>1. IInv /\ [Next]_vars => [stop = "clean" => UNCHANGED << rows, failures >>]_vars
  <2> SUFFICES ASSUME IInv, Next, stop = "clean"
               PROVE  UNCHANGED << rows, failures >>
      BY DEF vars, counters
  <2>1. worker = "exited"
      BY DEF IInv, StopInv
  <2> QED
      BY <2>1 DEF Next, Start, StopCancel, StopStep, StopClean, StopTimeout,
         ProcessEnds, Enqueue, Check, Send, WorkerStep, Receive, BeginDrain, DrainEnds,
         WriteAcked, WriteFails, BackoffElapsed, BackoffCancelled, DrainDeadline, counters
<1> QED
    BY <1>1, Invariance, PTL DEF Spec, NoWriteAfterCleanStop

-----------------------------------------------------------------------------
(* The recorder implements the Ledger.  This is the safety part; LedgerSpec *)
(* with its fairness is model-checked.                                      *)

LedgerSafety == L!Init /\ [][L!Next]_(L!ledger)

\* A step that changes the status of one job only is a move of the Ledger.
LEMMA OneJobMoves ==
    ASSUME NEW j \in Jobs, NEW from, NEW to,
           JobStatus(j) = from, JobStatus(j)' = to,
           \A k \in Jobs : k # j => JobStatus(k)' = JobStatus(k),
           UNCHANGED << up, lifecycle >>
    PROVE  L!Move(j, from, to)
BY DEF L!Move

\* A step that changes no job's status and does not close the recorder is a
\* stutter of the Ledger.
LEMMA NoJobMoves ==
    ASSUME \A k \in Jobs : JobStatus(k)' = JobStatus(k), UNCHANGED << up, lifecycle >>
    PROVE  UNCHANGED L!ledger
BY DEF L!ledger

\* Start, Stop and the end of the process close the Ledger or leave it alone.
LEMMA MainRefines ==
    ASSUME IInv, up, Start \/ StopCancel \/ StopStep \/ ProcessEnds
    PROVE  L!Next \/ UNCHANGED L!ledger
<1>1. \A j \in Jobs : JobStatus(j)' = JobStatus(j)
    BY DEF Start, StopCancel, StopStep, StopClean, StopTimeout, ProcessEnds, JobStatus,
           Outstanding, Queued, workerVars, counters
<1>2. lifecycle = "cancelled" => lifecycle' = "cancelled"
    BY DEF Start, StopCancel, StopStep, StopClean, StopTimeout, ProcessEnds
<1>3. CASE lifecycle = "cancelled"
  <2>1. ((lifecycle = "cancelled" \/ ~up)' = (lifecycle = "cancelled" \/ ~up))
      BY <1>2, <1>3
  <2> QED
      BY <1>1, <2>1 DEF L!ledger
<1>4. CASE lifecycle # "cancelled" /\ (lifecycle = "cancelled" \/ ~up)'
    BY <1>1, <1>4 DEF L!Next, L!Close
<1>5. CASE lifecycle # "cancelled" /\ ~(lifecycle = "cancelled" \/ ~up)'
  <2>1. ((lifecycle = "cancelled" \/ ~up)' = (lifecycle = "cancelled" \/ ~up))
      BY <1>5
  <2> QED
      BY <1>1, <2>1 DEF L!ledger
<1> QED
    BY <1>3, <1>4, <1>5

\* enqueue accepts or refuses a new job.
LEMMA EnqueueRefines ==
    ASSUME IInv, NEW j \in Jobs, Enqueue(j)
    PROVE  L!Next \/ UNCHANGED L!ledger
<1>1. CASE Check(j)
  <2>1. CheckEffect(j) /\ UNCHANGED << up, lifecycle, queue, acked >>
      BY <1>1, CheckHasEffect DEF Check, lifecycleVars
  <2>2. \A k \in Jobs : k # j => JobStatus(k)' = JobStatus(k)
      BY <2>1 DEF CheckEffect, JobStatus, Outstanding
  <2>3. CASE caller'[j] = "done" /\ dropped'[j] = 1
    <3>1. JobStatus(j) = "new" /\ JobStatus(j)' = "dropped"
        BY <2>1, <2>3 DEF CheckEffect, JobStatus, Outstanding, Untouched
    <3> QED
        BY <2>1, <2>2, <3>1, OneJobMoves DEF L!Next, L!Refuse
  <2>4. CASE caller'[j] = "checked"
    <3>1. JobStatus(j) = "new" /\ JobStatus(j)' = "new"
        BY <2>1, <2>4 DEF CheckEffect, JobStatus
    <3> QED
        BY <2>1, <2>2, <3>1, NoJobMoves
  <2> QED
      BY <2>1, <2>3, <2>4 DEF CheckEffect
<1>2. CASE Send(j)
  <2>1. SendEffect(j) /\ UNCHANGED << up, lifecycle, acked >>
      BY <1>2, SendHasEffect DEF Send, lifecycleVars
  <2>2. \A k \in Jobs : k # j => JobStatus(k)' = JobStatus(k)
      BY <2>1 DEF SendEffect, JobStatus, Outstanding
  <2>3. JobStatus(j) = "new"
      BY <2>1 DEF SendEffect, JobStatus
  <2>4. JobStatus(j)' = "pending" \/ JobStatus(j)' = "dropped"
      BY <2>1 DEF SendEffect, JobStatus, Outstanding, Untouched
  <2> QED
      BY <2>1, <2>2, <2>3, <2>4, OneJobMoves DEF L!Next, L!Accept, L!Refuse
<1> QED
    BY <1>1, <1>2 DEF Enqueue

\* The worker stores, drops or (after Stop) loses the job it holds.
LEMMA WorkerRefines ==
    ASSUME IInv, WorkerStep \/ DrainDeadline
    PROVE  L!Next \/ UNCHANGED L!ledger
<1>1. CASE Receive
  <2>1. ReceiveEffect /\ UNCHANGED << up, lifecycle >>
      BY <1>1, ReceiveHasEffect DEF Receive, lifecycleVars
  <2> QED
      BY <2>1, NoJobMoves DEF ReceiveEffect, JobStatus
<1>2. CASE BeginDrain \/ DrainDeadline \/ DrainEnds \/ BackoffElapsed
  <2>1. /\ UNCHANGED << up, lifecycle, caller, queue, current, acked, dropped >>
      BY <1>2 DEF BeginDrain, DrainDeadline, DrainEnds, BackoffElapsed, lifecycleVars,
                  counters
  <2> QED
      BY <2>1, NoJobMoves DEF JobStatus, Outstanding, Queued
<1>3. CASE WriteAcked
  <2>1. WriteAckedEffect /\ UNCHANGED << up, lifecycle >>
      BY <1>3, WriteAckedHasEffect DEF WriteAcked, lifecycleVars
  <2>2. \A k \in Jobs : k # current => JobStatus(k)' = JobStatus(k)
      BY <2>1, TelemetryAssumption DEF WriteAckedEffect, JobStatus, Outstanding
  <2>3. PICK j \in Jobs : j = current
      BY <2>1 DEF WriteAckedEffect
  <2>4. JobStatus(j) = "pending"
      BY <2>1, <2>3 DEF WriteAckedEffect, JobStatus, Outstanding
  <2>5. JobStatus(j)' = "stored"
      BY <2>1, <2>3, TelemetryAssumption DEF WriteAckedEffect, JobStatus, Outstanding
  <2>6. L!Store(j)
      BY <2>1, <2>2, <2>3, <2>4, <2>5, OneJobMoves DEF L!Store
  <2> QED
      BY <2>6 DEF L!Next
<1>4. CASE WriteFails
  <2>1. WriteFailsEffect /\ UNCHANGED << up, lifecycle >>
      BY <1>4, WriteFailsHasEffect DEF WriteFails, lifecycleVars
  <2>2. \A k \in Jobs : k # current => JobStatus(k)' = JobStatus(k)
      BY <2>1, TelemetryAssumption DEF WriteFailsEffect, JobStatus, Outstanding
  <2>3. JobStatus(current) = "pending"
      BY <2>1 DEF WriteFailsEffect, JobStatus, Outstanding
  <2>4. CASE current' = current
    <3>1. JobStatus(current)' = "pending"
        BY <2>1, <2>4 DEF WriteFailsEffect, JobStatus, Outstanding
    <3>2. \A k \in Jobs : JobStatus(k)' = JobStatus(k)
        BY <2>2, <2>3, <2>4, <3>1
    <3> QED
        BY <2>1, <3>2, NoJobMoves
  <2>5. CASE current' = NoJob
    <3>1. current \in Jobs /\ current # NoJob
        BY <2>1, TelemetryAssumption DEF WriteFailsEffect
    <3>2. PICK j \in Jobs : j = current
        BY <3>1
    <3>3. JobStatus(j)' = "dropped"
        BY <2>1, <2>5, <3>1, <3>2 DEF WriteFailsEffect, JobStatus, Outstanding
    <3>4. L!Drop(j)
        BY <2>1, <2>2, <2>3, <3>2, <3>3, OneJobMoves DEF L!Drop
    <3> QED
        BY <3>4 DEF L!Next
  <2> QED
      BY <2>1, <2>4, <2>5 DEF WriteFailsEffect
<1>5. CASE BackoffCancelled
  <2>1. /\ current \in Jobs /\ current # NoJob /\ current \notin Queued
        /\ ~Settled(current) /\ caller[current] = "done"
        /\ acked \in [Jobs -> Nat] /\ dropped \in [Jobs -> Nat]
      BY <1>5, TelemetryAssumption
         DEF BackoffCancelled, IInv, TypeOK, WorkerInv, QueueInv
  <2>2. /\ UNCHANGED << up, lifecycle, caller, queue, acked, dropped >>
        /\ Queued' = Queued /\ Queued \subseteq Jobs /\ current' = NoJob
        /\ lifecycle = "cancelled"
      BY <1>5 DEF BackoffCancelled, BackToSelect, lifecycleVars, counters, Queued, IInv,
                  TypeOK
  <2>3. PICK j \in Jobs : j = current
      BY <2>1
  <2>4. \A k \in Jobs : k # j => JobStatus(k)' = JobStatus(k)
      BY <2>1, <2>2, <2>3, TelemetryAssumption DEF JobStatus, Outstanding
  <2>5. JobStatus(j) = "pending" /\ JobStatus(j)' = "lost"
      BY <2>1, <2>2, <2>3 DEF JobStatus, Outstanding, Settled
  <2>6. L!Lose(j)
      BY <2>2, <2>4, <2>5, OneJobMoves DEF L!Lose
  <2> QED
      BY <2>6 DEF L!Next
<1> QED
    BY <1>1, <1>2, <1>3, <1>4, <1>5 DEF WorkerStep

\* Every execution of the recorder is one of the Ledger: a record is refused or
\* accepted, an accepted one is stored or dropped, once, and is lost uncounted
\* only after the recorder was closed.
THEOREM Refinement == Spec => LedgerSafety
<1>1. Init => L!Init
  <2> SUFFICES ASSUME Init PROVE L!Init
      OBVIOUS
  <2>1. \A j \in Jobs : JobStatus(j) = "new"
      BY DEF Init, JobStatus
  <2>2. (lifecycle = "cancelled" \/ ~up) = FALSE
      BY DEF Init
  <2> QED
      BY <2>1, <2>2 DEF L!Init
<1>2. IInv /\ [Next]_vars => [L!Next]_(L!ledger)
  <2> SUFFICES ASSUME IInv, [Next]_vars PROVE L!Next \/ UNCHANGED L!ledger
      OBVIOUS
  <2>1. CASE Next
      BY <2>1, MainRefines, EnqueueRefines, WorkerRefines DEF Next
  <2>2. CASE UNCHANGED vars
    <3>1. \A j \in Jobs : JobStatus(j)' = JobStatus(j)
        BY <2>2 DEF vars, JobStatus, Outstanding, Queued, workerVars, counters
    <3> QED
        BY <2>2, <3>1, NoJobMoves DEF vars, lifecycleVars
  <2> QED
      BY <2>1, <2>2
<1> QED
    BY <1>1, <1>2, Invariance, PTL DEF Spec, LedgerSafety

-----------------------------------------------------------------------------
(* Which records are lost                                                  *)

\* A job that has left the channel and the worker without being reported was given
\* up in a back-off.
LossInv ==
    \A j \in Jobs :
        caller[j] = "done" /\ ~Outstanding(j) /\ ~Settled(j) => GivenUp(j)

LEMMA NewLoss ==
    ASSUME IInv, LossInv, NEW j \in Jobs,
           caller'[j] = "done" => caller[j] = "done",
           Outstanding(j) => Outstanding(j)' \/ Settled(j)',
           Settled(j) => Settled(j)',
           ~Outstanding(j) => failures'[j] = failures[j]
    PROVE  caller'[j] = "done" /\ ~Outstanding(j)' /\ ~Settled(j)' => GivenUp(j)'
BY DEF LossInv, GivenUp

LEMMA LossStep ==
    ASSUME IInv, LossInv, Next \/ UNCHANGED vars
    PROVE  LossInv'
<1> SUFFICES ASSUME NEW j \in Jobs
             PROVE  caller'[j] = "done" /\ ~Outstanding(j)' /\ ~Settled(j)' => GivenUp(j)'
    BY DEF LossInv
<1> USE TelemetryAssumption
<1>1. CASE UNCHANGED << caller, queue, current, counters >>
    BY <1>1, NewLoss DEF Outstanding, Queued, Settled, counters
<1>2. ASSUME NEW k \in Jobs, Check(k)
      PROVE  caller'[j] = "done" /\ ~Outstanding(j)' /\ ~Settled(j)' => GivenUp(j)'
  <2>1. CheckEffect(k) /\ failures' = failures
      BY <1>2, CheckHasEffect DEF Check
  <2>2. CASE j = k
      BY <2>1, <2>2 DEF CheckEffect, Settled
  <2>3. CASE j # k
      BY <2>1, <2>3, NewLoss DEF CheckEffect, Outstanding
  <2> QED
      BY <2>2, <2>3
<1>3. ASSUME NEW k \in Jobs, Send(k)
      PROVE  caller'[j] = "done" /\ ~Outstanding(j)' /\ ~Settled(j)' => GivenUp(j)'
  <2>1. SendEffect(k) /\ failures' = failures
      BY <1>3, SendHasEffect DEF Send
  <2>2. CASE j = k
      BY <2>1, <2>2 DEF SendEffect, Settled, Outstanding
  <2>3. CASE j # k
      BY <2>1, <2>3, NewLoss DEF SendEffect, Outstanding
  <2> QED
      BY <2>2, <2>3
<1>4. CASE Receive
  <2>1. ReceiveEffect
      BY <1>4, ReceiveHasEffect
  <2> QED
      BY <2>1, NewLoss DEF ReceiveEffect, Settled
<1>5. CASE WriteAcked
  <2>1. WriteAckedEffect
      BY <1>5, WriteAckedHasEffect
  <2>2. CASE j = current
      BY <2>1, <2>2 DEF WriteAckedEffect, Settled
  <2>3. CASE j # current
      BY <2>1, <2>3, NewLoss DEF WriteAckedEffect, Settled, Outstanding
  <2> QED
      BY <2>2, <2>3
<1>6. CASE WriteFails
  <2>1. WriteFailsEffect
      BY <1>6, WriteFailsHasEffect
  <2>2. CASE j = current
      BY <2>1, <2>2 DEF WriteFailsEffect, Settled, Outstanding
  <2>3. CASE j # current
      BY <2>1, <2>3, NewLoss DEF WriteFailsEffect, Settled, Outstanding
  <2> QED
      BY <2>2, <2>3
<1>7. CASE BackoffCancelled
  <2>1. /\ UNCHANGED << caller, queue, acked, failures, dropped >> /\ current' = NoJob
        /\ worker = "backoff" /\ current \in Jobs
      BY <1>7 DEF BackoffCancelled, BackToSelect, counters, IInv, TypeOK, WorkerInv
  <2>2. CASE j = current
    <3>1. failures[j] \in 1 .. MaxAttempts - 1
        BY <2>1, <2>2 DEF IInv, WorkerInv
    <3> QED
        BY <2>1, <3>1 DEF GivenUp
  <2>3. CASE j # current
      BY <2>1, <2>3, NewLoss DEF Settled, Outstanding, Queued
  <2> QED
      BY <2>2, <2>3
<1>8. CASE Start \/ StopCancel \/ StopStep \/ ProcessEnds \/ BeginDrain \/ DrainEnds
           \/ DrainDeadline \/ BackoffElapsed \/ UNCHANGED vars
  <2>1. UNCHANGED << caller, queue, current, counters >>
      BY <1>8 DEF Start, StopCancel, StopStep, StopClean, StopTimeout, ProcessEnds, BeginDrain,
                  DrainEnds, DrainDeadline, BackoffElapsed, vars, workerVars, counters
  <2> QED
      BY <1>1, <2>1
<1> QED
    BY <1>2, <1>3, <1>4, <1>5, <1>6, <1>7, <1>8 DEF Next, Enqueue, WorkerStep

\* Of the records that were handed over, only those are neither written nor counted
\* as dropped that were given up in a back-off, after an error that was counted, or
\* left in the channel by the deadline or by their race with Stop: what the run
\* recorder_loss_counted shows is all that can happen (recorder.go:123-145, 179-184).
THEOREM LossesExplained == Spec => []LossIsExplained
<1>1. Init => LossInv
    BY DEF Init, LossInv
<1>2. IInv /\ LossInv /\ [Next]_vars => LossInv'
    BY LossStep
<1>3. IInv /\ LossInv => LossIsExplained
  <2> SUFFICES ASSUME IInv, LossInv, NEW j \in Jobs,
                      worker = "exited", caller[j] = "done", ~Settled(j)
               PROVE  GivenUp(j) \/ LeftOver(j)
      BY DEF LossIsExplained
  <2>1. CASE j \in Queued
      BY <2>1 DEF IInv, CleanDrainLeavesOnlyRacers, LeftOver
  <2>2. CASE j \notin Queued
    <3>1. ~Outstanding(j)
        BY <2>2, TelemetryAssumption DEF Outstanding, IInv, WorkerInv
    <3> QED
        BY <3>1 DEF LossInv
  <2> QED
      BY <2>1, <2>2
<1> QED
    BY <1>1, <1>2, <1>3, Invariance, PTL DEF Spec
=============================================================================

----------------------------- MODULE Telemetry ------------------------------
(***************************************************************************)
(* shared/telemetry/recorder.go: request handlers hand usage and           *)
(* request-log records to a bounded channel without ever blocking; one     *)
(* worker goroutine writes them to Postgres with retries; Stop cancels the *)
(* worker, which drains what is left until a deadline, and waits for it    *)
(* until a timeout of its own.                                             *)
(*                                                                         *)
(* A job is handed over by one call of RecordUsage or RecordRequestLog, so *)
(* a job also names the goroutine that enqueues it.  Which of the two      *)
(* tables a job goes to only selects a metric label and is left out.       *)
(* Timers (drain deadline, stop timeout, back-off, write timeout) may fire *)
(* at any moment.                                                          *)
(***************************************************************************)
EXTENDS Naturals, Sequences, FiniteSets

CONSTANTS
    Jobs,           \* the records handed to the recorder
    NoJob,          \* the worker holds no record
    BufferSize      \* capacity of the channel

ASSUME TelemetryAssumption ==
    /\ NoJob \notin Jobs
    /\ BufferSize \in Nat \ {0}

MaxAttempts == 3

VARIABLES
    up,         \* the gateway process runs
    lifecycle,  \* r.ctx: nil ("created"), live ("running") or "cancelled"
    stop,       \* the goroutine in Stop
    caller,     \* the goroutine handing over each job
    queue,      \* the channel
    worker,     \* program counter of the worker goroutine
    draining,   \* the worker is inside drain()
    expired,    \* the drain deadline has fired
    current,    \* the job of process()
    attempt,    \* its attempt number
    acked,      \* writes that returned nil, per job
    rows,       \* inserts and increments Postgres committed, per job
    failures,   \* TelemetryWriteFailuresTotal, by job
    dropped,    \* TelemetryDroppedTotal, by job
    racing      \* history: jobs between check and send when Stop cancelled

lifecycleVars == << up, lifecycle, stop, racing >>
workerVars    == << worker, draining, expired, current, attempt >>
counters      == << acked, rows, failures, dropped >>
vars == << lifecycleVars, caller, queue, workerVars, counters >>

Zero == [j \in Jobs |-> 0]
Count(counter, j) == counter' = [counter EXCEPT ![j] = @ + 1]

Init ==
    /\ up = TRUE
    /\ lifecycle = "created"
    /\ stop = "idle"
    /\ racing = {}
    /\ caller = [j \in Jobs |-> "ready"]
    /\ queue = << >>
    /\ worker = "unstarted"
    /\ draining = FALSE
    /\ expired = FALSE
    /\ current = NoJob
    /\ attempt = 0
    /\ acked = Zero
    /\ rows = Zero
    /\ failures = Zero
    /\ dropped = Zero

-----------------------------------------------------------------------------
(* Start and Stop, called by the gateway's main                            *)

Start ==
    /\ lifecycle = "created"
    /\ lifecycle' = "running"
    /\ worker' = "select"
    /\ UNCHANGED << up, stop, racing, caller, queue, draining, expired,
                    current, attempt, counters >>

\* Stop before Start returns at once; that call changes nothing.
StopCancel ==
    /\ lifecycle = "running"
    /\ lifecycle' = "cancelled"
    /\ stop' = "waiting"
    /\ racing' = {j \in Jobs : caller[j] = "checked"}
    /\ UNCHANGED << up, caller, queue, workerVars, counters >>

\* Mutant: Stop does not wait for the worker.
StopCleanAtOnce ==
    /\ stop = "waiting"
    /\ stop' = "clean"
    /\ UNCHANGED << up, lifecycle, racing, caller, queue, workerVars, counters >>

StopClean ==
    /\ stop = "waiting"
    /\ worker = "exited"
    /\ stop' = "clean"
    /\ UNCHANGED << up, lifecycle, racing, caller, queue, workerVars, counters >>

StopTimeout ==
    /\ stop = "waiting"
    /\ stop' = "timedout"
    /\ UNCHANGED << up, lifecycle, racing, caller, queue, workerVars, counters >>

\* main returns after Stop, or the process is killed: every goroutine ends.
ProcessEnds ==
    /\ up' = FALSE
    /\ UNCHANGED << lifecycle, stop, racing, caller, queue, workerVars, counters >>

-----------------------------------------------------------------------------
(* enqueue: the context check and the non-blocking send are two steps      *)

Check(j) ==
    /\ caller[j] = "ready"
    /\ \/ /\ lifecycle = "running"
          /\ caller' = [caller EXCEPT ![j] = "checked"]
          /\ UNCHANGED dropped
       \/ /\ lifecycle # "running"
          /\ caller' = [caller EXCEPT ![j] = "done"]
          /\ Count(dropped, j)
    /\ UNCHANGED << lifecycleVars, queue, workerVars, acked, rows, failures >>

\* Mutant: the send ignores the capacity of the channel.
SendUnbounded(j) ==
    /\ caller[j] = "checked"
    /\ caller' = [caller EXCEPT ![j] = "done"]
    /\ queue' = Append(queue, j)
    /\ UNCHANGED << lifecycleVars, workerVars, counters >>

\* Mutant: the default case does not count.
SendUncounted(j) ==
    /\ caller[j] = "checked"
    /\ caller' = [caller EXCEPT ![j] = "done"]
    /\ queue' = IF Len(queue) < BufferSize THEN Append(queue, j) ELSE queue
    /\ UNCHANGED << lifecycleVars, workerVars, counters >>

Send(j) ==
    /\ caller[j] = "checked"
    /\ caller' = [caller EXCEPT ![j] = "done"]
    /\ \/ /\ Len(queue) < BufferSize
          /\ queue' = Append(queue, j)
          /\ UNCHANGED dropped
       \/ /\ Len(queue) = BufferSize
          /\ Count(dropped, j)
          /\ UNCHANGED queue
    /\ UNCHANGED << lifecycleVars, workerVars, acked, rows, failures >>

-----------------------------------------------------------------------------
(* worker and drain: both select on the channel                            *)

Receive ==
    /\ worker = "select"
    /\ queue # << >>
    /\ current' = Head(queue)
    /\ queue' = Tail(queue)
    /\ attempt' = 1
    /\ worker' = "writing"
    /\ UNCHANGED << lifecycleVars, caller, draining, expired, counters >>

\* Mutant: the worker looks at its context only when a job comes.
BeginDrainOnJob ==
    /\ worker = "select"
    /\ ~draining
    /\ lifecycle = "cancelled"
    /\ queue # << >>
    /\ draining' = TRUE
    /\ UNCHANGED << lifecycleVars, caller, queue, worker, expired, current,
                    attempt, counters >>

BeginDrain ==
    /\ worker = "select"
    /\ ~draining
    /\ lifecycle = "cancelled"
    /\ draining' = TRUE
    /\ UNCHANGED << lifecycleVars, caller, queue, worker, expired, current,
                    attempt, counters >>

DrainDeadline ==
    /\ draining
    /\ ~expired
    /\ expired' = TRUE
    /\ UNCHANGED << lifecycleVars, caller, queue, worker, draining, current,
                    attempt, counters >>

\* Mutant: drain does not look at the length of the channel.
DrainEndsEarly ==
    /\ worker = "select"
    /\ draining
    /\ worker' = "exited"
    /\ UNCHANGED << lifecycleVars, caller, queue, draining, expired, current,
                    attempt, counters >>

\* The deadline case of drain's select, and its default case on an empty
\* channel (a job that arrives before the length test is received later).
DrainEnds ==
    /\ worker = "select"
    /\ draining
    /\ expired \/ queue = << >>
    /\ worker' = "exited"
    /\ UNCHANGED << lifecycleVars, caller, queue, draining, expired, current,
                    attempt, counters >>

-----------------------------------------------------------------------------
(* process: up to three attempts to write one job                          *)

BackToSelect ==
    /\ worker' = "select"
    /\ current' = NoJob
    /\ attempt' = 0

WriteAcked ==
    /\ worker = "writing"
    /\ BackToSelect
    /\ Count(acked, current)
    /\ Count(rows, current)
    /\ UNCHANGED << lifecycleVars, caller, queue, draining, expired, failures,
                    dropped >>

\* Mutant: every failed attempt counts as a drop.
WriteFailsDropsEach ==
    /\ worker = "writing"
    /\ Count(failures, current)
    /\ Count(dropped, current)
    /\ Count(rows, current) \/ UNCHANGED rows
    /\ \/ /\ attempt < MaxAttempts
          /\ worker' = "backoff"
          /\ UNCHANGED << current, attempt >>
       \/ /\ attempt = MaxAttempts
          /\ BackToSelect
    /\ UNCHANGED << lifecycleVars, caller, queue, draining, expired, acked >>

\* The write returns an error.  A timeout or a lost connection may hit after
\* Postgres committed, so the row may be there all the same.
WriteFails ==
    /\ worker = "writing"
    /\ Count(failures, current)
    /\ Count(rows, current) \/ UNCHANGED rows
    /\ \/ /\ attempt < MaxAttempts
          /\ worker' = "backoff"
          /\ UNCHANGED << current, attempt, dropped >>
       \/ /\ attempt = MaxAttempts
          /\ BackToSelect
          /\ Count(dropped, current)
    /\ UNCHANGED << lifecycleVars, caller, queue, draining, expired, acked >>

BackoffElapsed ==
    /\ worker = "backoff"
    /\ worker' = "writing"
    /\ attempt' = attempt + 1
    /\ UNCHANGED << lifecycleVars, caller, queue, draining, expired, current,
                    counters >>

\* Mutant: process gives up at the first error, without a count.
BackoffGivesUp ==
    /\ worker = "backoff"
    /\ BackToSelect
    /\ UNCHANGED << lifecycleVars, caller, queue, draining, expired, counters >>

\* The context is done: process returns, and no counter records the job.
BackoffCancelled ==
    /\ worker = "backoff"
    /\ lifecycle = "cancelled"
    /\ BackToSelect
    /\ UNCHANGED << lifecycleVars, caller, queue, draining, expired, counters >>

-----------------------------------------------------------------------------
Enqueue(j) == Check(j) \/ Send(j)

WorkerStep ==
    \/ Receive \/ BeginDrain \/ DrainEnds
    \/ WriteAcked \/ WriteFails
    \/ BackoffElapsed \/ BackoffCancelled

StopStep == StopClean \/ StopTimeout

Next ==
    /\ up
    /\ \/ Start \/ StopCancel \/ StopStep \/ ProcessEnds
       \/ \E j \in Jobs : Enqueue(j)
       \/ WorkerStep \/ DrainDeadline

\* The scheduler runs the worker whenever it can run, and Stop's timer fires.
Spec ==
    /\ Init /\ [][Next]_vars
    /\ WF_vars(up /\ WorkerStep)
    /\ WF_vars(up /\ StopStep)

-----------------------------------------------------------------------------
(* Properties                                                              *)

Queued == {queue[i] : i \in DOMAIN queue}
Outstanding(j) == j \in Queued \/ j = current
Settled(j) == acked[j] > 0 \/ dropped[j] > 0

\* Type invariant; the channel never holds more than BufferSize jobs.
TypeOK ==
    /\ up \in BOOLEAN
    /\ lifecycle \in {"created", "running", "cancelled"}
    /\ stop \in {"idle", "waiting", "clean", "timedout"}
    /\ racing \subseteq Jobs
    /\ caller \in [Jobs -> {"ready", "checked", "done"}]
    /\ queue \in Seq(Jobs) /\ Len(queue) \leq BufferSize
    /\ worker \in {"unstarted", "select", "writing", "backoff", "exited"}
    /\ draining \in BOOLEAN
    /\ expired \in BOOLEAN
    /\ current \in Jobs \cup {NoJob}
    /\ attempt \in 0 .. MaxAttempts
    /\ acked \in [Jobs -> Nat]
    /\ rows \in [Jobs -> Nat]
    /\ failures \in [Jobs -> Nat]
    /\ dropped \in [Jobs -> Nat]

\* enqueue and process: whatever the order of hand-over, overflow, retries and
\* shutdown, a job is reported once at most, either as written or as dropped,
\* and not before it has left the channel and the worker.
ReportedOnce ==
    \A j \in Jobs :
        /\ acked[j] + dropped[j] \leq 1
        /\ Outstanding(j) => ~Settled(j)

\* Until Stop is called, a job that was handed over is in the channel, with
\* the worker, acknowledged by Postgres, or counted as dropped: none vanishes.
NoSilentLossBeforeStop ==
    \A j \in Jobs :
        caller[j] = "done" /\ lifecycle # "cancelled"
            => Outstanding(j) \/ Settled(j)

\* process: Postgres sees one job three times at most, and more than one row
\* of it only after as many failed attempts.
BoundedAttempts ==
    \A j \in Jobs :
        /\ acked[j] + failures[j] \leq MaxAttempts
        /\ rows[j] \leq acked[j] + failures[j]

\* drain: when the worker ends before the drain deadline, the only jobs left
\* behind in the channel are those whose handler was between the context check
\* and the send when Stop cancelled the context.
CleanDrainLeavesOnlyRacers ==
    worker = "exited" /\ ~expired => Queued \subseteq racing

\* process, drain: a job that was handed over and is never reported was given up
\* in a back-off, after one or two errors that were counted, or was left in the
\* channel, by the drain deadline or by its race with Stop.  There is no other way
\* to lose one.
GivenUp(j)  == failures[j] \in 1 .. MaxAttempts - 1
LeftOver(j) == j \in Queued /\ (expired \/ j \in racing)

LossIsExplained ==
    \A j \in Jobs :
        worker = "exited" /\ caller[j] = "done" /\ ~Settled(j) => GivenUp(j) \/ LeftOver(j)

\* Stop: once it has returned because the worker ended, the recorder writes no
\* more, so main may close the database pool under it.
NoWriteAfterCleanStop ==
    [][stop = "clean" => UNCHANGED << rows, failures >>]_vars

\* Stop, worker, drain: after cancellation the worker ends (unless the process
\* does), however many handlers are still handing jobs over.
WorkerEnds == lifecycle = "cancelled" ~> worker = "exited" \/ ~up

\* The inductive invariant behind the safety properties: where a job can be,
\* and what has been counted for it there.
Untouched(j) == acked[j] = 0 /\ rows[j] = 0 /\ failures[j] = 0 /\ dropped[j] = 0

QueueInv ==
    /\ \A i, k \in DOMAIN queue : queue[i] = queue[k] => i = k
    /\ \A j \in Queued : caller[j] = "done" /\ Untouched(j) /\ j # current

CallerInv == \A j \in Jobs : caller[j] # "done" => Untouched(j)

WorkerInv ==
    /\ current = NoJob <=> worker \notin {"writing", "backoff"}
    /\ worker = "writing" => attempt \in 1 .. MaxAttempts
    /\ worker = "backoff" => attempt \in 1 .. MaxAttempts - 1
    /\ current # NoJob =>
        /\ caller[current] = "done"
        /\ ~Settled(current)
        /\ failures[current] = IF worker = "writing" THEN attempt - 1 ELSE attempt

StopInv ==
    /\ lifecycle = "created" <=> worker = "unstarted"
    /\ worker = "exited" => draining
    /\ draining => lifecycle = "cancelled"
    /\ lifecycle = "cancelled" => \A j \in Jobs : caller[j] = "checked" => j \in racing
    /\ stop = "clean" => worker = "exited"

IInv ==
    /\ TypeOK /\ QueueInv /\ CallerInv /\ WorkerInv /\ StopInv
    /\ ReportedOnce /\ NoSilentLossBeforeStop /\ BoundedAttempts
    /\ CleanDrainLeavesOnlyRacers

\* The bookkeeping the recorder implements.
JobStatus(j) ==
    IF caller[j] # "done" THEN "new"
    ELSE IF Outstanding(j) THEN "pending"
    ELSE IF acked[j] > 0 THEN "stored"
    ELSE IF dropped[j] > 0 THEN "dropped"
    ELSE "lost"

L == INSTANCE Ledger
        WITH status <- [j \in Jobs |-> JobStatus(j)],
             closed <- lifecycle = "cancelled" \/ ~up

\* Every run of the recorder is a run of the ledger, its fairness included: an
\* accepted job is settled exactly once, and while the recorder is open it is
\* settled eventually.
LedgerSpec == L!Spec

\* metrics.go: "Total telemetry records dropped after retries or queue
\* overflow."; overview.md: "records are dropped (with Prometheus counters)".
\* Once a clean Stop has returned, a job that was handed over is written or
\* counted.  (Violated.)
EveryLossCounted ==
    \A j \in Jobs : stop = "clean" /\ caller[j] = "done" => Settled(j)
=============================================================================

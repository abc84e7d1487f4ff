---------------------------- MODULE StatsRollup ----------------------------
(***************************************************************************)
(* shared/statsrollup/refresher.go, shared/storage/postgres/stats_store.go *)
(* and the end of gateway/main.go: what becomes of a log record from the   *)
(* hand of a gateway to the summaries the admin API answers with.          *)
(*                                                                         *)
(* Every gateway has a recorder, here reduced to what Ledger promises, and *)
(* a goroutine that refreshes the view of the log, first CONCURRENTLY and, *)
(* if that fails, as on a view that was never filled, without.  Both are   *)
(* stopped by the deferred calls of main, one after the other, before the  *)
(* pool is closed.  A summary is read from the view, or from the log when  *)
(* the view gives an error, in several statements.                         *)
(*                                                                         *)
(* Rows leave the log too: those of a tenant that is deleted, by ON DELETE *)
(* CASCADE, and old ones by the retention that the documentation asks for. *)
(***************************************************************************)
EXTENDS Integers, FiniteSets

CONSTANTS
    Gateways,       \* gateway processes, one for each start of one
    Rows,           \* records of the log, one for each request
    Queries,        \* callers of GetStatsSummary
    Ranges,         \* lengths of the ranges that are asked for
    Minute, Phase,  \* the length of a bucket of the view, how much of one is
                    \* over when the clock starts
    Recent,         \* "5 minutes": ranges that are shorter are not read from
                    \* the view
    CommitDelay,    \* environment: the longest time from the beginning of
                    \* an INSERT, which stamps its row, to its commit
    MaxOrphans,     \* bound: statements whose client has gone, at a time
    Horizon         \* bound: the clock stops here

ASSUME StatsRollupAssumption ==
    /\ Ranges \subseteq Nat
    /\ Minute \in Nat \ {0} /\ Phase \in Nat
    /\ Recent \in Nat
    /\ CommitDelay \in Nat
    /\ MaxOrphans \in Nat
    /\ Horizon \in Nat

VARIABLES
    now,                    \* the clock of Postgres and the admin API
    queue, gone,            \* records with a recorder, records given up
    createdAt,              \* request_logs: created_at, or NotStored
    deletedAt,              \* history: when the row was deleted, or Never
    populated, view, asOf,  \* request_logs_rollup_1m: ever filled, the rows
                            \* it counts, the time of the snapshot it shows
    main,                   \* main of each gateway
    loop, snap,             \* its refresher: program counter, the snapshot
                            \* of the statement that runs
    orphans,                \* snapshots of statements whose client has gone
    pc, span, askedAt,      \* each query: where it is, what was asked, when
    source, totals,         \* what it reads, the rows it has counted
    readAsOf                \* history: asOf when it counted them

logVars     == << queue, gone, createdAt, deletedAt >>
viewVars    == << populated, view, asOf >>
gatewayVars == << main, loop, snap, orphans >>
queryVars   == << pc, span, askedAt, source, totals, readAsOf >>
vars == << now, logVars, viewVars, gatewayVars, queryVars >>

Time == 0 .. Horizon
NotStored == -1
Never == -1

\* The rows whose INSERT has committed, and those that are in the log.
Written == {r \in Rows : createdAt[r] # NotStored}
Stored == {r \in Written : deletedAt[r] = Never}
Deleted == Written \ Stored
Accepted == (UNION {queue[g] : g \in Gateways}) \union Written \union gone

\* No statement runs.
Nothing == [rows |-> {}, at |-> 0]

Init ==
    /\ now = 0
    /\ queue = [g \in Gateways |-> {}]
    /\ gone = {}
    /\ createdAt = [r \in Rows |-> NotStored]
    /\ deletedAt = [r \in Rows |-> Never]
    /\ populated = FALSE /\ view = {} /\ asOf = 0
    /\ main = [g \in Gateways |-> "up"]
    /\ loop = [g \in Gateways |-> "starting"]
    /\ snap = [g \in Gateways |-> Nothing]
    /\ orphans = {}
    /\ pc = [q \in Queries |-> "idle"]
    /\ span = [q \in Queries |-> 0]
    /\ askedAt = [q \in Queries |-> 0]
    /\ source = [q \in Queries |-> "raw"]
    /\ totals = [q \in Queries |-> {}]
    /\ readAsOf = [q \in Queries |-> 0]

-----------------------------------------------------------------------------
(* The recorder of a gateway                                               *)

\* A handler hands a record over; after Shutdown has given up some still run.
Accept(g, r) ==
    /\ main[g] \in {"up", "stopping"}
    /\ r \notin Accepted
    /\ queue' = [queue EXCEPT ![g] = @ \union {r}]
    /\ UNCHANGED << now, gone, createdAt, deletedAt, viewVars, gatewayVars, queryVars >>

\* Mutant: the row is stamped by the clock of a gateway, which may be fast.
WriteStampsAhead(g, r) ==
    /\ main[g] # "down"
    /\ r \in queue[g]
    /\ queue' = [queue EXCEPT ![g] = @ \ {r}]
    /\ \E t \in Time :
          /\ t \leq now + 1 /\ now \leq t + CommitDelay
          /\ createdAt' = [createdAt EXCEPT ![r] = t]
    /\ UNCHANGED << now, gone, deletedAt, viewVars, gatewayVars, queryVars >>

\* The INSERT commits; its row has the time at which it began.
Write(g, r) ==
    /\ main[g] # "down"
    /\ r \in queue[g]
    /\ queue' = [queue EXCEPT ![g] = @ \ {r}]
    /\ \E t \in Time :
          /\ t \leq now /\ now \leq t + CommitDelay
          /\ createdAt' = [createdAt EXCEPT ![r] = t]
    /\ UNCHANGED << now, gone, deletedAt, viewVars, gatewayVars, queryVars >>

\* Three attempts have failed.
Drop(g, r) ==
    /\ main[g] # "down"
    /\ r \in queue[g]
    /\ queue' = [queue EXCEPT ![g] = @ \ {r}]
    /\ gone' = gone \union {r}
    /\ UNCHANGED << now, createdAt, deletedAt, viewVars, gatewayVars, queryVars >>

\* One statement deletes rows: DeleteTenant with its cascade, or the retention.
DeleteRows ==
    /\ \E R \in SUBSET Stored :
          /\ R # {}
          /\ deletedAt' = [r \in Rows |-> IF r \in R THEN now ELSE deletedAt[r]]
    /\ UNCHANGED << now, queue, gone, createdAt, viewVars, gatewayVars, queryVars >>

-----------------------------------------------------------------------------
(* The refresher                                                           *)

\* A REFRESH takes its snapshot when it begins, and waits for the lock of the
\* view before it fills it.
Begins(g, statement) ==
    /\ loop' = [loop EXCEPT ![g] = statement]
    /\ snap' = [snap EXCEPT ![g] = [rows |-> Stored, at |-> now]]

Ends(g, next) ==
    /\ loop' = [loop EXCEPT ![g] = next]
    /\ snap' = [snap EXCEPT ![g] = Nothing]

Show(snapshot) ==
    /\ populated' = TRUE
    /\ view' = snapshot.rows
    /\ asOf' = snapshot.at

\* At once after Start, then whenever the ticker fires; the select may choose
\* the ticker although the context is done.
RefreshBegins(g) ==
    /\ loop[g] \in {"starting", "select"}
    /\ Begins(g, "concurrently")
    /\ UNCHANGED << now, logVars, viewVars, main, orphans, queryVars >>

\* Only a view that has been filled can be refreshed CONCURRENTLY.
Executable(g) == loop[g] = "plain" \/ (loop[g] = "concurrently" /\ populated)

RefreshSucceeds(g) ==
    /\ Executable(g)
    /\ Show(snap[g])
    /\ Ends(g, "select")
    /\ UNCHANGED << now, logVars, main, orphans, queryVars >>

\* An error, or the timeout of the context: the database may go on with the
\* statement it was sent.
Abandons(g) ==
    \/ UNCHANGED orphans
    \/ /\ Executable(g) /\ Cardinality(orphans) < MaxOrphans
       /\ orphans' = orphans \union {snap[g]}

\* Mutant: a view that was never filled is not filled.
NoFallback(g) ==
    /\ loop[g] = "concurrently"
    /\ Abandons(g)
    /\ Ends(g, "select")
    /\ UNCHANGED << now, logVars, viewVars, main, queryVars >>

FallsBack(g) ==
    /\ loop[g] = "concurrently"
    /\ Abandons(g)
    /\ Begins(g, "plain")
    /\ UNCHANGED << now, logVars, viewVars, main, queryVars >>

\* The error of the second statement; or the timeout of the first, which is
\* that of the second, since they share a context.
RefreshFails(g) ==
    /\ loop[g] \in {"concurrently", "plain"}
    /\ Abandons(g)
    /\ Ends(g, "select")
    /\ UNCHANGED << now, logVars, viewVars, main, queryVars >>

\* Mutant: Stop waits for the loop before it cancels its context.
LoopExitsAfterStop(g) ==
    /\ loop[g] = "select" /\ main[g] = "draining"
    /\ Ends(g, "exited")
    /\ UNCHANGED << now, logVars, viewVars, main, orphans, queryVars >>

\* The select finds the context done.
LoopExits(g) ==
    /\ loop[g] = "select" /\ main[g] = "stopping"
    /\ Ends(g, "exited")
    /\ UNCHANGED << now, logVars, viewVars, main, orphans, queryVars >>

\* The database gets the lock for a statement whose client has gone.
OrphanShows ==
    /\ \E s \in orphans : Show(s) /\ orphans' = orphans \ {s}
    /\ UNCHANGED << now, logVars, main, loop, snap, queryVars >>

-----------------------------------------------------------------------------
(* The end of main: Shutdown, then the deferred calls                      *)

Lost(g) ==
    /\ gone' = gone \union queue[g]
    /\ queue' = [queue EXCEPT ![g] = {}]

\* The signal, Shutdown, manager.Stop; Stop of the refresher cancels its loop.
Signal(g) ==
    /\ main[g] = "up"
    /\ main' = [main EXCEPT ![g] = "stopping"]
    /\ UNCHANGED << now, logVars, viewVars, loop, snap, orphans, queryVars >>

\* Stop of the refresher returns, that of the recorder is called.
RefresherStops(g) ==
    /\ main[g] = "stopping" /\ loop[g] = "exited"
    /\ main' = [main EXCEPT ![g] = "draining"]
    /\ UNCHANGED << now, logVars, viewVars, loop, snap, orphans, queryVars >>

\* Stop of the recorder returns, with its queue empty or in time; the pool is
\* closed.
RecorderStops(g) ==
    /\ main[g] = "draining"
    /\ main' = [main EXCEPT ![g] = "down"]
    /\ Lost(g)
    /\ UNCHANGED << now, createdAt, deletedAt, viewVars, loop, snap, orphans, queryVars >>

\* The process is killed, at any time.
Kill(g) ==
    /\ main[g] # "down"
    /\ main' = [main EXCEPT ![g] = "down"]
    /\ Abandons(g)
    /\ Ends(g, "exited")
    /\ Lost(g)
    /\ UNCHANGED << now, createdAt, deletedAt, viewVars, queryVars >>

-----------------------------------------------------------------------------
(* GetStatsSummary                                                         *)

From(q) == askedAt[q] - span[q]
Bucket(t) == t - ((t + Phase) % Minute)

\* Mutant: the first bucket is the one the range begins in.
CountsFirstBucket(q) ==
    IF source[q] = "raw" THEN {r \in Stored : createdAt[r] >= From(q)}
                         ELSE {r \in view : createdAt[r] >= Bucket(From(q))}

\* WHERE created_at >= from, or WHERE bucket >= from.
Counts(q) ==
    IF source[q] = "raw" THEN {r \in Stored : createdAt[r] >= From(q)}
                         ELSE {r \in view : Bucket(createdAt[r]) >= From(q)}

\* Short ranges are read from the log at once.
FirstSource(length) == IF length > Recent THEN "view" ELSE "raw"

\* An administrator asks for a range that ends now.
Ask(q, length) ==
    /\ pc[q] = "idle"
    /\ pc' = [pc EXCEPT ![q] = "totals"]
    /\ span' = [span EXCEPT ![q] = length]
    /\ askedAt' = [askedAt EXCEPT ![q] = now]
    /\ source' = [source EXCEPT ![q] = FirstSource(length)]
    /\ UNCHANGED << now, logVars, viewVars, gatewayVars, totals, readAsOf >>

\* The query returns, with the summary or an error, and its locals are gone.
Return(q) ==
    /\ pc' = [pc EXCEPT ![q] = "idle"]
    /\ totals' = [totals EXCEPT ![q] = {}]
    /\ readAsOf' = [readAsOf EXCEPT ![q] = 0]
    /\ span' = [span EXCEPT ![q] = 0]
    /\ askedAt' = [askedAt EXCEPT ![q] = 0]
    /\ source' = [source EXCEPT ![q] = "raw"]

\* A view that was never filled cannot be read.
Readable(q) == source[q] = "raw" \/ populated

CountTotals(q) ==
    /\ pc[q] = "totals" /\ Readable(q)
    /\ pc' = [pc EXCEPT ![q] = "lists"]
    /\ totals' = [totals EXCEPT ![q] = Counts(q)]
    /\ readAsOf' = [readAsOf EXCEPT ![q] = IF source[q] = "view" THEN asOf ELSE 0]
    /\ UNCHANGED << now, logVars, viewVars, gatewayVars, span, askedAt, source >>

\* The four lists, each a statement on the same source, and the answer.
CountLists(q) ==
    /\ pc[q] = "lists"
    /\ Return(q)
    /\ UNCHANGED << now, logVars, viewVars, gatewayVars >>

\* A statement fails: the view's summary is given up for one from the log.
StatementFails(q) ==
    /\ pc[q] \in {"totals", "lists"}
    /\ \/ /\ source[q] = "view"
          /\ source' = [source EXCEPT ![q] = "raw"]
          /\ pc' = [pc EXCEPT ![q] = "totals"]
          /\ totals' = [totals EXCEPT ![q] = {}]
          /\ readAsOf' = [readAsOf EXCEPT ![q] = 0]
          /\ UNCHANGED << span, askedAt >>
       \/ /\ source[q] = "raw"
          /\ Return(q)
    /\ UNCHANGED << now, logVars, viewVars, gatewayVars >>

-----------------------------------------------------------------------------
Tick ==
    /\ now < Horizon
    /\ now' = now + 1
    /\ UNCHANGED << logVars, viewVars, gatewayVars, queryVars >>

Next ==
    \/ \E g \in Gateways, r \in Rows : Accept(g, r) \/ Write(g, r) \/ Drop(g, r)
    \/ \E g \in Gateways :
          \/ RefreshBegins(g) \/ RefreshSucceeds(g) \/ FallsBack(g) \/ RefreshFails(g)
          \/ LoopExits(g) \/ Signal(g) \/ RefresherStops(g) \/ RecorderStops(g) \/ Kill(g)
    \/ DeleteRows \/ OrphanShows
    \/ \E q \in Queries :
          \/ CountTotals(q) \/ CountLists(q) \/ StatementFails(q)
          \/ \E length \in Ranges : Ask(q, length)
    \/ Tick

StopStep(g) == RefresherStops(g) \/ RecorderStops(g)

\* The goroutines run, every minute a refresh begins; the database answers again
\* and again, and a select with the context done chooses it again and again.
Fairness ==
    \A g \in Gateways :
        /\ WF_vars(RefreshBegins(g) \/ RefreshFails(g) \/ StopStep(g))
        /\ SF_vars(RefreshSucceeds(g))
        /\ SF_vars(FallsBack(g))
        /\ SF_vars(LoopExits(g))

Spec == Init /\ [][Next]_vars /\ Fairness

-----------------------------------------------------------------------------
(* Properties                                                              *)

Snapshot == [rows : SUBSET Rows, at : Time]

\* Type invariant; rows are stamped by one clock, that of the database.
TypeOK ==
    /\ now \in Time
    /\ queue \in [Gateways -> SUBSET Rows] /\ gone \subseteq Rows
    /\ createdAt \in [Rows -> Time \union {NotStored}]
    /\ deletedAt \in [Rows -> Time \union {Never}]
    /\ \A r \in Rows : createdAt[r] \leq now /\ deletedAt[r] \leq now
    /\ populated \in BOOLEAN /\ view \subseteq Rows /\ asOf \in Time
    /\ main \in [Gateways -> {"up", "stopping", "draining", "down"}]
    /\ loop \in [Gateways -> {"starting", "select", "concurrently", "plain", "exited"}]
    /\ snap \in [Gateways -> Snapshot] /\ orphans \subseteq Snapshot
    /\ pc \in [Queries -> {"idle", "totals", "lists"}]
    /\ span \in [Queries -> Ranges \union {0}]
    /\ askedAt \in [Queries -> Time]
    /\ source \in [Queries -> {"view", "raw"}]
    /\ totals \in [Queries -> SUBSET Rows]
    /\ readAsOf \in [Queries -> Time]

InRange(q, r) == r \in Written /\ createdAt[r] >= From(q)

\* The time of the state of the log that a summary was counted from, at least.
SeenAt(q) == IF source[q] = "view" THEN readAsOf[q] ELSE askedAt[q]

\* GetStatsSummary: what it counts is in the range, and had not been deleted when
\* the refresh that filled the view began, or, if it reads the log, when it was
\* asked for.  A row of the range that was there then and still is, is missing only
\* from the view, and only because its minute began before the range or because its
\* INSERT had not ended when that refresh began.  So it is whatever refreshes
\* fail, are overtaken or run on after their gateway, and wherever the read of the
\* view breaks off (stats_store.go:15-22, 48, 210; refresher.go:70-84).
SummaryIsExplained ==
    \A q \in Queries : pc[q] = "lists" =>
        /\ \A r \in totals[q] :
              InRange(q, r) /\ (deletedAt[r] # Never => SeenAt(q) \leq deletedAt[r])
        /\ \A r \in Stored \ totals[q] :
              InRange(q, r) /\ createdAt[r] + CommitDelay < askedAt[q] =>
                 /\ source[q] = "view"
                 /\ \/ Bucket(createdAt[r]) < From(q)
                    \/ createdAt[r] + CommitDelay >= readAsOf[q]

\* The refresher: while a gateway is up the view is in the end what the log is, and
\* stays so, since each row is written and deleted once.  The view begins without
\* data, a late statement may put back an older state of it, and rows are deleted
\* that it shows (refresher.go:50-61, 69-84).
ViewFollowsLog == <>[](view = Stored \/ \A g \in Gateways : main[g] # "up")

\* main: after the signal the gateway ends, although Stop of the refresher waits
\* for a refresh that it does not cancel (refresher.go:40-45, main.go:149-156).
ShutdownEnds == \A g \in Gateways : main[g] = "stopping" ~> main[g] = "down"

\* What a statement may still put into the view, and what the view shows.
Snapshots ==
    {snap[g] : g \in Gateways} \union orphans \union {[rows |-> view, at |-> asOf]}

\* The fallback of refresh, the refreshes of other gateways and a statement whose
\* client has gone: a row that is in a snapshot of the log and not in a later one was
\* deleted between the two, and so was not lost, whoever took them and however late
\* they are shown (refresher.go:69-84).
SnapshotsAreOrdered ==
    \A s, t \in Snapshots : s.at < t.at =>
        \A r \in s.rows \ t.rows : deletedAt[r] \in s.at .. t.at

\* Nothing in refresh keeps an older snapshot from being shown over a newer one;
\* but that, and the deletion of the row, are the only ways in which a row that was
\* counted is counted no longer (refresher.go:65-84).
RowsLeaveForCause ==
    [][\A r \in view \ view' : asOf' \leq asOf \/ deletedAt[r] # Never]_vars

\* What one refresher that never gives up a statement would promise: no row that is
\* still in the log leaves the view, and the rows that come into it are newer than
\* what it showed, so that none comes back after its deletion (refresher.go:47-84).
ViewGoesForward ==
    [][/\ view \ view' \subseteq Deleted
       /\ \A r \in view' \ view : asOf \leq createdAt[r] + CommitDelay]_vars

=============================================================================

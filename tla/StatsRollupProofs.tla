------------------------- MODULE StatsRollupProofs -------------------------
(***************************************************************************)
(* Proofs about StatsRollup for any number of gateways, rows and queries,  *)
(* any ranges and any buckets, and any deletions from the log: a summary   *)
(* lacks a row only for one of two reasons, and the view a row for one.    *)
(***************************************************************************)
EXTENDS StatsRollup, TLAPS, FiniteSetTheorems

-----------------------------------------------------------------------------
(* The inductive invariant                                                 *)

\* A record is with one recorder at most, and was not written.
QueueInv ==
    \A g \in Gateways :
        /\ queue[g] \intersect Written = {}
        /\ \A h \in Gateways : g # h => queue[g] \intersect queue[h] = {}

\* A snapshot of the log taken at a time has no row that was deleted before, and
\* of the rows that are still there it lacks only those whose INSERT had not ended.
Complete(rows, at, log, del, clock) ==
    /\ at \leq clock
    /\ \A r \in rows : log[r] # NotStored /\ (del[r] # Never => at \leq del[r])
    /\ \A r \in Rows \ rows :
          log[r] # NotStored /\ log[r] + CommitDelay < at => del[r] # Never

SnapInv ==
    /\ \A g \in Gateways : Complete(snap[g].rows, snap[g].at, createdAt, deletedAt, now)
    /\ \A s \in orphans : Complete(s.rows, s.at, createdAt, deletedAt, now)
    /\ Complete(view, asOf, createdAt, deletedAt, now)

Explained(q) ==
    /\ askedAt[q] \leq now /\ readAsOf[q] \leq now
    /\ pc[q] = "lists" =>
        /\ \A r \in totals[q] :
              InRange(q, r) /\ (deletedAt[r] # Never => SeenAt(q) \leq deletedAt[r])
        /\ \A r \in Stored \ totals[q] :
              InRange(q, r) /\ createdAt[r] + CommitDelay < askedAt[q] =>
                 /\ source[q] = "view"
                 /\ \/ Bucket(createdAt[r]) < From(q)
                    \/ createdAt[r] + CommitDelay >= readAsOf[q]

QueryInv == \A q \in Queries : Explained(q)

Inv == TypeOK /\ QueueInv /\ SnapInv /\ QueryInv

LEMMA Initial == Init => Inv
<1> SUFFICES ASSUME Init PROVE Inv
    OBVIOUS
<1> USE StatsRollupAssumption DEF Init, NotStored, Never, Nothing
<1>1. TypeOK
  <2>1. 0 \in Time
      BY DEF Time
  <2>2. snap \in [Gateways -> Snapshot] /\ orphans \subseteq Snapshot
      BY <2>1 DEF Snapshot
  <2>3. \A r \in Rows : createdAt[r] \leq now /\ deletedAt[r] \leq now
      OBVIOUS
  <2>4. now \in Time /\ asOf \in Time /\ readAsOf \in [Queries -> Time]
        /\ askedAt \in [Queries -> Time]
      BY <2>1
  <2> QED
      BY <2>2, <2>3, <2>4 DEF TypeOK
<1>2. QueueInv
    BY DEF QueueInv
<1>3. SnapInv
    BY DEF SnapInv, Complete
<1>4. QueryInv
    BY DEF QueryInv, Explained
<1> QED
    BY <1>1, <1>2, <1>3, <1>4 DEF Inv

-----------------------------------------------------------------------------
(* What a step does to the log                                             *)

\* A row that a step stores has ended its INSERT in time; one that it deletes was
\* in the log until now.
LogMoves ==
    /\ now' \in Time /\ now \leq now'
    /\ createdAt' \in [Rows -> Time \union {NotStored}]
    /\ \A r \in Rows : \/ createdAt'[r] = createdAt[r]
                       \/ /\ createdAt[r] = NotStored /\ createdAt'[r] # NotStored
                          /\ now' \leq createdAt'[r] + CommitDelay
    /\ deletedAt' \in [Rows -> Time \union {Never}]
    /\ \A r \in Rows : \/ deletedAt'[r] = deletedAt[r]
                       \/ /\ deletedAt[r] = Never /\ deletedAt'[r] # Never
                          /\ now \leq deletedAt'[r]

LEMMA Bucketed == \A t \in Int : Bucket(t) \in Int /\ Bucket(t) \leq t
    BY StatsRollupAssumption DEF Bucket

LEMMA SnapshotStays ==
    ASSUME TypeOK, LogMoves, NEW rows \in SUBSET Rows, NEW at \in Time,
           Complete(rows, at, createdAt, deletedAt, now)
    PROVE  Complete(rows, at, createdAt', deletedAt', now')
<1> USE StatsRollupAssumption DEF Time, NotStored
<1>1. at \leq now'
    BY DEF Complete, LogMoves, TypeOK
<1>2. ASSUME NEW r \in rows
      PROVE  createdAt'[r] # NotStored /\ (deletedAt'[r] # Never => at \leq deletedAt'[r])
  <2>1. /\ r \in Rows /\ at \leq now /\ createdAt[r] # NotStored
        /\ deletedAt[r] # Never => at \leq deletedAt[r]
      BY DEF Complete
  <2>2. createdAt'[r] # NotStored
      BY <2>1 DEF LogMoves
  <2>3. CASE deletedAt'[r] = deletedAt[r]
      BY <2>1, <2>2, <2>3
  <2>4. CASE deletedAt'[r] # deletedAt[r]
    <3>1. now \leq deletedAt'[r]
        BY <2>1, <2>4 DEF LogMoves
    <3>2. deletedAt'[r] \in Int
        BY <2>1 DEF LogMoves, Never
    <3> QED
        BY <2>1, <2>2, <3>1, <3>2 DEF TypeOK
  <2> QED
      BY <2>3, <2>4
<1>3. ASSUME NEW r \in Rows \ rows, createdAt'[r] # NotStored,
             createdAt'[r] + CommitDelay < at
      PROVE  deletedAt'[r] # Never
  <2>1. createdAt'[r] \in Time
      BY <1>3 DEF LogMoves
  <2>2. createdAt'[r] = createdAt[r]
      BY <1>3, <2>1, <1>1 DEF LogMoves
  <2>3. deletedAt[r] # Never
      BY <1>3, <2>2 DEF Complete
  <2> QED
      BY <2>3 DEF LogMoves
<1> QED
    BY <1>1, <1>2, <1>3 DEF Complete

LEMMA SummaryStays ==
    ASSUME TypeOK, LogMoves, NEW q \in Queries, Explained(q),
           pc'[q] = pc[q], span'[q] = span[q], askedAt'[q] = askedAt[q],
           source'[q] = source[q], totals'[q] = totals[q], readAsOf'[q] = readAsOf[q]
    PROVE  Explained(q)'
<1> USE StatsRollupAssumption DEF Time, NotStored
<1>1. /\ askedAt[q] \in Nat /\ readAsOf[q] \in Nat
      /\ now \in Nat /\ now' \in Nat /\ totals[q] \subseteq Rows
    BY DEF TypeOK, LogMoves
<1>2. askedAt[q] \leq now' /\ readAsOf[q] \leq now'
    BY <1>1 DEF Explained, LogMoves
<1>3. From(q)' = From(q)
    BY DEF From
<1>4. CASE pc[q] = "lists"
  <2>1. ASSUME NEW r \in totals[q]
        PROVE  InRange(q, r)' /\ (deletedAt'[r] # Never => SeenAt(q) \leq deletedAt'[r])
    <3>1. /\ InRange(q, r) /\ r \in Rows
          /\ deletedAt[r] # Never => SeenAt(q) \leq deletedAt[r]
        BY <1>1, <1>4 DEF Explained
    <3>2. createdAt'[r] = createdAt[r]
        BY <3>1 DEF InRange, Written, LogMoves
    <3>3. InRange(q, r)'
        BY <1>3, <3>1, <3>2 DEF InRange, Written
    <3>4. CASE deletedAt'[r] = deletedAt[r]
        BY <3>1, <3>3, <3>4
    <3>5. CASE deletedAt'[r] # deletedAt[r]
      <4>1. now \leq deletedAt'[r] /\ deletedAt'[r] \in Int
          BY <3>1, <3>5 DEF LogMoves, Never
      <4>2. SeenAt(q) \leq now /\ SeenAt(q) \in Nat
          BY <1>1 DEF SeenAt, Explained
      <4> QED
          BY <1>1, <3>3, <4>1, <4>2
    <3> QED
        BY <3>4, <3>5
  <2>2. ASSUME NEW r \in Stored' \ totals[q], InRange(q, r)',
               createdAt'[r] + CommitDelay < askedAt[q]
        PROVE  /\ source[q] = "view"
               /\ \/ Bucket(createdAt'[r]) < From(q)
                  \/ createdAt'[r] + CommitDelay >= readAsOf[q]
    <3>1. r \in Rows /\ createdAt'[r] \in Nat
        BY <2>2 DEF InRange, Stored, Written, LogMoves
    <3>2. createdAt'[r] = createdAt[r]
        BY <1>1, <1>2, <2>2, <3>1 DEF LogMoves
    <3>3. InRange(q, r) /\ r \in Stored
        BY <1>3, <2>2, <3>1, <3>2 DEF InRange, Stored, Written, LogMoves
    <3> QED
        BY <1>4, <2>2, <3>2, <3>3 DEF Explained
  <2>3. SeenAt(q)' = SeenAt(q)
      BY DEF SeenAt
  <2> QED
      BY <1>2, <1>3, <2>1, <2>2, <2>3 DEF Explained, Bucket
<1>5. CASE pc[q] # "lists"
    BY <1>2, <1>5 DEF Explained
<1> QED
    BY <1>4, <1>5

\* The steps that keep snapshots and queries as they are.
LEMMA RestStays ==
    ASSUME Inv, LogMoves, UNCHANGED << viewVars, snap, orphans, queryVars >>
    PROVE  SnapInv' /\ QueryInv'
<1>1. SnapInv'
    BY SnapshotStays DEF Inv, SnapInv, TypeOK, Snapshot, viewVars
<1>2. QueryInv'
    BY SummaryStays DEF Inv, QueryInv, queryVars
<1> QED
    BY <1>1, <1>2

LEMMA QueriesStay ==
    ASSUME Inv, LogMoves, UNCHANGED queryVars
    PROVE  QueryInv'
    BY SummaryStays DEF Inv, QueryInv, queryVars

LEMMA SameLog ==
    ASSUME TypeOK, now' = now, createdAt' = createdAt, deletedAt' = deletedAt
    PROVE  LogMoves
    BY StatsRollupAssumption DEF TypeOK, LogMoves, Time

-----------------------------------------------------------------------------
(* The recorder                                                            *)

LEMMA AcceptStep ==
    ASSUME Inv, NEW g \in Gateways, NEW r \in Rows, Accept(g, r)
    PROVE  Inv'
<1> USE DEF Inv
<1>1. TypeOK'
    BY DEF Accept, TypeOK, viewVars, gatewayVars, queryVars
<1>2. QueueInv'
  <2>1. \A h \in Gateways : queue'[h] = IF h = g THEN queue[g] \union {r} ELSE queue[h]
      BY DEF Accept, TypeOK
  <2>2. r \notin Written /\ \A h \in Gateways : r \notin queue[h]
      BY DEF Accept, Accepted
  <2>3. Written' = Written
      BY DEF Accept, Written
  <2> QED
      BY <2>1, <2>2, <2>3 DEF QueueInv
<1>3. LogMoves
    BY SameLog DEF Accept
<1>4. SnapInv' /\ QueryInv'
    BY <1>3, RestStays DEF Accept, gatewayVars
<1> QED
    BY <1>1, <1>2, <1>4

LEMMA WriteStep ==
    ASSUME Inv, NEW g \in Gateways, NEW r \in Rows, Write(g, r)
    PROVE  Inv'
<1> USE DEF Inv
<1>1. PICK t \in Time : t \leq now /\ now \leq t + CommitDelay
                        /\ createdAt' = [createdAt EXCEPT ![r] = t]
    BY DEF Write
<1>2. r \in queue[g] /\ queue' = [queue EXCEPT ![g] = @ \ {r}] /\ now' = now
    BY DEF Write
<1>3. /\ \A h \in Gateways : queue'[h] = IF h = g THEN queue[g] \ {r} ELSE queue[h]
      /\ \A k \in Rows : createdAt'[k] = IF k = r THEN t ELSE createdAt[k]
      /\ createdAt' \in [Rows -> Time \union {NotStored}]
    BY <1>1, <1>2 DEF TypeOK
<1>4. TypeOK'
  <2>1. \A k \in Rows : createdAt'[k] \leq now' /\ deletedAt'[k] \leq now'
      BY <1>1, <1>2, <1>3 DEF Write, TypeOK
  <2> QED
      BY <1>2, <1>3, <2>1 DEF Write, TypeOK, viewVars, gatewayVars, queryVars
<1>5. t # NotStored
    BY StatsRollupAssumption DEF Time, NotStored
<1>6. QueueInv'
    BY <1>2, <1>3 DEF QueueInv, Written
<1>7. LogMoves
  <2>1. createdAt[r] = NotStored
      BY <1>2 DEF QueueInv, Written
  <2>2. now \leq now /\ now \in Time
      BY StatsRollupAssumption DEF TypeOK, Time
  <2>3. deletedAt' = deletedAt /\ deletedAt \in [Rows -> Time \union {Never}]
      BY DEF Write, TypeOK
  <2> QED
      BY <1>1, <1>2, <1>3, <1>5, <2>1, <2>2, <2>3 DEF LogMoves
<1>8. SnapInv' /\ QueryInv'
    BY <1>7, RestStays DEF Write, gatewayVars
<1> QED
    BY <1>4, <1>6, <1>8

LEMMA DropStep ==
    ASSUME Inv, NEW g \in Gateways, NEW r \in Rows, Drop(g, r)
    PROVE  Inv'
<1> USE DEF Inv
<1>1. TypeOK'
    BY DEF Drop, TypeOK, viewVars, gatewayVars, queryVars
<1>2. QueueInv'
  <2>1. \A h \in Gateways : queue'[h] \subseteq queue[h]
      BY DEF Drop, TypeOK
  <2>2. Written' = Written
      BY DEF Drop, Written
  <2> QED
      BY <2>1, <2>2 DEF QueueInv
<1>3. SnapInv' /\ QueryInv'
    BY SameLog, RestStays DEF Drop, gatewayVars
<1> QED
    BY <1>1, <1>2, <1>3

LEMMA DeleteStep ==
    ASSUME Inv, DeleteRows
    PROVE  Inv'
<1> USE DEF Inv
<1>1. PICK R \in SUBSET Stored :
          deletedAt' = [r \in Rows |-> IF r \in R THEN now ELSE deletedAt[r]]
    BY DEF DeleteRows
<1>2. UNCHANGED << now, queue, gone, createdAt, viewVars, gatewayVars, queryVars >>
    BY DEF DeleteRows
<1>3. /\ \A r \in Rows : deletedAt'[r] = IF r \in R THEN now ELSE deletedAt[r]
      /\ deletedAt' \in [Rows -> Time \union {Never}]
    BY <1>1 DEF TypeOK
<1>4. now \in Nat
    BY StatsRollupAssumption DEF TypeOK, Time
<1>5. TypeOK'
  <2>1. \A r \in Rows : createdAt'[r] \leq now' /\ deletedAt'[r] \leq now'
      BY <1>2, <1>3, <1>4 DEF TypeOK
  <2> QED
      BY <1>2, <1>3, <2>1 DEF TypeOK, viewVars, gatewayVars, queryVars
<1>6. QueueInv'
    BY <1>2 DEF QueueInv, Written
<1>7. LogMoves
  <2>1. \A r \in R : deletedAt[r] = Never
      BY DEF Stored
  <2>2. now \leq now /\ now # Never
      BY <1>4 DEF Never
  <2> QED
      BY <1>2, <1>3, <2>1, <2>2 DEF LogMoves, TypeOK
<1>8. SnapInv' /\ QueryInv'
    BY <1>2, <1>7, RestStays DEF gatewayVars
<1> QED
    BY <1>5, <1>6, <1>8

-----------------------------------------------------------------------------
(* The refresher and the end of main                                       *)

\* A snapshot that is taken now is complete.
LEMMA NowComplete ==
    ASSUME TypeOK
    PROVE  Complete(Stored, now, createdAt, deletedAt, now)
<1>1. now \leq now
    BY StatsRollupAssumption DEF TypeOK, Time
<1> QED
    BY <1>1 DEF Complete, Stored, Written

\* What a step of a gateway does to the snapshots.
SnapshotsMove ==
    /\ UNCHANGED << now, createdAt, deletedAt, queryVars >>
    /\ \A g \in Gateways : \/ snap'[g] = snap[g]
                           \/ snap'[g] = Nothing
                           \/ snap'[g] = [rows |-> Stored, at |-> now]
    /\ \A s \in orphans' : s \in orphans \/ \E g \in Gateways : s = snap[g]
    /\ \/ UNCHANGED viewVars
       \/ \E g \in Gateways : Show(snap[g])
       \/ \E s \in orphans : Show(s)

LEMMA SnapshotsMoved ==
    ASSUME Inv, SnapshotsMove
    PROVE  SnapInv' /\ QueryInv'
<1> USE DEF Inv
<1>1. Complete({}, 0, createdAt, deletedAt, now)
  <2>1. 0 \leq now /\ \A r \in Rows : createdAt[r] # NotStored => createdAt[r] \in Nat
      BY StatsRollupAssumption DEF TypeOK, Time
  <2> QED
      BY <2>1, StatsRollupAssumption DEF Complete
<1>2. \A g \in Gateways : Complete(snap'[g].rows, snap'[g].at, createdAt, deletedAt, now)
    BY <1>1, NowComplete DEF SnapshotsMove, SnapInv, Nothing
<1>3. \A s \in orphans' : Complete(s.rows, s.at, createdAt, deletedAt, now)
    BY DEF SnapshotsMove, SnapInv
<1>4. Complete(view', asOf', createdAt, deletedAt, now)
    BY DEF SnapshotsMove, SnapInv, Show, viewVars
<1>5. now' = now /\ createdAt' = createdAt /\ deletedAt' = deletedAt
    BY DEF SnapshotsMove
<1>6. SnapInv'
    BY <1>2, <1>3, <1>4, <1>5 DEF SnapInv
<1>7. QueryInv'
    BY <1>5, SameLog, QueriesStay DEF SnapshotsMove
<1> QED
    BY <1>6, <1>7

LEMMA GatewayTypes ==
    ASSUME TypeOK, SnapshotsMove
    PROVE  /\ viewVars' = viewVars \/ (populated' = TRUE /\ view' \subseteq Rows /\ asOf' \in Time)
           /\ orphans' \subseteq Snapshot
           /\ \A g \in Gateways : snap'[g] \in Snapshot
<1>1. /\ Nothing \in Snapshot
      /\ [rows |-> Stored, at |-> now] \in Snapshot
    BY StatsRollupAssumption DEF Nothing, Snapshot, Time, Stored, Written, TypeOK
<1>2. /\ \A g \in Gateways : snap[g] \in Snapshot
      /\ \A s \in orphans : s \in Snapshot
    BY DEF TypeOK
<1>3. \A s \in Snapshot : s.rows \subseteq Rows /\ s.at \in Time
    BY DEF Snapshot
<1>4. orphans' \subseteq Snapshot /\ \A g \in Gateways : snap'[g] \in Snapshot
    BY <1>1, <1>2 DEF SnapshotsMove
<1>5. viewVars' = viewVars \/ \E s \in Snapshot : Show(s)
    BY <1>2 DEF SnapshotsMove
<1> QED
    BY <1>3, <1>4, <1>5 DEF Show

LEMMA RefreshStep ==
    ASSUME Inv, NEW g \in Gateways,
           \/ RefreshBegins(g) \/ RefreshSucceeds(g) \/ FallsBack(g)
           \/ RefreshFails(g) \/ LoopExits(g)
    PROVE  Inv'
<1> USE DEF Inv
<1>1. \E l \in {"select", "concurrently", "plain", "exited"} : loop' = [loop EXCEPT ![g] = l]
    BY DEF RefreshBegins, RefreshSucceeds, FallsBack, RefreshFails, LoopExits, Begins, Ends
<1>2. \E s \in {Nothing, [rows |-> Stored, at |-> now]} : snap' = [snap EXCEPT ![g] = s]
    BY DEF RefreshBegins, RefreshSucceeds, FallsBack, RefreshFails, LoopExits, Begins, Ends
<1>3. /\ UNCHANGED << now, queryVars, main >> /\ UNCHANGED logVars
      /\ orphans' = orphans \/ orphans' = orphans \union {snap[g]}
      /\ UNCHANGED viewVars \/ Show(snap[g])
    BY DEF RefreshBegins, RefreshSucceeds, FallsBack, RefreshFails, LoopExits, Abandons
<1>4. snap' = [h \in Gateways |-> snap'[h]]
    BY <1>2 DEF TypeOK
<1>5. SnapshotsMove
  <2>1. \A h \in Gateways : \/ snap'[h] = snap[h]
                            \/ snap'[h] = Nothing
                            \/ snap'[h] = [rows |-> Stored, at |-> now]
      BY <1>2 DEF TypeOK
  <2> QED
      BY <1>3, <2>1 DEF SnapshotsMove, logVars
<1>6. TypeOK'
  <2>1. snap' \in [Gateways -> Snapshot] /\ orphans' \subseteq Snapshot
      BY <1>4, <1>5, GatewayTypes
  <2>2. populated' \in BOOLEAN /\ view' \subseteq Rows /\ asOf' \in Time
      BY <1>5, GatewayTypes DEF TypeOK, viewVars
  <2>3. loop' \in [Gateways -> {"starting", "select", "concurrently", "plain", "exited"}]
      BY <1>1 DEF TypeOK
  <2> QED
      BY <1>3, <2>1, <2>2, <2>3 DEF TypeOK, logVars, queryVars
<1>7. QueueInv'
    BY <1>3 DEF QueueInv, Written, logVars
<1> QED
    BY <1>5, <1>6, <1>7, SnapshotsMoved

LEMMA OrphanStep ==
    ASSUME Inv, OrphanShows
    PROVE  Inv'
<1> USE DEF Inv
<1>1. SnapshotsMove
    BY DEF OrphanShows, SnapshotsMove, logVars
<1>2. TypeOK'
    BY <1>1, GatewayTypes DEF OrphanShows, TypeOK, logVars, viewVars, queryVars
<1>3. QueueInv'
    BY DEF OrphanShows, QueueInv, Written, logVars
<1> QED
    BY <1>1, <1>2, <1>3, SnapshotsMoved

LEMMA MainStep ==
    ASSUME Inv, NEW g \in Gateways,
           Signal(g) \/ RefresherStops(g) \/ RecorderStops(g) \/ Kill(g)
    PROVE  Inv'
<1> USE DEF Inv
<1>1. /\ UNCHANGED << now, createdAt, deletedAt, viewVars, queryVars >>
      /\ \E m \in {"stopping", "draining", "down"} : main' = [main EXCEPT ![g] = m]
      /\ orphans' = orphans \/ orphans' = orphans \union {snap[g]}
    BY DEF Signal, RefresherStops, RecorderStops, Kill, Abandons, logVars
<1>2. /\ loop' = loop \/ loop' = [loop EXCEPT ![g] = "exited"]
      /\ snap' = snap \/ snap' = [snap EXCEPT ![g] = Nothing]
    BY DEF Signal, RefresherStops, RecorderStops, Kill, Ends
<1>3. /\ queue' \in [Gateways -> SUBSET Rows] /\ gone' \subseteq Rows
      /\ \A h \in Gateways : queue'[h] \subseteq queue[h]
    BY DEF Signal, RefresherStops, RecorderStops, Kill, Lost, TypeOK, logVars
<1>4. SnapshotsMove
  <2>1. \A h \in Gateways : snap'[h] = snap[h] \/ snap'[h] = Nothing
      BY <1>2 DEF TypeOK
  <2> QED
      BY <1>1, <2>1 DEF SnapshotsMove
<1>5. TypeOK'
  <2>1. snap' = [h \in Gateways |-> snap'[h]]
      BY <1>2 DEF TypeOK
  <2>2. snap' \in [Gateways -> Snapshot] /\ orphans' \subseteq Snapshot
      BY <1>4, <2>1, GatewayTypes
  <2>3. /\ loop' \in [Gateways -> {"starting", "select", "concurrently", "plain", "exited"}]
        /\ main' \in [Gateways -> {"up", "stopping", "draining", "down"}]
      BY <1>1, <1>2 DEF TypeOK
  <2> QED
      BY <1>1, <1>3, <2>2, <2>3 DEF TypeOK, viewVars, queryVars
<1>6. QueueInv'
    BY <1>1, <1>3 DEF QueueInv, Written
<1> QED
    BY <1>4, <1>5, <1>6, SnapshotsMoved

-----------------------------------------------------------------------------
(* The queries                                                             *)

\* A step of one query leaves everything else as it is.
LEMMA QueryFrame ==
    ASSUME Inv, NEW q \in Queries,
           UNCHANGED << now, logVars, viewVars, gatewayVars >>,
           \A k \in Queries : k # q =>
               /\ pc'[k] = pc[k] /\ span'[k] = span[k] /\ askedAt'[k] = askedAt[k]
               /\ source'[k] = source[k] /\ totals'[k] = totals[k]
               /\ readAsOf'[k] = readAsOf[k],
           Explained(q)'
    PROVE  QueueInv' /\ SnapInv' /\ QueryInv'
<1> USE DEF Inv
<1>1. LogMoves
    BY SameLog DEF logVars
<1>2. QueueInv'
    BY DEF QueueInv, Written, logVars
<1>3. SnapInv'
    BY DEF SnapInv, logVars, viewVars, gatewayVars
<1>4. \A k \in Queries : k # q => Explained(k)'
    BY <1>1, SummaryStays DEF QueryInv
<1> QED
    BY <1>2, <1>3, <1>4 DEF QueryInv

LEMMA ReturnStep ==
    ASSUME Inv, NEW q \in Queries, Return(q),
           UNCHANGED << now, logVars, viewVars, gatewayVars >>
    PROVE  Inv'
<1> USE DEF Inv
<1>1. TypeOK'
  <2>1. 0 \in Time
      BY StatsRollupAssumption DEF Time
  <2> QED
      BY <2>1 DEF Return, TypeOK, logVars, viewVars, gatewayVars
<1>2. pc'[q] = "idle" /\ askedAt'[q] = 0 /\ readAsOf'[q] = 0
    BY DEF Return, TypeOK
<1>3. Explained(q)'
    BY <1>2, StatsRollupAssumption DEF Explained, TypeOK, Time
<1> QED
    BY <1>1, <1>3, QueryFrame DEF Return, TypeOK

LEMMA AskStep ==
    ASSUME Inv, NEW q \in Queries, NEW length \in Ranges, Ask(q, length)
    PROVE  Inv'
<1> USE DEF Inv
<1>1. TypeOK'
    BY DEF Ask, FirstSource, TypeOK, logVars, viewVars, gatewayVars
<1>2. /\ pc'[q] = "totals" /\ askedAt'[q] = now /\ readAsOf'[q] = readAsOf[q] /\ now' = now
    BY DEF Ask, TypeOK
<1>3. readAsOf[q] \leq now
    BY DEF QueryInv, Explained
<1>4. Explained(q)'
    BY <1>2, <1>3, StatsRollupAssumption DEF Explained, TypeOK, Time
<1> QED
    BY <1>1, <1>4, QueryFrame DEF Ask, TypeOK

\* What the totals lack is explained by the source they were counted from.
LEMMA CountStep ==
    ASSUME Inv, NEW q \in Queries, CountTotals(q)
    PROVE  Inv'
<1> USE StatsRollupAssumption DEF Inv
<1>1. /\ now' = now /\ createdAt' = createdAt /\ deletedAt' = deletedAt /\ span' = span
      /\ askedAt' = askedAt /\ source' = source
    BY DEF CountTotals, logVars
<1>2. Counts(q) \subseteq Rows
    BY DEF Counts, Stored, Written, TypeOK
<1>3. TypeOK'
    BY <1>2 DEF CountTotals, TypeOK, Time, logVars, viewVars, gatewayVars
<1>4. /\ pc'[q] = "lists" /\ totals'[q] = Counts(q)
      /\ readAsOf'[q] = IF source[q] = "view" THEN asOf ELSE 0
    BY DEF CountTotals, TypeOK
<1>5. /\ askedAt[q] \in Nat /\ span[q] \in Nat /\ now \in Nat /\ asOf \in Nat
      /\ source[q] \in {"view", "raw"}
  <2>1. span[q] \in Ranges \union {0}
      BY DEF TypeOK
  <2>2. span[q] \in Nat
    <3>1. CASE span[q] \in Ranges
        BY <3>1
    <3>2. CASE span[q] = 0
        BY <3>2
    <3> QED
        BY <2>1, <3>1, <3>2
  <2>3. askedAt[q] \in Time /\ now \in Time /\ asOf \in Time /\ source[q] \in {"view", "raw"}
      BY DEF TypeOK
  <2> QED
      BY <2>2, <2>3 DEF Time
<1>6. askedAt[q] \leq now /\ readAsOf'[q] \leq now
    BY <1>4, <1>5 DEF QueryInv, Explained, SnapInv, Complete
<1>7. \A r \in Written : createdAt[r] \in Nat
    BY DEF Written, TypeOK, Time, NotStored
<1>8. ASSUME NEW r \in Counts(q)
      PROVE  InRange(q, r) /\ (deletedAt[r] # Never => SeenAt(q)' \leq deletedAt[r])
  <2>1. r \in Written
      BY <1>2 DEF Counts, Stored, Written, SnapInv, Complete
  <2>2. createdAt[r] \in Int /\ Bucket(createdAt[r]) \in Int
        /\ Bucket(createdAt[r]) \leq createdAt[r] /\ From(q) \in Int
      BY <1>5, <1>7, <2>1, Bucketed DEF From
  <2>3. createdAt[r] >= From(q) \/ Bucket(createdAt[r]) >= From(q)
      BY DEF Counts
  <2>4. deletedAt[r] # Never => source[q] = "view" /\ asOf \leq deletedAt[r]
    <3>1. source[q] = "raw" => r \in Stored
        BY DEF Counts
    <3>2. source[q] = "view" => r \in view
        BY DEF Counts
    <3> QED
        BY <1>5, <3>1, <3>2 DEF Stored, SnapInv, Complete
  <2> QED
      BY <1>1, <1>4, <2>1, <2>2, <2>3, <2>4 DEF InRange, SeenAt
<1>9. ASSUME NEW r \in Stored \ Counts(q), InRange(q, r)
      PROVE  /\ source[q] = "view"
             /\ \/ Bucket(createdAt[r]) < From(q)
                \/ createdAt[r] + CommitDelay >= readAsOf'[q]
  <2>1. r \in Rows /\ r \in Written /\ createdAt[r] >= From(q)
      BY <1>9 DEF InRange, Written
  <2>2. source[q] = "view"
      BY <1>5, <1>9, <2>1 DEF Counts
  <2>3. createdAt[r] \in Int /\ Bucket(createdAt[r]) \in Int /\ From(q) \in Int
      BY <1>5, <1>7, <2>1, Bucketed DEF From
  <2>4. CASE r \in view
    <3>1. ~(Bucket(createdAt[r]) >= From(q))
        BY <1>9, <2>2, <2>4 DEF Counts
    <3> QED
        BY <2>2, <2>3, <3>1
  <2>5. CASE r \notin view
    <3>1. createdAt[r] # NotStored /\ deletedAt[r] = Never
        BY <1>9, <2>1 DEF Stored, Written
    <3>2. ~(createdAt[r] + CommitDelay < asOf)
        BY <2>1, <2>5, <3>1 DEF SnapInv, Complete
    <3> QED
        BY <1>4, <1>5, <2>2, <2>3, <3>2
  <2> QED
      BY <2>4, <2>5
<1>10. Explained(q)'
  <2>1. Stored' = Stored /\ \A r : InRange(q, r)' <=> InRange(q, r)
      BY <1>1 DEF InRange, Stored, Written, From
  <2>2. From(q)' = From(q)
      BY <1>1 DEF From
  <2> QED
      BY <1>1, <1>2, <1>4, <1>6, <1>8, <1>9, <2>1, <2>2 DEF Explained, Bucket
<1> QED
    BY <1>3, <1>10, QueryFrame DEF CountTotals, TypeOK

LEMMA FailStep ==
    ASSUME Inv, NEW q \in Queries, StatementFails(q)
    PROVE  Inv'
<1> USE DEF Inv
<1>1. CASE Return(q)
    BY <1>1, ReturnStep DEF StatementFails
<1>2. CASE ~Return(q)
  <2>1. /\ source' = [source EXCEPT ![q] = "raw"] /\ pc' = [pc EXCEPT ![q] = "totals"]
        /\ totals' = [totals EXCEPT ![q] = {}] /\ readAsOf' = [readAsOf EXCEPT ![q] = 0]
        /\ UNCHANGED << span, askedAt, now, logVars, viewVars, gatewayVars >>
      BY <1>2 DEF StatementFails
  <2>2. TypeOK'
    <3>1. 0 \in Time
        BY StatsRollupAssumption DEF Time
    <3> QED
        BY <2>1, <3>1 DEF TypeOK, logVars, viewVars, gatewayVars
  <2>3. pc'[q] = "totals" /\ readAsOf'[q] = 0 /\ askedAt'[q] = askedAt[q] /\ now' = now
      BY <2>1 DEF TypeOK
  <2>4. askedAt[q] \leq now /\ 0 \leq now
      BY StatsRollupAssumption DEF QueryInv, Explained, TypeOK, Time
  <2>5. Explained(q)'
      BY <2>3, <2>4 DEF Explained
  <2> QED
      BY <2>1, <2>2, <2>5, QueryFrame DEF TypeOK
<1> QED
    BY <1>1, <1>2

-----------------------------------------------------------------------------
LEMMA TickStep ==
    ASSUME Inv, Tick
    PROVE  Inv'
<1> USE DEF Inv
<1>1. now' \in Time /\ now \leq now' /\ UNCHANGED << createdAt, deletedAt >>
    BY StatsRollupAssumption DEF Tick, TypeOK, Time, logVars
<1>2. LogMoves
    BY <1>1 DEF TypeOK, LogMoves
<1>3. QueueInv'
    BY DEF Tick, QueueInv, Written, logVars
<1>4. SnapInv' /\ QueryInv'
    BY <1>2, RestStays DEF Tick, gatewayVars
<1>5. TypeOK'
  <2>1. \A r \in Rows : createdAt'[r] \leq now' /\ deletedAt'[r] \leq now'
      BY <1>1, StatsRollupAssumption DEF TypeOK, Time, NotStored, Never
  <2> QED
      BY <1>1, <2>1 DEF Tick, TypeOK, logVars, viewVars, gatewayVars, queryVars
<1> QED
    BY <1>3, <1>4, <1>5

LEMMA Inductive == Inv /\ [Next]_vars => Inv'
<1> SUFFICES ASSUME Inv, [Next]_vars PROVE Inv'
    OBVIOUS
<1>1. CASE \E g \in Gateways, r \in Rows : Accept(g, r) \/ Write(g, r) \/ Drop(g, r)
    BY <1>1, AcceptStep, WriteStep, DropStep
<1>2. CASE \E g \in Gateways :
             \/ RefreshBegins(g) \/ RefreshSucceeds(g) \/ FallsBack(g) \/ RefreshFails(g)
             \/ LoopExits(g)
    BY <1>2, RefreshStep
<1>3. CASE \E g \in Gateways :
             Signal(g) \/ RefresherStops(g) \/ RecorderStops(g) \/ Kill(g)
    BY <1>3, MainStep
<1>4. CASE DeleteRows \/ OrphanShows
    BY <1>4, DeleteStep, OrphanStep
<1>5. CASE \E q \in Queries : \E length \in Ranges : Ask(q, length)
    BY <1>5, AskStep
<1>6. CASE \E q \in Queries : CountTotals(q)
    BY <1>6, CountStep
<1>7. CASE \E q \in Queries : CountLists(q)
    BY <1>7, ReturnStep DEF CountLists
<1>8. CASE \E q \in Queries : StatementFails(q)
    BY <1>8, FailStep
<1>9. CASE Tick
    BY <1>9, TickStep
<1>10. CASE UNCHANGED vars
  <2>1. LogMoves
      BY <1>10, SameLog DEF Inv, vars, logVars
  <2>2. TypeOK' /\ QueueInv'
      BY <1>10 DEF Inv, TypeOK, QueueInv, Written, vars, logVars, viewVars, gatewayVars, queryVars
  <2> QED
      BY <1>10, <2>1, <2>2, RestStays DEF Inv, vars, gatewayVars
<1> QED
    BY <1>1, <1>2, <1>3, <1>4, <1>5, <1>6, <1>7, <1>8, <1>9, <1>10 DEF Next

-----------------------------------------------------------------------------
(* The order of the snapshots                                              *)

\* What has been written or deleted remains so.
LEMMA HistoryStays ==
    ASSUME Inv, [Next]_vars, NEW r \in Rows
    PROVE  /\ createdAt[r] # NotStored => createdAt'[r] = createdAt[r]
           /\ deletedAt[r] # Never => deletedAt'[r] = deletedAt[r]
<1> USE DEF Inv
<1>1. CASE \E g \in Gateways, k \in Rows : Write(g, k)
  <2>1. PICK g \in Gateways, k \in Rows : Write(g, k)
      BY <1>1
  <2>2. createdAt[k] = NotStored
      BY <2>1 DEF Write, QueueInv, Written
  <2>3. createdAt[r] # NotStored => createdAt'[r] = createdAt[r]
      BY <2>1, <2>2 DEF Write, TypeOK
  <2> QED
      BY <2>1, <2>3 DEF Write
<1>2. CASE DeleteRows
    BY <1>2 DEF DeleteRows, Stored, TypeOK
<1>3. CASE \/ \E g \in Gateways, k \in Rows : Accept(g, k) \/ Drop(g, k)
           \/ \E g \in Gateways :
                 \/ RefreshBegins(g) \/ RefreshSucceeds(g) \/ FallsBack(g) \/ RefreshFails(g)
                 \/ LoopExits(g) \/ Signal(g) \/ RefresherStops(g) \/ RecorderStops(g)
                 \/ Kill(g)
           \/ OrphanShows
           \/ \E q \in Queries :
                 \/ CountTotals(q) \/ CountLists(q) \/ StatementFails(q)
                 \/ \E length \in Ranges : Ask(q, length)
           \/ Tick
           \/ UNCHANGED vars
  <2>1. createdAt' = createdAt /\ deletedAt' = deletedAt
      BY <1>3 DEF Accept, Drop, RefreshBegins, RefreshSucceeds, FallsBack, RefreshFails,
                  LoopExits, Signal, RefresherStops, RecorderStops, Kill, OrphanShows,
                  CountTotals, CountLists, StatementFails, Ask, Tick, vars, logVars
  <2> QED
      BY <2>1
<1> QED
    BY <1>1, <1>2, <1>3 DEF Next

\* A step shows a snapshot that was taken before, and takes none but one of now.
LEMMA SnapshotsTaken ==
    ASSUME Inv, [Next]_vars
    PROVE  /\ Snapshots' \subseteq Snapshots \union {Nothing, [rows |-> Stored, at |-> now]}
           /\ [rows |-> view', at |-> asOf'] \in Snapshots
<1> DEFINE Taken == [rows |-> Stored, at |-> now]
           Shown == [rows |-> view, at |-> asOf]
<1>1. /\ \A g \in Gateways : snap[g] \in Snapshots /\ snap[g] \in Snapshot
      /\ \A s \in orphans : s \in Snapshots /\ s \in Snapshot
      /\ Shown \in Snapshots
    BY DEF Snapshots, Inv, TypeOK
<1>2. ASSUME /\ \A g \in Gateways : \/ snap'[g] = snap[g]
                                    \/ snap'[g] = Nothing
                                    \/ snap'[g] = Taken,
             \A s \in orphans' : s \in orphans \/ \E g \in Gateways : s = snap[g],
             \/ UNCHANGED viewVars
             \/ \E g \in Gateways : Show(snap[g])
             \/ \E s \in orphans : Show(s)
      PROVE  /\ Snapshots' \subseteq Snapshots \union {Nothing, Taken}
             /\ Shown' \in Snapshots
  <2>1. Shown' \in Snapshots
    <3>1. CASE UNCHANGED viewVars
        BY <1>1, <3>1 DEF viewVars
    <3>2. ASSUME NEW s \in Snapshots, s \in Snapshot, Show(s) PROVE Shown' = s
        BY <3>2 DEF Show, Snapshot
    <3> QED
        BY <1>1, <1>2, <3>1, <3>2
  <2>2. \A s \in orphans' : s \in Snapshots
      BY <1>1, <1>2
  <2>3. \A g \in Gateways : snap'[g] \in Snapshots \union {Nothing, Taken}
      BY <1>1, <1>2
  <2>4. Snapshots' = {snap'[g] : g \in Gateways} \union orphans' \union {Shown'}
      BY DEF Snapshots
  <2> QED
      BY <2>1, <2>2, <2>3, <2>4
<1>3. CASE \/ UNCHANGED << viewVars, snap, orphans >>
           \/ \E g \in Gateways, r \in Rows : Accept(g, r) \/ Write(g, r) \/ Drop(g, r)
           \/ \E q \in Queries :
                 \/ CountTotals(q) \/ CountLists(q) \/ StatementFails(q)
                 \/ \E length \in Ranges : Ask(q, length)
           \/ DeleteRows \/ Tick
  <2>1. UNCHANGED << viewVars, snap, orphans >>
      BY <1>3 DEF Accept, Write, Drop, DeleteRows, CountTotals, CountLists, StatementFails, Ask, Tick,
                  gatewayVars
  <2> QED
      BY <1>2, <2>1
<1>4. ASSUME NEW g \in Gateways,
             \/ RefreshBegins(g) \/ RefreshSucceeds(g) \/ FallsBack(g) \/ RefreshFails(g)
             \/ LoopExits(g) \/ Signal(g) \/ RefresherStops(g) \/ RecorderStops(g) \/ Kill(g)
      PROVE  /\ Snapshots' \subseteq Snapshots \union {Nothing, Taken}
             /\ Shown' \in Snapshots
  <2>1. snap' = snap \/ \E s \in {Nothing, Taken} : snap' = [snap EXCEPT ![g] = s]
      BY <1>4 DEF RefreshBegins, RefreshSucceeds, FallsBack, RefreshFails, LoopExits, Signal,
                  RefresherStops, RecorderStops, Kill, Begins, Ends
  <2>2. /\ orphans' = orphans \/ orphans' = orphans \union {snap[g]}
        /\ UNCHANGED viewVars \/ Show(snap[g])
      BY <1>4 DEF RefreshBegins, RefreshSucceeds, FallsBack, RefreshFails, LoopExits, Signal,
                  RefresherStops, RecorderStops, Kill, Abandons
  <2>3. \A h \in Gateways : snap'[h] = snap[h] \/ snap'[h] = Nothing \/ snap'[h] = Taken
      BY <2>1 DEF Inv, TypeOK
  <2> QED
      BY <1>2, <2>2, <2>3
<1>5. CASE OrphanShows
    BY <1>2, <1>5 DEF OrphanShows
<1> QED
    BY <1>3, <1>4, <1>5 DEF Next, vars, gatewayVars

\* A row that a snapshot has and the log has no longer was deleted since.
LEMMA OrderStays ==
    ASSUME Inv, SnapshotsAreOrdered, [Next]_vars
    PROVE  SnapshotsAreOrdered'
<1> DEFINE Taken == [rows |-> Stored, at |-> now]
<1>1. \A s \in Snapshots :
          /\ s.at \in Time /\ s.at \leq now /\ s.rows \subseteq Written
          /\ \A r \in s.rows : deletedAt[r] # Never => s.at \leq deletedAt[r]
    BY DEF Inv, TypeOK, SnapInv, Complete, Snapshots, Snapshot, Written
<1>2. now \in Nat /\ \A t \in Time : t \in Nat
    BY StatsRollupAssumption DEF Inv, TypeOK, Time
<1> SUFFICES ASSUME NEW s \in Snapshots', NEW t \in Snapshots', s.at < t.at,
                    NEW r \in s.rows \ t.rows
             PROVE  deletedAt'[r] \in s.at .. t.at
    BY DEF SnapshotsAreOrdered
<1>3. /\ s \in Snapshots \/ s = Nothing \/ s = Taken
      /\ t \in Snapshots \/ t = Nothing \/ t = Taken
    BY SnapshotsTaken
<1>4. CASE s = Nothing
    BY <1>4 DEF Nothing
<1>5. CASE s = Taken
    BY <1>1, <1>2, <1>3, <1>5 DEF Nothing
<1>6. CASE s \in Snapshots
  <2>1. r \in Rows /\ r \in Written
      BY <1>1, <1>6 DEF Written
  <2>2. t # Nothing
      BY <1>1, <1>2, <1>6 DEF Nothing
  <2>3. CASE t = Taken
    <3>1. deletedAt[r] # Never /\ s.at \leq deletedAt[r]
        BY <1>1, <1>6, <2>1, <2>3 DEF Stored
    <3>2. deletedAt[r] \in Nat /\ deletedAt[r] \leq now
        BY <1>2, <2>1, <3>1 DEF Inv, TypeOK
    <3> QED
        BY <1>1, <1>2, <1>6, <2>1, <2>3, <3>1, <3>2, HistoryStays
  <2>4. CASE t \in Snapshots
    <3>1. deletedAt[r] \in s.at .. t.at
        BY <1>6, <2>4 DEF SnapshotsAreOrdered
    <3>2. deletedAt[r] # Never
        BY <1>1, <1>2, <1>6, <3>1 DEF Never
    <3> QED
        BY <2>1, <3>1, <3>2, HistoryStays
  <2> QED
      BY <1>3, <2>2, <2>3, <2>4
<1> QED
    BY <1>3, <1>4, <1>5, <1>6

-----------------------------------------------------------------------------
(* The theorems                                                            *)

\* The inductive invariant holds: among the rest, no snapshot has a row that was
\* deleted before, or lacks a row that is still there and was written in time
\* (refresher.go:47-88, stats_store.go:10-224).
THEOREM Invariance == Spec => []Inv
<1>1. Init => Inv
    BY Initial
<1>2. Inv /\ [Next]_vars => Inv'
    BY Inductive
<1> QED
    BY <1>1, <1>2, PTL DEF Spec

\* Types are right (refresher.go:34-88).
THEOREM TypeCorrect == Spec => []TypeOK
<1>1. Inv => TypeOK
    BY DEF Inv
<1> QED
    BY <1>1, Invariance, PTL

\* A summary counts rows of its range only, and none that was deleted before the
\* refresh of the view it reads; of the rows that are still there it lacks one only
\* because it was read from the view, whose last refresh began before the row's
\* INSERT had ended, or because the row's minute began before the range
\* (stats_store.go:15-22, 48, 210).
THEOREM SummariesAreExplained == Spec => []SummaryIsExplained
<1>1. Inv => SummaryIsExplained
    BY DEF Inv, QueryInv, Explained, SummaryIsExplained
<1> QED
    BY <1>1, Invariance, PTL

\* A row that an earlier snapshot has and a later one has not was deleted between
\* the two (refresher.go:69-84).
THEOREM SnapshotOrder == Spec => []SnapshotsAreOrdered
<1>1. Init => SnapshotsAreOrdered
    BY DEF Init, SnapshotsAreOrdered, Snapshots, Nothing
<1>2. Inv /\ SnapshotsAreOrdered /\ [Next]_vars => SnapshotsAreOrdered'
    BY OrderStays
<1> QED
    BY <1>1, <1>2, Invariance, PTL DEF Spec

\* A row that was counted is counted no longer only when it was deleted, or when an
\* older snapshot, or one of the same time, is shown over a newer one
\* (refresher.go:65-84).
THEOREM CountedRowsLeaveForCause == Spec => RowsLeaveForCause
<1>1. Inv /\ SnapshotsAreOrdered /\ [Next]_vars
        => [\A r \in view \ view' : asOf' \leq asOf \/ deletedAt[r] # Never]_vars
  <2> SUFFICES ASSUME Inv, SnapshotsAreOrdered, [Next]_vars, ~(asOf' \leq asOf),
                      NEW r \in view \ view'
               PROVE  deletedAt[r] # Never
      OBVIOUS
  <2> DEFINE s == [rows |-> view, at |-> asOf]
             t == [rows |-> view', at |-> asOf']
  <2>1. s \in Snapshots /\ t \in Snapshots
      BY SnapshotsTaken DEF Snapshots
  <2>2. Inv'
      BY Inductive
  <2>3. asOf \in Nat /\ asOf' \in Nat
      BY <2>2, StatsRollupAssumption DEF Inv, TypeOK, Time
  <2>4. s.at < t.at
      BY <2>3
  <2>5. deletedAt[r] \in s.at .. t.at
      BY <2>1, <2>4 DEF SnapshotsAreOrdered
  <2> QED
      BY <2>3, <2>5 DEF Never
<1> QED
    BY <1>1, Invariance, SnapshotOrder, PTL DEF Spec, RowsLeaveForCause

\* What the refresher is about to show is a step forward from what the view shows.
GoesForward(rows) ==
    /\ view \ rows \subseteq Deleted
    /\ \A r \in rows \ view : r \in Written /\ asOf \leq createdAt[r] + CommitDelay

\* A refresher that is alone and never leaves a statement behind.
AloneInv ==
    /\ orphans = {}
    /\ \A g \in Gateways : loop[g] \in {"concurrently", "plain"} => GoesForward(snap[g].rows)

\* With one gateway, and a database that ends the statements of a client that has
\* gone, a counted row leaves the view only after its deletion, and a row that
\* enters it is newer than what the view showed: none comes back
\* (refresher.go:47-84).
THEOREM AloneViewGoesForward ==
    ASSUME \A g, h \in Gateways : g = h, MaxOrphans = 0
    PROVE  Spec => ViewGoesForward
<1> DEFINE Forward == /\ view \ view' \subseteq Deleted
                      /\ \A r \in view' \ view : asOf \leq createdAt[r] + CommitDelay
<1>1. Init => AloneInv
    BY DEF Init, AloneInv
<1>2. ASSUME Inv, AloneInv, [Next]_vars
      PROVE  AloneInv' /\ Forward
  <2>1. orphans = {} /\ Cardinality(orphans) = 0
      BY <1>2, FS_EmptySet DEF AloneInv
  <2>2. GoesForward(Stored)
    <3>1. view \subseteq Written
        BY <1>2 DEF Inv, TypeOK, SnapInv, Complete, Written
    <3>2. ASSUME NEW r \in Stored \ view
          PROVE  r \in Written /\ asOf \leq createdAt[r] + CommitDelay
      <4>1. r \in Rows /\ r \in Written /\ createdAt[r] # NotStored /\ deletedAt[r] = Never
          BY <3>2 DEF Stored, Written
      <4>2. ~(createdAt[r] + CommitDelay < asOf)
          BY <1>2, <3>2, <4>1 DEF Inv, SnapInv, Complete
      <4>3. createdAt[r] \in Int /\ asOf \in Int /\ CommitDelay \in Int
          BY <1>2, <4>1, StatsRollupAssumption DEF Inv, TypeOK, Time
      <4> QED
          BY <4>1, <4>2, <4>3
    <3> QED
        BY <3>1, <3>2 DEF GoesForward, Deleted
  <2>3. ASSUME NEW g \in Gateways, Abandons(g) PROVE orphans' = {}
      BY <2>1, <2>3 DEF Abandons
  <2>4. ASSUME NEW rows \in SUBSET Rows, GoesForward(rows), UNCHANGED viewVars
        PROVE  GoesForward(rows)'
    <3>1. \A r \in Written : r \in Written' /\ createdAt'[r] = createdAt[r]
        BY <1>2, HistoryStays DEF Written
    <3>2. Deleted \subseteq Deleted'
        BY <1>2, <3>1, HistoryStays DEF Deleted, Stored, Written
    <3> QED
        BY <2>4, <3>1, <3>2 DEF GoesForward, viewVars
  <2>5. \A g \in Gateways : snap[g].rows \in SUBSET Rows
      BY <1>2 DEF Inv, TypeOK, Snapshot
  <2>6. CASE \/ UNCHANGED << viewVars, loop, snap, orphans >>
             \/ \E g \in Gateways, r \in Rows : Accept(g, r) \/ Write(g, r) \/ Drop(g, r)
             \/ \E q \in Queries :
                   \/ CountTotals(q) \/ CountLists(q) \/ StatementFails(q)
                   \/ \E length \in Ranges : Ask(q, length)
             \/ DeleteRows \/ Tick
             \/ \E g \in Gateways : Signal(g) \/ RefresherStops(g) \/ RecorderStops(g)
    <3>1. UNCHANGED << viewVars, loop, snap, orphans >>
        BY <2>6 DEF Accept, Write, Drop, DeleteRows, CountTotals, CountLists, StatementFails,
                    Ask, Tick, Signal, RefresherStops, RecorderStops, gatewayVars
    <3>2. \A g \in Gateways : loop[g] \in {"concurrently", "plain"}
                                 => GoesForward(snap[g].rows)'
        BY <1>2, <2>4, <2>5, <3>1 DEF AloneInv
    <3> QED
        BY <2>1, <3>1, <3>2 DEF AloneInv, GoesForward, viewVars
  <2>7. ASSUME NEW g \in Gateways, RefreshBegins(g) \/ FallsBack(g)
        PROVE  AloneInv' /\ Forward
    <3>1. /\ snap' = [snap EXCEPT ![g] = [rows |-> Stored, at |-> now]]
          /\ UNCHANGED viewVars /\ orphans' = {}
        BY <2>1, <2>3, <2>7 DEF RefreshBegins, FallsBack, Begins
    <3>2. \A h \in Gateways : snap'[h].rows = Stored
        BY <1>2, <3>1 DEF Inv, TypeOK
    <3>3. UNCHANGED << Written, Stored, Deleted, createdAt >>
        BY <2>7 DEF RefreshBegins, FallsBack, Written, Stored, Deleted, logVars
    <3>4. GoesForward(Stored)'
        BY <2>2, <3>1, <3>3 DEF GoesForward, viewVars
    <3>5. \A h \in Gateways : GoesForward(snap[h].rows)'
        BY <3>2, <3>3, <3>4 DEF GoesForward
    <3> QED
        BY <3>1, <3>5 DEF AloneInv, viewVars
  <2>8. ASSUME NEW g \in Gateways,
               RefreshSucceeds(g) \/ RefreshFails(g) \/ LoopExits(g) \/ Kill(g)
        PROVE  AloneInv' /\ Forward
    <3>1. /\ \E l \in {"select", "exited"} : loop' = [loop EXCEPT ![g] = l]
          /\ orphans' = {}
        BY <2>1, <2>3, <2>8 DEF RefreshSucceeds, RefreshFails, LoopExits, Kill, Ends
    <3>2. \A h \in Gateways : loop'[h] \in {"select", "exited"}
        BY <1>2, <3>1 DEF Inv, TypeOK
    <3>3. CASE RefreshSucceeds(g)
      <4>1. GoesForward(snap[g].rows) /\ view' = snap[g].rows
          BY <1>2, <3>3 DEF RefreshSucceeds, Executable, Show, AloneInv
      <4> QED
          BY <3>1, <3>2, <4>1 DEF AloneInv, GoesForward
    <3>4. CASE RefreshFails(g) \/ LoopExits(g) \/ Kill(g)
      <4>1. view' = view
          BY <3>4 DEF RefreshFails, LoopExits, Kill, viewVars
      <4> QED
          BY <3>1, <3>2, <4>1 DEF AloneInv
    <3> QED
        BY <2>8, <3>3, <3>4
  <2>9. CASE OrphanShows
      BY <2>1, <2>9 DEF OrphanShows
  <2> QED
      BY <1>2, <2>6, <2>7, <2>8, <2>9 DEF Next, vars, gatewayVars
<1>3. Inv /\ AloneInv /\ [Next]_vars => AloneInv' /\ [Forward]_vars
    BY <1>2
<1> QED
    BY <1>1, <1>3, Invariance, PTL DEF Spec, ViewGoesForward

=============================================================================

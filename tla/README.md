# BlockMesh: TLA+ models and proofs

Models of the Go backend of BlockMesh (`src/backend`), a JSON-RPC gateway in
front of blockchain nodes: its telemetry recorder, RPC client, rate limiter,
tenant authentication, network manager, proxy with its response cache, request
statistics, and the ingestor of blocks. Each is a TLA+ module with an instance that
TLC checks and a module of theorems that TLAPS proves for every value of the
constants. Paths below are relative to `src/backend` unless they
begin with `src/`.

## 1. The system

Three processes share Postgres and Redis.

    client --> gateway : Auth --> rate limit --> proxy --> RPC client --> nodes
                          |           |           |  |
                       Postgres     Redis      Redis  +--> telemetry --> Postgres
                       (keys)     (counters)  (cache)        recorder
    administrator --> admin API --> Postgres (tenants, keys, networks)
    nodes --> ingestor --> Postgres (blocks)

| Part | State | Operations | Interacts with |
|---|---|---|---|
| Telemetry recorder, `shared/telemetry/recorder.go` | a context, a buffered channel, one worker goroutine | Start, Stop, RecordUsage, RecordRequestLog; worker, drain, process with three attempts | called by every request handler; writes to Postgres; stopped by the deferred calls of `main`, which then close the pool |
| RPC client, `shared/blockchain/client.go` | a health table under `healthMu`; a goroutine of health checks | Call, ProxyRaw, markSuccess, markFailure, runHealthCheck, Start/StopHealthChecks | called by the proxy; owned by the manager; HTTP to the nodes |
| Rate limiter, `shared/storage/redis/redis.go` with `gateway/middleware/ratelimit.go` | counters with an expiry in Redis | CheckRateLimits: up to three EVALs of one script | called for every authenticated request, by every gateway |
| Tenant authentication, `gateway/middleware/auth.go` with `shared/storage/postgres/tenant_store.go` | the TenantCache; the pool of connections; `tenants`, `api_keys` | Get, Set, GetTenantByAPIKey, GetTenantByID; RotateAPIKey, DeleteTenant | the admin API writes the same tables from another process |
| Network manager, `gateway/manager.go` | two maps under an RWMutex; a reload goroutine | Start, reload, Get, Health, Stop | reads `blockchain_configs`; makes and stops RPC clients; called by the proxy |
| Proxy, `gateway/proxy/proxy.go` | the response cache in Redis | ServeHTTP, handleBatch, recordOutcome | manager, client, recorder |
| Gateway process, `gateway/main.go` | none of its own | seedDefaultConfig, start, shutdown | all of the above |
| Ingestor, `ingestor/main.go`, `shared/storage/postgres/block_store.go` | a loop for each network of a list that is read once; `blocks` | main, runIngestor, fetchAndStore, StoreBlock | RPC client, Postgres |
| Statistics, `shared/statsrollup/refresher.go`, `shared/storage/postgres/stats_store.go` | `request_logs` and the materialised view of it; a goroutine in each gateway | Start, refresh, Stop; GetStatsSummary | recorders and refreshers of all gateways, admin API, Postgres |
| Admin API, `admin/main.go` | none of its own | CRUD on tenants, keys, networks; statistics | Postgres |
| Web dashboard, `src/web` | views of the admin API | polling | admin API |

### What is hard, and what correctness means, part by part

* **Recorder.** Handlers never block, so the check of the context and the send
  are two steps, and Stop with the whole drain fits between them. Correct: each
  record is reported once, as written or as dropped; none vanishes while the
  recorder is open; after a clean Stop nothing is written; the worker ends.
* **RPC client.** Probes and requests write one table in any order; a probe
  keeps the mutex while it reads a body. A request works through an order of
  endpoints that is stale at once. Correct: three failures in a row, and nothing
  else, make an endpoint unhealthy; one endpoint that answers is enough for a request; everyone
  gets the mutex; Stop waits for the probes; a node that has recovered is used
  again.
* **Rate limiter.** Requests of one tenant are spread over gateways with clocks
  of their own, EVALs interleave, replies are lost and sent again, keys expire
  under slow requests. Correct: no window admits more than its quota, a rejection
  has a reason, counters do not stay for ever.
* **Authentication.** A miss holds one connection of the pool while it waits for
  a second. Rotations and deletions run in another process, under row locks,
  between any two statements. Correct: no connection leaks, lookups end, revoked
  keys are served for a bounded time only, a rotation revokes what it should.
* **Manager.** The table is read outside the lock and applied inside it; a reload
  waits for health checks with the write lock held. Correct: the maps show the
  list that was read, no health checks are left behind, reloads converge, and
  Get, Health, reloads and Stop do not wait for one another for ever.
* **Proxy.** Between routing, the lookup in the cache, the call and the SET nothing
  is locked: networks change, the manager reloads, and other requests use the same
  key, which names the network and the method but not the client that answered. The
  two handlers return in thirteen places that record an outcome. Correct: an answer belongs to its request and is
  old for a bounded time only; errors stay out of the cache; each end is recorded
  once.
* **Statistics.** Several refreshers fill one view, from snapshots older than the
  lock they wait for; a statement goes on when its client has given it up; a range
  is read from two places that cut it differently; rows are deleted under all of
  them; at shutdown the recorder's queue waits until a refresh has ended. Correct: a
  summary counts nothing from outside its range, and lacks a row that is still there
  for one of two named reasons; the view is in the end what the log is; the process
  ends.
* **Ingestor.** Chains reorganise and nodes lag; the list of networks is read once; a
  process ends half a second after its signal, in the middle of a write or not;
  networks are deleted meanwhile, and gateways seed an empty table at once.
  Correct: the first version of a block that was stored stays, from its own
  network; a network with blocks stays; the head is stored in the end.

`PROJECT.json` lists every hazard with its line and the properties that cover it.

## 2. Modules

| Module | Models | Proofs |
|---|---|---|
| `Ledger` | nothing in the code: what the recorder promises about each record | refined by `Telemetry` |
| `Telemetry` | the recorder, Stop, process end | `TelemetryProofs` |
| `RpcClient` | requests, the health table, rounds of probes | `RpcClientProofs` |
| `RateLimiter` | the middleware, the script, Redis' expiry, the clocks | `RateLimiterProofs` |
| `TenantAuth` | the cache, the lookup with its connections, rotations and deletions | `TenantAuthProofs` |
| `NetworkManager` | the reload, the RWMutex, Get, Health, Stop, health checks seen from outside | `NetworkManagerProofs` |
| `Directory` | nothing in the code: what the manager promises those who ask it for a client | refined by `NetworkManager` and by the manager of `Proxy` |
| `HealthChecks` | nothing in the code: what a client's health checks promise the manager | refined by `RpcClient` and by the clients of `NetworkManager` |
| `Proxy` | routing, the response cache in Redis, the call, what is recorded; networks that change and the manager as requests see it | `ProxyProofs` |
| `StatsRollup` | the log, the view, the refreshers, the end of `main`, GetStatsSummary | `StatsRollupProofs` |
| `Archive` | nothing in the code: what the table of blocks promises | refined by `Ingestor` |
| `Ingestor` | the ingestor's processes and loops, the chains, seeding, the networks' table with its deletions | `IngestorProofs` |
| `MC...` | small instances and symmetries of the eight | |

Every module has the same shape: constants with a named assumption, variables,
one action per step of the code that others can see, `Next`, `Fairness`, `Spec`,
and the properties. A definition that begins with "Mutant:" in its comment is a
plausible bug: it stands before the definition it would replace, is used by no
specification, and shows that a property notices that bug.

### Telemetry

`caller[j]` is the handler goroutine that hands record `j` over: `Check` is the
context check of `enqueue`, `Send` its non-blocking send. `queue` is the channel,
`worker` the program counter of the goroutine, `current` and `attempt` the locals
of `process`. `WriteFails` covers an error before and after Postgres committed, so
that `rows` may exceed `acked`. All timers may fire at any moment. `ProcessEnds`
is both the return of `main` and a kill. A record is one job; a job handed over
once is what `RecordUsage` and `RecordRequestLog` do. That a row of usage is
*added* to is why `rows` is counted per commit.

`Ledger` states the promise in three verbs: accepted, then stored or dropped,
once; lost only after close. `Telemetry` implements it under the mapping
`JobStatus`; the property is `LedgerSpec`.

### RpcClient

A slot is a handler goroutine in `Call` or `ProxyRaw`. An endpoint's answer is one
of six values: everything the code distinguishes of a response (transport error,
status class, whether the body is JSON-RPC, an error in it). `endpointsForCall` is
the *set* of orders `sort.Slice` can return. The exchange and the write of the
table that follows it are one step of the request (`Try`), guarded by the mutex;
a probe is two, because it holds the mutex while it reads. `Disconnect` is a client
that goes away: its exchanges fail, and the code counts that against the endpoint.
`steady` is the environment: endpoints that have settled to answer, and `sure` those
that had when a request began. `OneEndpointIsEnough` says that one of them is enough
for a request, whatever the health table says of it.

`url` is the list of addresses a client is made with; it may hold an address twice,
since neither the administration nor the seed nor the ingestor compares them. The
health table has an entry per address, as the code's map has; plans, probes and the
holder of the mutex are places of the list. An address that is there twice is asked
and counted twice by one request, and two rounds make it unhealthy instead of three.

`HealthChecks` is the interface of the client and the manager: rounds, the mutex kept in
a round only, and the end between two rounds once they are asked to end. `RpcClient`
implements it under the mapping `HC`, fairness included; the property is `ChecksSpec`.

### RateLimiter

A request reads the clock of its gateway once (`read`, `offset`) and then goes
through the limits that are not disabled. `Eval` is the script, `Live` the expiry of
the key, `ReplyLost` the redis client's retry. Time is in ticks at Redis.
The code does not bound the time between the reading of the clock and an EVAL (the
redis client's own timeouts are 3 to 5 seconds), and neither does the model: a request
may be so slow that the key of its window is gone. The key surely lasts `Slack` ticks
from the reading of the clock, 1, 60 and 3600 seconds less twice the error of the clocks;
an EVAL after that is `Late`, and the history variable `late` counts these for each
window. Each may open the quota once more, and nothing else may
(`AdmittedWithinQuota`).

### TenantAuth

`Lookup` is the SELECT with its loop: a match leaves the loop with the rows open,
so the connection stays taken. `AcquireForUpdate` and `UpdateLastUsed` are the UPDATE
of `last_used_at` on a second connection, which also waits for a row a rotation has
locked; `LoadTenant` is `GetTenantByID`, again on a second connection, and the return,
which closes the rows; `Store` is the cache. `QueryFails` is an error at any of them:
the UPDATE's is ignored, the others end in 401. The administrator's transaction is
`RotationBegins` (what its UPDATE sees under read committed), `RotationRevokes` (row
locks, second look), `RotationCommits` or `RotationRollsBack`. Of the tenant's
row only the network is kept, since nothing else of it changes while it exists;
key hashing is the identity of a row, bcrypt being what makes it so.
`LoadTenant` takes and returns its connection in one step: between them nothing
happens but a SELECT that waits for nothing. `Created` is what one transaction of
CreateTenantWithKey leaves. `MayStart` bounds what is begun in a behaviour, requests
and rotations together.

### NetworkManager

A network's configuration is a value (`configSignature`) or "off". A reload is
`List` (outside the lock), `ReloadLocks`, `ReloadCancels` and `ReloadNetwork` for
each network, `ReloadUnlocks`. `ListCutShort` is the list after an error in the
middle of its rows, which `ListBlockchainConfigs` does not look for. The RWMutex is
in the guards `Readable` and `Lockable`: a writer that waits keeps new readers out.
`visit` are the clients `/health/nodes` has still to ask, each behind its
`healthMu`: it may be asked between two rounds, and in one while no probe has the
mutex. A client is reduced to its health checks (none, between two rounds,
in a round): it is one that keeps the promise `HealthChecks`
(`ClientsKeepPromise`), which `RpcClient`, where the inside is modelled, keeps as well. A client that is not used any more
may be used again, which keeps the set of them finite (`Spare`). The behaviours begin after
Start; if the first reload fails the process exits.

`Directory` states what whoever asks the manager finds: the table as one reading had
it, all of it at once, and never an older reading than before; a reading may lack
rows, and after the end nothing is shown. `NetworkManager` implements it although it
reads outside the lock and changes its maps entry by entry: within the write lock
the map that counts is the one before the reload (`Shown`). The property is
`DirectorySpec`.

### Proxy

A request goes `Receive`, `ReadDefault` (if its tenant has no network), `GetClient`,
`CacheGet`, `Call`, `Store`; a batch ends with `ProxyRaw` instead. Each is a step, since
each is a call to Postgres, Redis, the manager or a node. `Finish` is `recordOutcome`
and the return: every one of the handler's returns is a use of it. A method
stands for a method with its parameters, a client for the version of the
configuration it was made for, and an answer carries its question, its client and
the time at which the request got that client, so that a property can ask where
it came from. What `Call` accepts is what `RpcClient` says: a result, a JSON-RPC
error, or the JSON text of an error status.

The manager is `NetworkManager` reduced to what `Get` shows: `List` reads the table,
`Replace` puts the clients of that list in place; what is in between in the code
happens under the write lock. It implements `Directory` as `NetworkManager` does
(`DirectorySpec`), so that the requests here are routed by what the manager has been
shown to promise. The cache expires (`Live`), forgets (`Evict`: the chart
sets `allkeys-lru`), fails (a miss, or a SET without effect) and may execute a
SET twice (`StoreReplyLost`). `MaxDelay` is the longest time from `Get` to the return; it
is an assumption about the environment, bounded in the code by the timeouts of the
HTTP and redis clients.

`CacheGet` is composed with what the other requests stored and with the reloads:
`AnswersAreOwnAndRecent` relates an answer to the version of its network at the
time it is served, several steps of several actors after it was given.

### StatsRollup

`queue[g]` is the recorder of gateway `g`, which promises what `Ledger` says: a record is
written once or given up. `createdAt` is the time at which its INSERT *began*, which
Postgres stamps it with, up to `CommitDelay` before others can see it. `loop[g]` is the
program counter of the refresher, `snap[g]` the snapshot of the REFRESH that runs: taken
when the statement begins (`RefreshBegins`, `FallsBack`), shown when it has the lock of
the view (`RefreshSucceeds`). `Abandons` is a client that gives up on a statement the
database may still run (`OrphanShows`). `main[g]` goes through `Signal`, `RefresherStops`,
`RecorderStops`, the deferred calls in their order, or `Kill`. A process that is started
again is another element of `Gateways`.

Rows leave the log again: `DeleteRows` is the deletion of a tenant, whose rows go with it
(`ON DELETE CASCADE` in migration 006), and the retention by age that
`src/docs/developers/telemetry.md:531` asks the operator to run, each one statement. Any set
of rows may go, since which ones they are makes no difference to the view. The
history variable `deletedAt` keeps when; `Written` are all rows there were, `Stored` those
that are left. The buckets of the view are laid out from any instant (`Phase`).

A summary is the *set* of rows it counts: `Ask` chooses the source, `CountTotals` is the
first statement, `CountLists` the four that follow, and `StatementFails` gives the view up
for the log, or the summary. `Counts` says what both sources count: whole minutes that
begin in the range, or rows in it.

### Ingestor

`config[n]` is the row of a network, `seed[g]` a gateway in `seedDefaultConfig` (read, then
insert, in nothing that holds the other gateways back), `deleting` the administrator's
transaction between its UPDATE of `blocks` and its DELETE. `shown[n]` is what the nodes of a
network have answered or may still answer, `head[n]` the latest; a lagging node answers
any of the former. `Lists` is the list with the error it does not look for (`cutShort`),
`Polls` the answer of the client, `Stores` and `StoreFails` the two ends of StoreBlock, `Ends`
the half second after the signal as well as a kill, `Restarts` the orchestrator.

`Archive` states the promise of the table of blocks: a block that was shown is kept if
its number is new, nothing kept is changed, and a network goes only if it has none.
`Ingestor` implements it with `known <- Configured`; the property is `ArchiveSpec`. What
readers of the table want follows from that alone (`OneChainOfEachNetwork`).

## 3. What is checked

Twelve runs: these eight pass, and four end in the violation they are there to
show (section 5).

| Run | Instance | Shows |
|---|---|---|
| `recorder` | 2 jobs, channel of 1 | types and capacity; each record reported once; no silent loss before Stop; a clean drain leaves only racers; after a clean Stop no write; the worker ends; the recorder implements the Ledger, fairness included |
| `client` | 2 addresses, or one configured twice, 1 slot, 2 latencies, one endpoint that may settle | one endpoint that answers is enough; quiet after Stop; requests return; the health checks implement `HealthChecks`, so that Stop's wait ends; a steady endpoint is healthy again and again |
| `limiter` | 3 requests, quotas 1, 2, 2, windows 2, 4, 8 ticks, one lost reply | quota; reasons for rejections; Retry-After short by less than a second |
| `auth` | 2 requests, 3 keys, 2 rotations, 3 connections, 3 of the four begun, 2 ticks | connections; staleness; rotations; refusals for cause; every lookup ends |
| `manager` | 1 network, 2 signatures, 3 clients, 1 request, 2 changes, 1 cut list | the manager implements the `Directory`; no stray checks; reloads converge; Get returns; Stop ends all health checks. Deadlock is checked |
| `proxy` | 2 requests, 2 networks, one cached method and one that is not, 1 change, 4 instants | answers own and recent; each end recorded once |
| `statistics` | 1 gateway, 1 row that may be deleted, 1 summary at a time, of a range of 1, 2 or 3, minutes of 3 ticks, 1 orphan, 3 instants | a summary is explained; the view follows the log; the shutdown ends |
| `ingestion` | 1 ingestor, started again and again, 2 gateways, 2 networks, one of which may settle, numbers and versions up to 2, 1 new head | the table of blocks is an Archive; seeding leaves a default; the head is stored in the end |

The other runs switch deadlock checking off because their systems stop: the
process ends, requests are run once, the clock has a horizon.

### Bounds, and why they are enough

* *Recorder.* Two jobs and a channel of one is the least in which the channel
  overflows (before the worker looks), a record waits behind another that is being
  retried, and a drain has a handler still outside. The safety properties and the
  refinement are proved for any number of jobs and any channel.
* *Client.* Two endpoints are an order and a failover; a request and the probes of
  two rounds count failures on one endpoint; `MaxFails` = 3 is the threshold, above
  which the code compares only with `>=`. Three endpoints add orders but no new
  comparison. One address configured twice is a client of its own, in which one request
  counts two failures. That any number of requests write the table safely is proved.
* *Limiter.* Quotas of 1, 2 and 2: the second request of a second exceeds the first
  limit, the third of a day the last; the limit of the minute, which the first one
  shields, is exceeded after a lost reply, or by a request so late that the counter of
  its second has expired. The windows nest as
  a second, a minute and a day do, and the lifetimes exceed them as in the code, in
  proportion; the five instants pass two boundaries of the shortest and
  one of the middle window, and a request may be late for the shortest. `Skew` is 0
  there; it is arbitrary in the proofs.
* *Authentication.* Two requests and a rotation, or a request and two rotations, are
  begun in a behaviour: requests that each hold a connection and wait for a second,
  a rotation that holds rows an UPDATE waits for, and two rotations of which one waits
  for the other; three keys are the first and one new key each. Three connections are one
  more than the requests that can hold one, which is the condition of liveness; with
  as many as requests the run `auth_pool` shows what happens. Ttl 0, MaxDelay 1 and
  a horizon of 2 let an entry be stored late, be served, and expire. The safety
  properties are proved for any number of requests, rotations and connections.
* *Manager.* With one network all interactions of reload, lock, health checks, Health,
  Get and Stop appear, liveness included. What several networks add is the
  independence of their entries, and that is proved for any number of them.

* *Proxy.* Two requests are one that stores and one that hits, or two that race; the
  second network is the other half of the key; one change with one reload makes a
  client out of date while its answers are cached. Ttl and MaxDelay of 1 let an
  answer be stored late, be hit, and expire within four instants.
* *Statistics.* One row is enough to be missed: it is stored before, during or after
  the snapshot, and it may be shown, taken away by an orphan with an older snapshot,
  shown again, deleted, and shown after its deletion. The clock begins one instant into a
  minute of three, so that a range of 1, 2 or 3 begins within the minute of the row,
  with it, or before it. `Recent` is 0, so the range is read from the view first and from
  the log after a failure. What several gateways and rows add to the safety property is
  covered by its proof.
* *Ingestion.* Two gateways race to seed; two networks are one that is seeded and one
  that the administrator adds or deletes; a new head is the next block or another
  version of the first, after which a node that lags still shows the old one, so
  that both versions of a number are in hand one after the other. Several
  ingestors at a time, which write the table concurrently, are covered by the proofs.

### Fairness

Weak fairness is given to goroutines that run (worker, reload, Stop, rollbacks),
strong fairness to steps a fair lock or a fair select grants although they are
disabled now and then: waiters of `sync.Mutex` and `sync.RWMutex` (starvation mode,
readers let in at an Unlock), Go's `select`, which chooses at random among ready
cases, so that a context that stays done is noticed, and exchanges that end by
the timeouts of the HTTP client. `Health` gets the `healthMu` of a client it visits
again and again while that is free of probes (`MutexIsFree`): between two rounds at the
latest. Weak fairness is enough for authentication: each
request is run once, so connections it needs come free and stay free. None is
given to the environment: no client has to send or go away, no timer has to fire
except Stop's, no administrator has to act, and no endpoint has to settle.

In `StatsRollup` the database answers a refresh again and again (strong fairness of
`RefreshSucceeds` and `FallsBack`): refreshes are tried every minute for ever, so an outage
that ends is enough; and the select chooses the context that is done. The ticker's next
refresh is weakly fair. In `Ingestor` the loops poll (weak fairness, given to nodes that
have settled: what others answer does not count), and the database takes a block again
and again (strong fairness of `Stores`), since each tick tries anew. That is what
becomes of errors; it also assumes that StoreBlock returns, which has no timeout in the
code: a database that never answers holds the loop of its network up
(`ingestor/main.go:148`). No orchestrator has to restart anything.

`AuthenticationEnds` holds under a condition that the run states as its instance:
more connections than requests. With as many misses as connections it does
not (section 5).

## 4. What is proved

All theorems are checked by TLAPS for every value of the constants under the named
assumption of the module (`TelemetryAssumption` and so on: distinct null values,
positive sizes, natural-number bounds, finitely many requests, no more).

| Module | Theorems | Along which argument |
|---|---|---|
| `TelemetryProofs` | `Invariance`, `TypeCorrect`, `Reported`, `NoSilentLoss`, `Attempts`, `CleanDrain`, `QuietAfterStop`, `Refinement`, `LossesExplained` | `IInv` says where a record can be and what has been counted for it there: a record that is not handed over, or in the channel, is untouched; in the worker `failures` follows from `attempt`. The bare properties are not inductive, since nothing in them forbids one record to be in the channel twice or in the channel and in the worker. For the losses `LossInv` adds where a record is that has not been settled when its handler has returned: with the worker, in the channel, or given up with an error counted |
| `RpcClientProofs` | `Invariance`, `TypeCorrect`, `HealthIsThreeFails`, `LockDiscipline`, `FailoverFindsEndpoint`, `HealthyFirst`, `StopIsFinal`, `KeepsPromise`, `WaitingEnds` | the table is right after each write whatever it was before; while its client stays, a request still has to try every endpoint that had settled when it began, since such an endpoint answers when it is tried (`PlanOK`); `StopOK` links Stop to the end of the goroutine, without which `QuietAfterStop` is not inductive; a round that is over has no probe left to hold the mutex (`LockIsHeldByItsProbe`), so that the client keeps the promise `HealthChecks`; whoever waits in the client waits for the probe that has the mutex or for a round, and either can go on |
| `RateLimiterProofs` | `Invariance`, `TypeCorrect`, `WithinQuota`, `RejectedForCause`, `KeysExpire`, `RetryAfterIsClose`, `BurstsAreBounded` | while no EVAL of a window was late, its key is alive, since it outlives `Slack` whatever the clocks; so each key but the last was followed by a late EVAL, and the keys of a window have let through its quota for each late EVAL at most (`Before`), the last one no more than its counter. A second, minute or day that begins anywhere touches two windows at most, each within its quota. A counter is at most the number of requests the limit let through or stopped, and of lost replies (`CountExplained`), none of which is ever taken back; so a rejection has its causes, and an expired key never rejects anyone |
| `TenantAuthProofs` | `Invariance`, `TypeCorrect`, `ConnectionsReturn`, `RotationsRevoke`, `Refusals`, `BoundedStaleness`, `PoolIsStuckIff`, `EnoughConnections` | connections are counted by the two sets of their holders (`Open`, `Second`); what a lookup found was true when it began, at most `MaxDelay` ago (`FillInv`); so an entry outlives its key by `Ttl + MaxDelay` at most (`CacheInv`); rotations lock disjoint sets of what they have seen (`RotationInv`). All connections are with lookups, so if none is free and no lookup can return one, as many as the pool has hold one and want a second; each is a request of its own, so more connections than requests rule it out |
| `ProxyProofs` | `Invariance`, `TypeCorrect`, `AnswersAreRight`, `ErrorsStayOut`, `Recorded`, `RoutesByTheDirectory` | a request under way has a client that its network had when it asked, or later (`RouteInv`, `Until`); what it stores is its own answer (`AnswerInv`); so an entry is for its key, no error, gone within `Ttl + MaxDelay` of the time its client was asked for (`CacheInv`). The property is not inductive: it says nothing of requests that are under way |
| `StatsRollupProofs` | `Invariance`, `TypeCorrect`, `SummariesAreExplained`, `SnapshotOrder`, `CountedRowsLeaveForCause`, `AloneViewGoesForward` | each snapshot, that of a statement under way, of an orphan and of the view, holds no row that was deleted before its time, and every row that is still in the log and whose INSERT had ended by then (`SnapInv`); so it stays whichever of them is shown last, and a row it lacks was late or is gone. No snapshot is of the future, and a row is written and deleted once (`HistoryStays`), so what a new one lacks of those before it was deleted between them (`SnapshotsTaken`, `OrderStays`); hence a row leaves the view by its deletion or by an older snapshot, and a refresher that is alone never shows an older one (`AloneInv`) |
| `IngestorProofs` | `Invariance`, `TypeCorrect`, `Seeded`, `Refinement`, `OneChain` | a loop has in hand what its own network has shown (`HandInv`), and a deletion is of a network that is there (`DeletingInv`); so each step is one of the Archive or a stutter, and an invariant of the Archive is one of the tables |
| `NetworkManagerProofs` | `Invariance`, `TypeCorrect`, `MapsFollowList`, `ChecksFollowMaps`, `ClientsAsPromised`, `Refinement`, `WaitingEnds` | within a reload the networks that are done show the new list, and the two maps have the same networks; a client leaves the map only when its health checks have ended, and one is made only where none run, so that each client's steps are steps of `HealthChecks`. Within the lock the old map stands for both, so a reload is one step of the Directory, its end. Whoever waits for the RWMutex waits for a holder that needs only health checks to end, which do |

`Refinement` of `TelemetryProofs` says that every step of the recorder is a step of the
Ledger or a stutter; the Ledger's fairness is checked by TLC only (`LedgerSpec`). That of
`IngestorProofs` is all of `ArchiveSpec`. `KeepsPromise` and `ClientsAsPromised` are the safety
part of `HealthChecks` on its two sides: what the manager is checked and proved with is
what the client has been shown to be. In the same way `NetworkManager` and the manager in `Proxy` both implement `Directory`.

Some results have a hypothesis beside the assumption of their module, each one a condition the
code or its operation decides:

| Theorem | Hypothesis | Without it |
|---|---|---|
| `EnoughConnections` | more connections than requests at a time | `PoolIsStuckIff` says exactly when lookups wait for ever, and the run `auth_pool` shows it |
| `WaitingEnds` of the manager | more identities of clients than networks, so that a reload finds one to use again | nothing in the code: there a client is allocated |
| `AloneViewGoesForward` | one gateway, no statement that outlives its client | a row that was counted may be missing, or one that was deleted counted, until the next refresh |

Two of the four runs that end in a violation have a theorem for the other side:
the losses of a record (`LossesExplained`) and the pool that is stuck (`PoolIsStuckIff`)
have the cause the run shows and no other.

These results are about properties no run repeats, because the proof says more than
an instance would; TLC has checked each on the instance of its component:
`BoundedAttempts`, `LossIsExplained`, `UnhealthyIffThreeFails`, `LockIsHeldByItsProbe`,
`BeginsWithFastestHealthy`, `NoCircularWait` (of the client and of the manager),
`EveryKeyExpires`, `BurstWithinTwiceQuota`, `StuckIffAllHold`, `LookupsGoOn`,
`RpcErrorsAreNotCached`, `DirectorySpec` of the proxy, `MapsShowTheList`, `ClientsKeepPromise`,
`SnapshotsAreOrdered`, `RowsLeaveForCause`, `ViewGoesForward` and `OneChainOfEachNetwork`.

`NoCircularWait`, `LookupsGoOn` and `StuckIffAllHold` are what can be said of waiting without
ENABLED: they name the step that can go on, with the guard that step has in the model.
That it is taken in the end is left to the liveness properties.

**Only model-checked:** liveness, since TLAPS proves nothing under fairness (no
ENABLED): the Ledger's fairness, `WorkerEnds`, `RequestsReturn`, the fairness of `ChecksSpec`,
`SteadyRecovers`, `AuthenticationEnds`, `ReloadsConverge`, `GetReturns`, `StopEndsChecks`,
`ViewFollowsLog`, `ShutdownEnds` and `CatchesUp`. Every safety property that a run
checks is proved. No module declares a recursive operator, and no proof needs
induction over data.

## 5. Where the code differs from what is written about it

Four runs end in a violation. Each property states a sentence of the documentation
or a comment; the counterexample is a behaviour of the code.

1. `recorder_loss_counted`: a record given up in the back-off, or left in the
   channel at the end, is not counted as dropped (`recorder.go:181`, `:132`), though
   the counter's help text and `src/docs/architecture/overview.md:107` say so.
2. `auth_pool`: as many concurrent cache misses as the pool has connections wait for
   one another for ever (`tenant_store.go:46`), though their keys match
   (`src/docs/users/authentication.md:51`).
3. `manager_downtime`: an error in the middle of the list of networks is taken for
   its end (`blockchain_config_store.go:18`), and a reload removes clients of enabled
   networks (`src/docs/architecture/overview.md:109`).
4. `proxy_caches_errors`: `Call` does not look at the HTTP status (`client.go:252`), so that
   a 429 or 503 with a JSON body is an answer and a success
   (`src/docs/admins/add-networks.md:252`, `src/docs/architecture/data-flow.md:193`); it is
   then stored (`proxy.go:171`), for up to a day, and served to everyone who asks, though
   "successful responses are cached" (`src/docs/architecture/data-flow.md:94`).

Met while modelling, without a run of their own:

* an error after the commit makes the recorder insert or add a record again
  (`BoundedAttempts` allows `rows` up to three); `src/docs/developers/telemetry.md:211`
* clients that disconnect count as failures of the endpoint
  (`src/docs/admins/monitoring.md:83`); `SteadyRecovers` holds only as
  "again and again"
* a request that is slow beyond the 1, 60 or 3600 seconds of slack finds the
  key of its window expired and starts counting anew (`AdmittedWithinQuota` says by how
  much); for the second the redis client's timeouts are longer than the slack;
  `src/docs/users/rate-limits.md:27`
* Retry-After is truncated to seconds, so a client that obeys it may come up to a
  second early (`RetryAfterWithinASecond` is the bound that does hold);
  `src/docs/users/rate-limits.md:82`
* "instantly" in `src/docs/users/authentication.md:82` is up to five minutes for a
  cached key (`StaleForAtMost`)
* two concurrent rotations can leave two active keys, since neither sees the key the
  other inserts (`RotationRevokesAll` therefore speaks of the keys that were seen);
  `src/docs/admins/add-tenants.md:192`
* the limiter comes before the cache, so that a hit counts against the quota;
  `src/docs/users/rate-limits.md:85` says that cacheable methods do not
* Redis may evict a counter as it may any key (`allkeys-lru`,
  `src/.helm/redis/values.yaml:14`); `RateLimiter` leaves that out, and the quota does not
  hold under it
* errors of the database are answered 401 (`auth.go:82`)
* a reload that has read its list when Stop comes fills the maps again after Stop has
  emptied them; its health checks end by themselves (`StopEndsChecks`)
* the rollup's Stop waits for a refresh it does not cancel (`refresher.go:44`), and it
  comes before the drain of the recorder: a grace period that ends meanwhile loses
  the whole queue (`Kill`; `src/docs/developers/telemetry.md:135`)
* the view lacks what its refresh came too early for, without a bound if refreshes
  fail; "60s" in `src/docs/developers/telemetry.md:329` is the interval of the attempts, and
  the first minute of a range is cut (`SummaryIsExplained` names both)
* the requests of a deleted tenant are counted until the next refresh that succeeds
  (`deletedAt` in `SummaryIsExplained`); `src/docs/admins/add-tenants.md:146`
* ranges of 15 minutes and more are always read from the view, whatever
  `src/docs/admins/monitoring.md:66` says of the log
* the lists of a summary, as all lists of this code, take an error in the middle of
  their rows for the end (`stats_store.go`, `blockchain_config_store.go:18`)
* the ingestor reads the list of networks once, and a list cut short keeps a network
  from being ingested until the next start, as does being added later (`CatchesUp` leaves
  both out; `src/docs/admins/monitoring.md:110`)
* a network that has blocks cannot be deleted: the UPDATE would set a column of the
  primary key to NULL (`DeleteUnlinks`; `src/docs/admins/add-networks.md:181`; the test of the
  repository uses a schema of its own)
* two gateways may both seed a default network, and which of the two is the default
  depends on the clock at which their transactions began; nothing in the code keeps
  them from it, and no property here forbids it
* `PUT /blockchain/{id}` and `PUT /tenants/{id}` answer `{"updated":true}` and change nothing
  (`admin/main.go:156`, `:249`; `src/docs/admins/add-networks.md:155`)
* only the creation of a tenant leaves an audit record, and an error of that is
  ignored (`src/docs/operators/security.md:341`)
* the loading flag of the dashboard stays set when a background poll starts before the
  first load has answered: that load is stale then, and neither clears the flag
  (`src/web/src/MonitoringSection.tsx:153`)

## 6. Not modelled, and why

* **Of the gateway process**: the start of the server, its routes and the redacted
  health report, which change no state. Its seeding is in `Ingestor`, its deferred calls
  in `StatsRollup` and `Telemetry`.
* **Usage and audit stores**: single statements that nothing else reads. The log is in
  `StatsRollup`. **Of the admin API**: routing, validation, the secret; its effects on
  keys, tenants and networks and its statistics are actions of the models.
* **SSRF checks, key generation, formatting**: pure functions of strings and addresses.
* **Metrics, logging, request ids, the dashboard, deployment, migrations**: no control
  depends on them. The constraints of the schema that the models use are named at the
  actions that use them: the cascades of a tenant's keys and log, and the key of the
  blocks, which SET NULL breaks.
* **The dashboard's polling** is the one concurrent part outside the backend; its hazard
  is listed, and no property covers it.
* Within the modelled parts: totals and metrics of the RPC client, the table a
  telemetry record goes to, columns of tenants that do not change, the unused
  single-limit function of the limiter (`redis.go:86`), the recording of outcomes
  without a recorder (`proxy.go:285`, not used by `main`).
* The clocks of the proxy's cache are one clock, that of Redis: the gateway does not
  compare times of its own with it.

## 7. Plan

Done in this order: `Telemetry` with `Ledger`, `RpcClient`, `RateLimiter`,
`TenantAuth`, `NetworkManager`, `Proxy`, `StatsRollup` (with the end of `main`), `Ingestor` with
`Archive` (with the seeding), each with its proofs, and `HealthChecks` between the client and the
manager. The manager's promise to
those who ask it is `Directory`, which the manager and its reduction in `Proxy` implement. An
abstract cache for `Proxy` is not stated: what it would promise, that a request is given only an
answer of its network's clients no older than allowed, is `AnswersAreOwnAndRecent`. Left:

1. The composition of `StatsRollup` with `Ledger` as a refinement: that the recorder
   reduced to `Accept`, `Write` and `Drop` is one the Ledger allows.
2. What a rotation leaves behind for the cache: the two halves of `TenantAuth` are proved
   separately, that a rotation revokes what it saw and that a revoked key is served
   for a bounded time.
3. The dashboard's polling, whose answers can overtake one another.

## 8. Running it

    tlc -workers 2 -config MCTenantAuth.cfg MCTenantAuth.tla
    tlapm TenantAuthProofs.tla

`PROJECT.json` pairs each run's module with its configuration, and each property
with the mutant that breaks it. The longest runs (`client`, `auth`,
`statistics`, `ingestion`) take about two minutes with two workers.

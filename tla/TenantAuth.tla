----------------------------- MODULE TenantAuth -----------------------------
(***************************************************************************)
(* gateway/middleware/auth.go with shared/storage/postgres/tenant_store.go:*)
(* a request is authenticated by its API key, from a cache in the memory   *)
(* of the gateway or, on a miss, by three statements on the gateway's pool *)
(* of database connections.  The rows of the first statement are still     *)
(* open when the other two run, so that a miss holds one connection while  *)
(* it waits for another.                                                   *)
(*                                                                         *)
(* Meanwhile the administrator, in another process with a pool of its own, *)
(* rotates keys, deletes the tenant, or deletes the network the tenant is  *)
(* assigned to.  A rotation is a transaction: what it revokes stays locked *)
(* until its end.                                                          *)
(*                                                                         *)
(* One tenant and its keys are modelled.  A key is its row in api_keys: the*)
(* prefix and the bcrypt hash find the row of the key and no other.  The   *)
(* tenant's row is reduced to its network, the column of it that the       *)
(* program ever changes.                                                   *)
(***************************************************************************)
EXTENDS Naturals, FiniteSets

CONSTANTS
    Requests,       \* requests, one handler goroutine each
    Keys,           \* API keys, used and to come
    FirstKey,       \* the key the tenant was created with
    Rotations,      \* calls of RotateAPIKey
    MaxConns,       \* POSTGRES_MAX_CONNS
    Ttl,            \* time to live of a cached tenant
    MaxDelay,       \* environment: the longest time from the lookup of a
                    \* key to the store of its tenant in the cache
    MaxStarted,     \* bound: requests and rotations that are begun
    Horizon         \* bound: the clock stops here

ASSUME TenantAuthAssumption ==
    /\ FirstKey \in Keys
    /\ MaxConns \in Nat \ {0}
    /\ Ttl \in Nat /\ MaxDelay \in Nat /\ MaxStarted \in Nat /\ Horizon \in Nat
    /\ IsFiniteSet(Requests)

Row == {"assigned", "unassigned", "absent"}
Final == {"served", "unauthorized"}

VARIABLES
    now,                    \* the clock of the gateway
    keyState, revokedAt,    \* api_keys: state of each row, when it was revoked
    row, leftAt,            \* the tenant's row, when it left a state
    cached, expiresAt,      \* TenantCache
    free,                   \* connections of the pool that nobody holds
    pc, key,                \* each request, and the key it presents
    lookedUp, tenant,       \* its locals: when it found the key, what it loaded
    knownKey, failed,       \* history: requests whose key was active when
                            \* they began; requests a database error met
    rotation, seen, locks   \* each rotation, the rows its UPDATE saw, the
                            \* rows it has revoked and holds locked

dbVars       == << keyState, revokedAt, row, leftAt >>
cacheVars    == << cached, expiresAt >>
localVars    == << key, lookedUp, tenant, knownKey >>
requestVars  == << free, pc, localVars, failed >>
rotationVars == << rotation, seen, locks >>
vars == << now, dbVars, cacheVars, requestVars, rotationVars >>

Time == 0 .. Horizon

\* What CreateTenantWithKey leaves, or nothing of it: one transaction inserts the
\* tenant, with a network or without, and its first key.
Created ==
    /\ row \in {"assigned", "unassigned"}
    /\ keyState = [k \in Keys |-> IF k = FirstKey THEN "active" ELSE "unborn"]

Init ==
    /\ now = 0
    /\ Created
    /\ revokedAt = [k \in Keys |-> 0]
    /\ leftAt = [s \in Row |-> 0]
    /\ cached = [k \in Keys |-> "none"]
    /\ expiresAt = [k \in Keys |-> 0]
    /\ free = MaxConns
    /\ pc = [r \in Requests |-> "idle"]
    /\ key = [r \in Requests |-> FirstKey]
    /\ lookedUp = [r \in Requests |-> 0]
    /\ tenant = [r \in Requests |-> "none"]
    /\ knownKey = {}
    /\ failed = {}
    /\ rotation = [t \in Rotations |-> "idle"]
    /\ seen = [t \in Rotations |-> {}]
    /\ locks = [t \in Rotations |-> {}]

Active == {k \in Keys : keyState[k] = "active"}
Locked == UNION {locks[t] : t \in Rotations}

\* The bound on what is begun.
MayStart ==
    Cardinality({r \in Requests : pc[r] # "idle"})
        + Cardinality({t \in Rotations : rotation[t] # "idle"}) < MaxStarted

-----------------------------------------------------------------------------
(* The middleware and GetTenantByAPIKey                                    *)

\* Mutant: an entry is valid for ever.
HitForever(k) == cached[k] # "none"

\* TenantCache.Get: the entry is there and now is not after its expiry.
Hit(k) == cached[k] # "none" /\ now \leq expiresAt[k]

Arrive(r, k) ==
    /\ pc[r] = "idle" /\ MayStart
    /\ key' = [key EXCEPT ![r] = k]
    /\ knownKey' = IF k \in Active THEN knownKey \union {r} ELSE knownKey
    /\ pc' = [pc EXCEPT ![r] = IF Hit(k) THEN "served" ELSE "lookup"]
    /\ UNCHANGED << now, dbVars, cacheVars, free, lookedUp, tenant, failed, rotationVars >>

\* The SELECT and its loop.  A match leaves the loop with the rows, and their
\* connection, still open; without one the rows are read to their end.
Lookup(r) ==
    /\ pc[r] = "lookup" /\ free > 0
    /\ \/ /\ key[r] \in Active
          /\ pc' = [pc EXCEPT ![r] = "matched"]
          /\ free' = free - 1
          /\ lookedUp' = [lookedUp EXCEPT ![r] = now]
       \/ /\ key[r] \notin Active
          /\ pc' = [pc EXCEPT ![r] = "unauthorized"]
          /\ UNCHANGED << free, lookedUp >>
    /\ UNCHANGED << now, dbVars, cacheVars, key, tenant, knownKey, failed, rotationVars >>

\* Mutant: the pool opens as many connections as are asked for.
AcquireUnbounded(r) ==
    /\ pc[r] = "matched"
    /\ pc' = [pc EXCEPT ![r] = "updating"]
    /\ free' = free - 1
    /\ UNCHANGED << now, dbVars, cacheVars, localVars, failed, rotationVars >>

\* A second connection, for the UPDATE of last_used_at.
AcquireForUpdate(r) ==
    /\ pc[r] = "matched" /\ free > 0
    /\ pc' = [pc EXCEPT ![r] = "updating"]
    /\ free' = free - 1
    /\ UNCHANGED << now, dbVars, cacheVars, localVars, failed, rotationVars >>

\* Mutant: the UPDATE does not wait, and its failure refuses the request.
UpdateLastUsedNoWait(r) ==
    /\ pc[r] = "updating"
    /\ pc' = [pc EXCEPT ![r] = IF key[r] \in Locked THEN "unauthorized" ELSE "loading"]
    /\ free' = IF key[r] \in Locked THEN free + 2 ELSE free + 1
    /\ UNCHANGED << now, dbVars, cacheVars, localVars, failed, rotationVars >>

\* Mutant: the UPDATE runs in a transaction that is still open on return.
UpdateLastUsedInTx(r) ==
    /\ pc[r] = "updating" /\ key[r] \notin Locked
    /\ pc' = [pc EXCEPT ![r] = "loading"]
    /\ UNCHANGED << now, dbVars, cacheVars, free, localVars, failed, rotationVars >>

\* The UPDATE waits for a rotation that holds the row.
UpdateLastUsed(r) ==
    /\ pc[r] = "updating" /\ key[r] \notin Locked
    /\ pc' = [pc EXCEPT ![r] = "loading"]
    /\ free' = free + 1
    /\ UNCHANGED << now, dbVars, cacheVars, localVars, failed, rotationVars >>

\* Mutant: the rows stay open when the tenant is gone.
LoadTenantLeaks(r) ==
    /\ pc[r] = "loading" /\ free > 0
    /\ tenant' = [tenant EXCEPT ![r] = row]
    /\ pc' = [pc EXCEPT ![r] = IF row = "absent" THEN "unauthorized" ELSE "loaded"]
    /\ free' = IF row = "absent" THEN free ELSE free + 1
    /\ UNCHANGED << now, dbVars, cacheVars, key, lookedUp, knownKey, failed, rotationVars >>

\* GetTenantByID, on a second connection again, and the return, which closes
\* the rows.
LoadTenant(r) ==
    /\ pc[r] = "loading" /\ free > 0
    /\ tenant' = [tenant EXCEPT ![r] = row]
    /\ pc' = [pc EXCEPT ![r] = IF row = "absent" THEN "unauthorized" ELSE "loaded"]
    /\ free' = free + 1
    /\ UNCHANGED << now, dbVars, cacheVars, key, lookedUp, knownKey, failed, rotationVars >>

\* TenantCache.Set, and the next handler.
Store(r) ==
    /\ pc[r] = "loaded"
    /\ cached' = [cached EXCEPT ![key[r]] = tenant[r]]
    /\ expiresAt' = [expiresAt EXCEPT ![key[r]] = now + Ttl]
    /\ pc' = [pc EXCEPT ![r] = "served"]
    /\ UNCHANGED << now, dbVars, free, localVars, failed, rotationVars >>

\* An error of the database, or a client that goes away.  That of the UPDATE
\* is ignored, the others refuse the request and close the rows.
QueryFails(r) ==
    /\ \/ /\ pc[r] = "matched"
          /\ pc' = [pc EXCEPT ![r] = "loading"]
          /\ UNCHANGED << free, failed >>
       \/ /\ pc[r] = "updating"
          /\ pc' = [pc EXCEPT ![r] = "loading"]
          /\ free' = free + 1
          /\ UNCHANGED failed
       \/ /\ pc[r] \in {"lookup", "loading"}
          /\ pc' = [pc EXCEPT ![r] = "unauthorized"]
          /\ free' = IF pc[r] = "loading" THEN free + 1 ELSE free
          /\ failed' = failed \union {r}
    /\ UNCHANGED << now, dbVars, cacheVars, localVars, rotationVars >>

Authenticate(r) ==
    Lookup(r) \/ AcquireForUpdate(r) \/ UpdateLastUsed(r) \/ LoadTenant(r) \/ Store(r)

-----------------------------------------------------------------------------
(* The administrator                                                       *)

\* RotateAPIKey begins its transaction; its UPDATE sees the rows committed by
\* now, and waits for those that another transaction holds.
RotationBegins(t) ==
    /\ rotation[t] = "idle" /\ MayStart
    /\ rotation' = [rotation EXCEPT ![t] = "updating"]
    /\ seen' = [seen EXCEPT ![t] = Active]
    /\ UNCHANGED << now, dbVars, cacheVars, requestVars, locks >>

\* Mutant: rows that are locked are skipped.
RotationRevokesUnlocked(t) ==
    /\ rotation[t] = "updating"
    /\ rotation' = [rotation EXCEPT ![t] = "revoked"]
    /\ locks' = [locks EXCEPT ![t] = (seen[t] \intersect Active) \ Locked]
    /\ UNCHANGED << now, dbVars, cacheVars, requestVars, seen >>

\* Having waited it looks again at the rows it has seen, and at no others.
RotationRevokes(t) ==
    /\ rotation[t] = "updating" /\ seen[t] \intersect Locked = {}
    /\ rotation' = [rotation EXCEPT ![t] = "revoked"]
    /\ locks' = [locks EXCEPT ![t] = seen[t] \intersect Active]
    /\ UNCHANGED << now, dbVars, cacheVars, requestVars, seen >>

\* The new key is inserted, and the transaction committed.
RotationCommits(t) ==
    /\ rotation[t] = "revoked" /\ row # "absent"
    /\ \E new \in {k \in Keys : keyState[k] = "unborn"} :
          keyState' = [k \in Keys |-> CASE k \in locks[t] -> "revoked"
                                        [] k = new -> "active"
                                        [] OTHER -> keyState[k]]
    /\ revokedAt' = [k \in Keys |-> IF k \in locks[t] THEN now ELSE revokedAt[k]]
    /\ rotation' = [rotation EXCEPT ![t] = "committed"]
    /\ locks' = [locks EXCEPT ![t] = {}]
    /\ UNCHANGED << now, row, leftAt, cacheVars, requestVars, seen >>

\* An error, or the end of the process.
RotationRollsBack(t) ==
    /\ rotation[t] \in {"updating", "revoked"}
    /\ rotation' = [rotation EXCEPT ![t] = "aborted"]
    /\ locks' = [locks EXCEPT ![t] = {}]
    /\ UNCHANGED << now, dbVars, cacheVars, requestVars, seen >>

\* DeleteTenant removes the keys with the tenant (ON DELETE CASCADE) and waits
\* for rotations that hold some.
DeleteTenant ==
    /\ row # "absent" /\ Locked = {}
    /\ row' = "absent"
    /\ leftAt' = [leftAt EXCEPT ![row] = now]
    /\ keyState' = [k \in Keys |-> IF k \in Active THEN "revoked" ELSE keyState[k]]
    /\ revokedAt' = [k \in Keys |-> IF k \in Active THEN now ELSE revokedAt[k]]
    /\ UNCHANGED << now, cacheVars, requestVars, rotationVars >>

\* DeleteBlockchainConfig: the network of the tenant becomes NULL.
DeleteNetwork ==
    /\ row = "assigned"
    /\ row' = "unassigned"
    /\ leftAt' = [leftAt EXCEPT ![row] = now]
    /\ UNCHANGED << now, keyState, revokedAt, cacheVars, requestVars, rotationVars >>

RotationStep(t) == RotationRevokes(t) \/ RotationCommits(t) \/ RotationRollsBack(t)

-----------------------------------------------------------------------------
Filling == {"matched", "updating", "loading", "loaded"}

Tick ==
    /\ now < Horizon
    /\ \A r \in Requests : pc[r] \in Filling => now < lookedUp[r] + MaxDelay
    /\ now' = now + 1
    /\ UNCHANGED << dbVars, cacheVars, requestVars, rotationVars >>

Next ==
    \/ \E r \in Requests : Authenticate(r) \/ QueryFails(r) \/ \E k \in Keys : Arrive(r, k)
    \/ \E t \in Rotations : RotationBegins(t) \/ RotationStep(t)
    \/ DeleteTenant \/ DeleteNetwork
    \/ Tick

\* The pool serves its waiters, Postgres ends the transactions.
Fairness ==
    /\ \A r \in Requests : WF_vars(Authenticate(r))
    /\ \A t \in Rotations : WF_vars(RotationStep(t))

Spec == Init /\ [][Next]_vars /\ Fairness

-----------------------------------------------------------------------------
(* Properties                                                              *)

\* Types, and the pool is never overdrawn.
TypeOK ==
    /\ now \in Time
    /\ keyState \in [Keys -> {"unborn", "active", "revoked"}]
    /\ revokedAt \in [Keys -> Time]
    /\ row \in Row /\ leftAt \in [Row -> Time]
    /\ cached \in [Keys -> Row \union {"none"}]
    /\ expiresAt \in [Keys -> 0 .. Horizon + Ttl]
    /\ free \in 0 .. MaxConns
    /\ pc \in [Requests -> {"idle", "lookup"} \union Filling \union Final]
    /\ key \in [Requests -> Keys]
    /\ lookedUp \in [Requests -> Time]
    /\ tenant \in [Requests -> Row \union {"none"}]
    /\ knownKey \subseteq Requests /\ failed \subseteq Requests
    /\ rotation \in [Rotations -> {"idle", "updating", "revoked", "committed", "aborted"}]
    /\ seen \in [Rotations -> SUBSET Keys]
    /\ locks \in [Rotations -> SUBSET Keys]

Holding(states) == {r \in Requests : pc[r] \in states}

\* Whatever fails on the way, each connection is free or held by a request that
\* is between its lookup and its return (tenant_store.go:26, 46, 51).
NoConnectionLeaks ==
    free + Cardinality(Holding({"matched", "updating", "loading"}))
         + Cardinality(Holding({"updating"})) = MaxConns

Serves(r) == pc[r] # "served" /\ pc'[r] = "served"
Recent(t) == now \leq t + Ttl + MaxDelay

\* A request is served for a key that is active or was revoked no longer ago
\* than the cache keeps an entry and a lookup takes, and as a tenant whose row
\* is current or was within the same time (auth.go:35, 91).
StaleForAtMost ==
    [][\A r \in Requests : Serves(r) =>
        LET k == key'[r] IN
        /\ keyState[k] # "unborn"
        /\ keyState[k] = "revoked" => Recent(revokedAt[k])
        /\ cached'[k] \in {"assigned", "unassigned"}
        /\ cached'[k] # row => Recent(leftAt[cached'[k]])]_vars

\* A rotation that is committed has revoked every key that was active when its
\* UPDATE began, whatever other rotations did in between; and what it holds
\* locked stays active until it ends (tenant_store.go:272-282).
RotationRevokesAll ==
    /\ \A t \in Rotations : rotation[t] = "committed" =>
          \A k \in seen[t] : keyState[k] = "revoked"
    /\ \A t \in Rotations : \A k \in locks[t] : keyState[k] = "active"

\* A request whose key was active when it came is refused only if the key has
\* been revoked meanwhile or the database failed (auth.go:81-86).
RefusedOnlyForCause ==
    \A r \in knownKey \ failed :
        pc[r] = "unauthorized" => keyState[key[r]] = "revoked"

\* With more connections than concurrent misses every lookup ends, also the
\* one that waits for the row lock of a rotation (tenant_store.go:46).
AuthenticationEnds == \A r \in Requests : pc[r] = "lookup" ~> pc[r] \in Final

\* A lookup has what its next statement waits for: a connection, or the row.
GoesOn(r) ==
    \/ pc[r] \in {"lookup", "matched", "loading"} /\ free > 0
    \/ pc[r] = "updating" /\ key[r] \notin Locked
    \/ pc[r] = "loaded"

\* If there are lookups then one goes on, or one waits for a rotation, and that has
\* its locks and waits for nobody.
LookupsGoOn ==
    \/ \A r \in Requests : pc[r] \in {"idle"} \union Final
    \/ \E r \in Requests : GoesOn(r)
    \/ \E r \in Requests, t \in Rotations :
          pc[r] = "updating" /\ key[r] \in locks[t] /\ rotation[t] = "revoked"

\* The lookups wait for one another exactly if as many of them as there are
\* connections hold one and want a second (tenant_store.go:26, 46, 51).
StuckIffAllHold ==
    ~LookupsGoOn <=>
        /\ Cardinality(Holding({"matched", "loading"})) = MaxConns
        /\ Holding({"loaded"}) = {}

\* What the guide says: a request whose key matches and is not revoked is
\* authenticated (unless the database fails it).
MatchIsAuthenticated ==
    \A r \in Requests :
        pc[r] = "matched" ~> pc[r] = "served" \/ keyState[key[r]] = "revoked" \/ r \in failed

=============================================================================

-------------------------- MODULE TenantAuthProofs --------------------------
(***************************************************************************)
(* Proofs about TenantAuth for any number of requests, keys, rotations and *)
(* connections and for every time to live: connections do not leak, old    *)
(* keys and tenants are served for a bounded time only, rotations revoke   *)
(* what they should, and requests are refused for a cause only.            *)
(***************************************************************************)
EXTENDS TenantAuth, FiniteSetTheorems, TLAPS

-----------------------------------------------------------------------------
(* The inductive invariant                                                 *)

\* What a rotation has seen and locked; no key of a deleted tenant is active.
RotationInv ==
    /\ \A t \in Rotations :
          /\ locks[t] \subseteq seen[t] \intersect Active
          /\ rotation[t] # "revoked" => locks[t] = {}
          /\ rotation[t] = "idle" => seen[t] = {}
          /\ \A k \in seen[t] :
                /\ keyState[k] # "unborn"
                /\ rotation[t] = "revoked" => k \in locks[t] \/ keyState[k] = "revoked"
                /\ rotation[t] = "committed" => keyState[k] = "revoked"
    /\ \A t, u \in Rotations : t # u => locks[t] \intersect locks[u] = {}
    /\ row = "absent" => Active = {}

\* What a lookup has found was true when it began, and that is not long ago.
FillInv ==
    \A r \in Requests : pc[r] \in Filling =>
        /\ lookedUp[r] \leq now /\ now \leq lookedUp[r] + MaxDelay
        /\ keyState[key[r]] # "unborn"
        /\ keyState[key[r]] = "revoked" => lookedUp[r] \leq revokedAt[key[r]]
        /\ pc[r] = "loaded" =>
              /\ tenant[r] \in {"assigned", "unassigned"}
              /\ tenant[r] # row => lookedUp[r] \leq leftAt[tenant[r]]

\* An entry does not outlive its key, or the row it shows, by much.
CacheInv ==
    \A k \in Keys : cached[k] # "none" =>
        /\ keyState[k] # "unborn"
        /\ cached[k] \in {"assigned", "unassigned"}
        /\ expiresAt[k] \leq now + Ttl
        /\ keyState[k] = "revoked" => expiresAt[k] \leq revokedAt[k] + Ttl + MaxDelay
        /\ cached[k] # row => expiresAt[k] \leq leftAt[cached[k]] + Ttl + MaxDelay

\* A request whose key was active when it came.
KnownInv ==
    /\ \A r \in knownKey : pc[r] # "idle" /\ keyState[key[r]] # "unborn"
    /\ RefusedOnlyForCause

Inv == TypeOK /\ NoConnectionLeaks /\ RotationInv /\ FillInv /\ CacheInv /\ KnownInv

LEMMA Initial == Init => Inv
<1> SUFFICES ASSUME Init PROVE Inv
    OBVIOUS
<1> USE TenantAuthAssumption
<1>1. TypeOK
    BY DEF Init, Created, TypeOK, Time, Row, Final, Filling
<1>2. NoConnectionLeaks
  <2>1. Holding({"matched", "updating", "loading"}) = {} /\ Holding({"updating"}) = {}
      BY DEF Init, Created, Holding
  <2>2. Cardinality({}) = 0
      BY FS_EmptySet
  <2>3. free = MaxConns /\ MaxConns \in Nat
      BY DEF Init, Created
  <2> QED
      BY <2>1, <2>2, <2>3 DEF NoConnectionLeaks
<1>3. RotationInv
    BY DEF Init, Created, RotationInv, Active
<1>4. FillInv /\ CacheInv /\ KnownInv
    BY DEF Init, Created, FillInv, CacheInv, KnownInv, RefusedOnlyForCause, Filling
<1> QED
    BY <1>1, <1>2, <1>3, <1>4 DEF Inv

-----------------------------------------------------------------------------
(* Connections                                                             *)

\* A request enters or leaves a set of requests.
LEMMA Counting ==
    ASSUME NEW S, IsFiniteSet(S), NEW x
    PROVE  /\ Cardinality(S) \in Nat
           /\ x \notin S => Cardinality(S \union {x}) = Cardinality(S) + 1
           /\ x \in S => /\ Cardinality(S \ {x}) = Cardinality(S) - 1
                         /\ Cardinality(S \ {x}) \in Nat
<1>1. Cardinality(S) \in Nat /\ IsFiniteSet(S \ {x})
    BY FS_CardinalityType, FS_Subset
<1>2. x \notin S => Cardinality(S \union {x}) = Cardinality(S) + 1
    BY FS_AddElement
<1>3. x \in S => Cardinality(S \ {x}) = Cardinality(S) - 1
    BY FS_RemoveElement
<1>4. Cardinality(S \ {x}) \in Nat
    BY <1>1, FS_CardinalityType
<1> QED
    BY <1>1, <1>2, <1>3, <1>4

\* The holders of rows that are open, and of a connection for the UPDATE.
Open == {r \in Requests : pc[r] \in {"matched", "updating", "loading"}}
Second == {r \in Requests : pc[r] = "updating"}

LEMMA HoldersFinite == /\ IsFiniteSet(Open) /\ IsFiniteSet(Second)
                       /\ IsFiniteSet(Open') /\ IsFiniteSet(Second')
<1>1. /\ Open \subseteq Requests /\ Second \subseteq Requests
      /\ Open' \subseteq Requests /\ Second' \subseteq Requests
    BY DEF Open, Second
<1> QED
    BY <1>1, FS_Subset, TenantAuthAssumption

Accounted == free + Cardinality(Open) + Cardinality(Second) = MaxConns

LEMMA HoldersAre == NoConnectionLeaks <=> Accounted
<1>1. Holding({"matched", "updating", "loading"}) = Open
    BY DEF Holding, Open
<1>2. Holding({"updating"}) = Second
    BY DEF Holding, Second
<1> QED
    BY <1>1, <1>2 DEF NoConnectionLeaks, Accounted

LEMMA HoldersAreNext == NoConnectionLeaks' <=> Accounted'
<1>1. Holding({"matched", "updating", "loading"})' = Open'
    BY DEF Holding, Open
<1>2. Holding({"updating"})' = Second'
    BY DEF Holding, Second
<1> QED
    BY <1>1, <1>2 DEF NoConnectionLeaks, Accounted

\* A step of one request moves it, and no other, in and out of these sets.
Moved(r, s) == pc'[r] = s /\ \A q \in Requests \ {r} : pc'[q] = pc[q]

LEMMA HoldersMove ==
    ASSUME NEW r \in Requests, NEW s, Moved(r, s)
    PROVE  LET opens == {"matched", "updating", "loading"} IN
           /\ pc[r] \notin opens /\ s \notin opens
                => Open' = Open /\ Second' = Second
           /\ pc[r] = "matched" /\ s = "loading"
                => Open' = Open /\ Second' = Second
           /\ pc[r] \notin opens /\ s = "matched"
                => r \notin Open /\ Open' = Open \union {r} /\ Second' = Second
           /\ pc[r] = "matched" /\ s = "updating"
                => r \notin Second /\ Open' = Open /\ Second' = Second \union {r}
           /\ pc[r] = "updating" /\ s = "loading"
                => r \in Second /\ Open' = Open /\ Second' = Second \ {r}
           /\ pc[r] = "loading" /\ s \notin opens
                => r \in Open /\ Open' = Open \ {r} /\ Second' = Second
BY DEF Moved, Open, Second

\* Each step of a request takes and returns the connections it should.
LEMMA Connections ==
    ASSUME TypeOK, NoConnectionLeaks, Next \/ UNCHANGED vars
    PROVE  NoConnectionLeaks' /\ free' \in 0 .. MaxConns
<1>1. /\ free \in Nat /\ MaxConns \in Nat /\ Accounted
      /\ Cardinality(Open) \in Nat /\ Cardinality(Second) \in Nat
      /\ Cardinality(Open') \in Nat /\ Cardinality(Second') \in Nat
    BY HoldersFinite, HoldersAre, FS_CardinalityType, TenantAuthAssumption DEF TypeOK
<1>2. DOMAIN pc = Requests
    BY DEF TypeOK
<1> SUFFICES Accounted' /\ free' \in Nat
    BY <1>1, HoldersAreNext DEF Accounted
<1>3. ASSUME free' = free, Open' = Open, Second' = Second
      PROVE  Accounted' /\ free' \in Nat
    BY <1>1, <1>3 DEF Accounted
<1>4. ASSUME NEW r, r \notin Open, Open' = Open \union {r}, Second' = Second,
             free > 0, free' = free - 1
      PROVE  Accounted' /\ free' \in Nat
  <2>1. Cardinality(Open') = Cardinality(Open) + 1
      BY <1>4, HoldersFinite, Counting
  <2> QED
      BY <1>1, <1>4, <2>1 DEF Accounted
<1>5. ASSUME NEW r, r \notin Second, Open' = Open, Second' = Second \union {r},
             free > 0, free' = free - 1
      PROVE  Accounted' /\ free' \in Nat
  <2>1. Cardinality(Second') = Cardinality(Second) + 1
      BY <1>5, HoldersFinite, Counting
  <2> QED
      BY <1>1, <1>5, <2>1 DEF Accounted
<1>6. ASSUME NEW r, r \in Second, Open' = Open, Second' = Second \ {r}, free' = free + 1
      PROVE  Accounted' /\ free' \in Nat
  <2>1. Cardinality(Second') = Cardinality(Second) - 1
      BY <1>6, HoldersFinite, Counting
  <2> QED
      BY <1>1, <1>6, <2>1 DEF Accounted
<1>7. ASSUME NEW r, r \in Open, Open' = Open \ {r}, Second' = Second, free' = free + 1
      PROVE  Accounted' /\ free' \in Nat
  <2>1. Cardinality(Open') = Cardinality(Open) - 1
      BY <1>7, HoldersFinite, Counting
  <2> QED
      BY <1>1, <1>7, <2>1 DEF Accounted
<1>8. ASSUME NEW r \in Requests, NEW k \in Keys, Arrive(r, k)
      PROVE  Accounted' /\ free' \in Nat
  <2>1. PICK s \in {"served", "lookup"} : Moved(r, s) /\ pc[r] = "idle" /\ free' = free
      BY <1>2, <1>8 DEF Arrive, Moved
  <2> QED
      BY <1>3, <2>1, HoldersMove
<1>9. ASSUME NEW r \in Requests, Lookup(r)
      PROVE  Accounted' /\ free' \in Nat
  <2>1. CASE key[r] \in Active
    <3>1. Moved(r, "matched") /\ pc[r] = "lookup" /\ free > 0 /\ free' = free - 1
        BY <1>2, <1>9, <2>1 DEF Lookup, Moved
    <3> QED
        BY <1>4, <3>1, HoldersMove
  <2>2. CASE key[r] \notin Active
    <3>1. Moved(r, "unauthorized") /\ pc[r] = "lookup" /\ free' = free
        BY <1>2, <1>9, <2>2 DEF Lookup, Moved
    <3> QED
        BY <1>3, <3>1, HoldersMove
  <2> QED
      BY <2>1, <2>2
<1>10. ASSUME NEW r \in Requests, AcquireForUpdate(r)
       PROVE  Accounted' /\ free' \in Nat
  <2>1. Moved(r, "updating") /\ pc[r] = "matched" /\ free > 0 /\ free' = free - 1
      BY <1>2, <1>10 DEF AcquireForUpdate, Moved
  <2> QED
      BY <1>5, <2>1, HoldersMove
<1>11. ASSUME NEW r \in Requests, free' = free + 1, pc[r] = "updating",
              Moved(r, "loading")
       PROVE  Accounted' /\ free' \in Nat
    BY <1>6, <1>11, HoldersMove
<1>12. ASSUME NEW r \in Requests, free' = free + 1, pc[r] = "loading",
              NEW s \in {"unauthorized", "loaded"}, Moved(r, s)
       PROVE  Accounted' /\ free' \in Nat
    BY <1>7, <1>12, HoldersMove
<1>13. ASSUME NEW r \in Requests, UpdateLastUsed(r)
       PROVE  Accounted' /\ free' \in Nat
    BY <1>2, <1>11, <1>13 DEF UpdateLastUsed, Moved
<1>14. ASSUME NEW r \in Requests, LoadTenant(r)
       PROVE  Accounted' /\ free' \in Nat
    BY <1>2, <1>12, <1>14 DEF LoadTenant, Moved
<1>15. ASSUME NEW r \in Requests, Store(r)
       PROVE  Accounted' /\ free' \in Nat
  <2>1. Moved(r, "served") /\ pc[r] = "loaded" /\ free' = free
      BY <1>2, <1>15 DEF Store, Moved
  <2> QED
      BY <1>3, <2>1, HoldersMove
<1>16. ASSUME NEW r \in Requests, QueryFails(r)
       PROVE  Accounted' /\ free' \in Nat
  <2>1. CASE pc[r] = "matched"
    <3>1. Moved(r, "loading") /\ free' = free
        BY <1>2, <1>16, <2>1 DEF QueryFails, Moved
    <3> QED
        BY <1>3, <2>1, <3>1, HoldersMove
  <2>2. CASE pc[r] = "updating"
      BY <1>2, <1>11, <1>16, <2>2 DEF QueryFails, Moved
  <2>3. CASE pc[r] = "lookup"
    <3>1. Moved(r, "unauthorized") /\ free' = free
        BY <1>2, <1>16, <2>3 DEF QueryFails, Moved
    <3> QED
        BY <1>3, <2>3, <3>1, HoldersMove
  <2>4. CASE pc[r] = "loading"
      BY <1>2, <1>12, <1>16, <2>4 DEF QueryFails, Moved
  <2> QED
      BY <1>16, <2>1, <2>2, <2>3, <2>4 DEF QueryFails
<1>17. ASSUME UNCHANGED << free, pc >>
       PROVE  Accounted' /\ free' \in Nat
  <2>1. Open' = Open /\ Second' = Second
      BY <1>17 DEF Open, Second
  <2> QED
      BY <1>3, <1>17, <2>1
<1> QED
  <2>1. ASSUME NEW t \in Rotations, RotationBegins(t) \/ RotationStep(t)
        PROVE  UNCHANGED << free, pc >>
      BY <2>1 DEF RotationBegins, RotationStep, RotationRevokes, RotationCommits,
                  RotationRollsBack, requestVars
  <2>2. DeleteTenant \/ DeleteNetwork \/ Tick \/ UNCHANGED vars => UNCHANGED << free, pc >>
      BY DEF DeleteTenant, DeleteNetwork, Tick, vars, requestVars
  <2> QED
      BY <1>8, <1>9, <1>10, <1>13, <1>14, <1>15, <1>16, <1>17, <2>1, <2>2 DEF Next, Authenticate

-----------------------------------------------------------------------------
(* Rotations and the database                                              *)

LEMMA LockedFact == \A k : k \in Locked <=> \E t \in Rotations : k \in locks[t]
BY DEF Locked

\* A rotation revokes what it has locked, and nothing that another has.
LEMMA Rotating ==
    ASSUME TypeOK, RotationInv, Next \/ UNCHANGED vars
    PROVE  RotationInv'
<1>1. ASSUME UNCHANGED << rotationVars, keyState, row >>
      PROVE  RotationInv'
    BY <1>1 DEF RotationInv, Active, rotationVars
<1>2. ASSUME NEW t \in Rotations, RotationBegins(t)
      PROVE  RotationInv'
    BY <1>2 DEF TypeOK, RotationInv, RotationBegins, Active, dbVars
<1>3. ASSUME NEW t \in Rotations, RotationRevokes(t)
      PROVE  RotationInv'
  <2> USE DEF TypeOK, RotationInv, RotationRevokes, dbVars
  <2>1. locks' = [locks EXCEPT ![t] = seen[t] \intersect Active] /\ Active' = Active
      BY <1>3 DEF Active
  <2>2. \A u \in Rotations : u # t => locks'[t] \intersect locks'[u] = {}
      BY <1>3, <2>1, LockedFact
  <2>3. \A k \in seen[t] : keyState[k] # "unborn" /\ (k \in Active \/ keyState[k] = "revoked")
      BY <1>3 DEF Active
  <2> QED
      BY <1>3, <2>1, <2>2, <2>3
<1>4. ASSUME NEW t \in Rotations, RotationCommits(t)
      PROVE  RotationInv'
  <2> USE DEF TypeOK, RotationInv
  <2>1. PICK new \in Keys : /\ keyState[new] = "unborn"
                            /\ keyState' = [k \in Keys |-> CASE k \in locks[t] -> "revoked"
                                                             [] k = new -> "active"
                                                             [] OTHER -> keyState[k]]
      BY <1>4 DEF RotationCommits
  <2>2. \A k \in Keys : /\ k \in locks[t] => keyState'[k] = "revoked"
                        /\ k \notin locks[t] /\ k # new => keyState'[k] = keyState[k]
                        /\ k \notin locks[t] /\ k = new => keyState'[k] = "active"
      BY <2>1
  <2>3. \A u \in Rotations : new \notin seen[u]
      BY <2>1
  <2>4. /\ locks' = [locks EXCEPT ![t] = {}] /\ seen' = seen /\ row' = row
        /\ rotation' = [rotation EXCEPT ![t] = "committed"]
        /\ rotation[t] = "revoked" /\ row # "absent"
      BY <1>4 DEF RotationCommits
  <2>5. \A u \in Rotations : locks'[u] \subseteq seen'[u] \intersect Active'
    <3> SUFFICES ASSUME NEW u \in Rotations, NEW k \in locks'[u]
                 PROVE  k \in seen'[u] /\ k \in Keys /\ keyState'[k] = "active"
        BY DEF Active
    <3>1. u # t /\ k \in locks[u] /\ k \notin locks[t]
        BY <2>4
    <3>2. k \in seen[u] /\ k \in Keys /\ keyState[k] = "active"
        BY <3>1 DEF Active
    <3> QED
        BY <2>2, <2>3, <2>4, <3>1, <3>2
  <2>6. \A u \in Rotations : \A k \in seen'[u] :
          /\ keyState'[k] # "unborn"
          /\ rotation'[u] = "revoked" => k \in locks'[u] \/ keyState'[k] = "revoked"
          /\ rotation'[u] = "committed" => keyState'[k] = "revoked"
      BY <2>2, <2>3, <2>4
  <2> QED
      BY <2>4, <2>5, <2>6
<1>5. ASSUME NEW t \in Rotations, RotationRollsBack(t)
      PROVE  RotationInv'
    BY <1>5 DEF TypeOK, RotationInv, RotationRollsBack, Active, dbVars
<1>6. ASSUME DeleteTenant
      PROVE  RotationInv'
  <2> USE DEF TypeOK, RotationInv
  <2>1. \A t \in Rotations : locks[t] = {}
      BY <1>6, LockedFact DEF DeleteTenant
  <2>2. Active' = {}
      BY <1>6 DEF DeleteTenant, Active
  <2>3. \A k \in Keys : keyState'[k] = IF keyState[k] = "active" THEN "revoked" ELSE keyState[k]
      BY <1>6 DEF DeleteTenant, Active
  <2> QED
      BY <1>6, <2>1, <2>2, <2>3 DEF DeleteTenant, rotationVars
<1>7. ASSUME DeleteNetwork
      PROVE  RotationInv'
    BY <1>7 DEF RotationInv, DeleteNetwork, Active, rotationVars
<1> QED
  <2>1. ASSUME NEW r \in Requests,
               Authenticate(r) \/ QueryFails(r) \/ \E k \in Keys : Arrive(r, k)
        PROVE  UNCHANGED << rotationVars, keyState, row >>
      BY <2>1 DEF Authenticate, Lookup, AcquireForUpdate, UpdateLastUsed, LoadTenant, Store,
                  QueryFails, Arrive, dbVars
  <2>2. Tick \/ UNCHANGED vars => UNCHANGED << rotationVars, keyState, row >>
      BY DEF Tick, vars, dbVars
  <2> QED
      BY <1>1, <1>2, <1>3, <1>4, <1>5, <1>6, <1>7, <2>1, <2>2 DEF Next, RotationStep

\* A key is revoked once and for good, and the time is noted; so it is with the
\* states of the tenant's row.
KeyMoves ==
    \A k \in Keys :
        /\ keyState[k] # "unborn" => keyState'[k] # "unborn"
        /\ keyState[k] = "revoked" => keyState'[k] = "revoked" /\ revokedAt'[k] = revokedAt[k]
        /\ keyState[k] # "revoked" /\ keyState'[k] = "revoked" => revokedAt'[k] = now

RowMoves ==
    \A s \in {"assigned", "unassigned"} : s # row' =>
        IF s = row THEN leftAt'[s] = now ELSE leftAt'[s] = leftAt[s]

LEMMA Moves ==
    ASSUME TypeOK, RotationInv, Next \/ UNCHANGED vars
    PROVE  KeyMoves /\ RowMoves
<1>1. ASSUME UNCHANGED dbVars
      PROVE  KeyMoves /\ RowMoves
    BY <1>1 DEF dbVars, KeyMoves, RowMoves
<1>2. ASSUME NEW t \in Rotations, RotationCommits(t)
      PROVE  KeyMoves /\ RowMoves
  <2> USE DEF TypeOK, RotationInv
  <2>1. PICK new \in Keys : /\ keyState[new] = "unborn"
                            /\ keyState' = [k \in Keys |-> CASE k \in locks[t] -> "revoked"
                                                             [] k = new -> "active"
                                                             [] OTHER -> keyState[k]]
      BY <1>2 DEF RotationCommits
  <2>2. \A k \in Keys : /\ k \in locks[t] => keyState'[k] = "revoked"
                        /\ k \notin locks[t] /\ k # new => keyState'[k] = keyState[k]
                        /\ k \notin locks[t] /\ k = new => keyState'[k] = "active"
      BY <2>1
  <2>3. \A k \in Keys : revokedAt'[k] = IF k \in locks[t] THEN now ELSE revokedAt[k]
      BY <1>2 DEF RotationCommits
  <2>4. \A k \in locks[t] : keyState[k] = "active"
      BY DEF Active
  <2> QED
      BY <1>2, <2>1, <2>2, <2>3, <2>4 DEF RotationCommits, KeyMoves, RowMoves
<1>3. ASSUME DeleteTenant
      PROVE  KeyMoves /\ RowMoves
    BY <1>3 DEF DeleteTenant, Active, TypeOK, KeyMoves, RowMoves, Row
<1>4. ASSUME DeleteNetwork
      PROVE  KeyMoves /\ RowMoves
    BY <1>4 DEF DeleteNetwork, TypeOK, KeyMoves, RowMoves, Row
<1> QED
  <2>1. ASSUME NEW r \in Requests,
               Authenticate(r) \/ QueryFails(r) \/ \E k \in Keys : Arrive(r, k)
        PROVE  UNCHANGED dbVars
      BY <2>1 DEF Authenticate, Lookup, AcquireForUpdate, UpdateLastUsed, LoadTenant, Store,
                  QueryFails, Arrive
  <2>2. ASSUME NEW t \in Rotations,
               RotationBegins(t) \/ RotationRevokes(t) \/ RotationRollsBack(t)
        PROVE  UNCHANGED dbVars
      BY <2>2 DEF RotationBegins, RotationRevokes, RotationRollsBack
  <2>3. Tick \/ UNCHANGED vars => UNCHANGED dbVars
      BY DEF Tick, vars
  <2> QED
      BY <1>1, <1>2, <1>3, <1>4, <2>1, <2>2, <2>3 DEF Next, RotationStep

-----------------------------------------------------------------------------
(* Requests and the cache                                                  *)

LEMMA Types ==
    ASSUME TypeOK, free' \in 0 .. MaxConns, Next \/ UNCHANGED vars
    PROVE  TypeOK'
<1> USE TenantAuthAssumption DEF TypeOK, Time, Row, Filling, Final
<1>1. ASSUME NEW r \in Requests, Authenticate(r)
      PROVE  TypeOK'
  <2>1. Lookup(r) => TypeOK'
      BY DEF Lookup, dbVars, cacheVars, rotationVars
  <2>2. AcquireForUpdate(r) \/ UpdateLastUsed(r) => TypeOK'
      BY DEF AcquireForUpdate, UpdateLastUsed, dbVars, cacheVars, localVars, rotationVars
  <2>3. LoadTenant(r) => TypeOK'
      BY DEF LoadTenant, dbVars, cacheVars, rotationVars
  <2>4. Store(r) => TypeOK'
    <3> SUFFICES ASSUME Store(r) PROVE TypeOK'
        OBVIOUS
    <3>1. now + Ttl \in 0 .. Horizon + Ttl
        OBVIOUS
    <3> QED
        BY <3>1 DEF Store, dbVars, localVars, rotationVars
  <2> QED
      BY <1>1, <2>1, <2>2, <2>3, <2>4 DEF Authenticate
<1>2. ASSUME NEW r \in Requests, QueryFails(r)
      PROVE  TypeOK'
  <2>1. /\ pc' \in [Requests -> {"idle", "lookup"} \union Filling \union Final]
        /\ failed' \subseteq Requests
      BY <1>2 DEF QueryFails
  <2> QED
      BY <1>2, <2>1 DEF QueryFails, dbVars, cacheVars, localVars, rotationVars
<1>3. ASSUME NEW r \in Requests, NEW k \in Keys, Arrive(r, k)
      PROVE  TypeOK'
    BY <1>3 DEF Arrive, dbVars, cacheVars, rotationVars
<1>4. ASSUME NEW t \in Rotations, RotationBegins(t) \/ RotationRevokes(t) \/ RotationRollsBack(t)
      PROVE  TypeOK'
  <2>1. /\ rotation' \in [Rotations -> {"idle", "updating", "revoked", "committed", "aborted"}]
        /\ seen' \in [Rotations -> SUBSET Keys] /\ locks' \in [Rotations -> SUBSET Keys]
      BY <1>4 DEF RotationBegins, RotationRevokes, RotationRollsBack, Active
  <2>2. UNCHANGED << now, dbVars, cacheVars, requestVars >>
      BY <1>4 DEF RotationBegins, RotationRevokes, RotationRollsBack
  <2> QED
      BY <2>1, <2>2 DEF dbVars, cacheVars, requestVars, localVars
<1>5. ASSUME NEW t \in Rotations, RotationCommits(t)
      PROVE  TypeOK'
  <2>1. /\ keyState' \in [Keys -> {"unborn", "active", "revoked"}]
        /\ revokedAt' \in [Keys -> Time]
        /\ rotation' \in [Rotations -> {"idle", "updating", "revoked", "committed", "aborted"}]
        /\ locks' \in [Rotations -> SUBSET Keys]
      BY <1>5 DEF RotationCommits
  <2> QED
      BY <1>5, <2>1 DEF RotationCommits, cacheVars, requestVars, localVars
<1>6. ASSUME DeleteTenant \/ DeleteNetwork
      PROVE  TypeOK'
    BY <1>6 DEF DeleteTenant, DeleteNetwork, cacheVars, requestVars, localVars, rotationVars
<1>7. ASSUME Tick \/ UNCHANGED vars
      PROVE  TypeOK'
    BY <1>7 DEF Tick, vars, dbVars, cacheVars, requestVars, localVars, rotationVars
<1> QED
    BY <1>1, <1>2, <1>3, <1>4, <1>5, <1>6, <1>7 DEF Next, RotationStep

\* What requests and the cache do to one another is as the code says, whatever
\* the database does meanwhile.
Quiet == UNCHANGED << now, cacheVars, requestVars >> /\ KeyMoves /\ RowMoves

LEMMA Elsewhere ==
    ASSUME TypeOK, RotationInv,
           \/ \E t \in Rotations : RotationBegins(t) \/ RotationStep(t)
           \/ DeleteTenant \/ DeleteNetwork \/ UNCHANGED vars
    PROVE  Quiet
<1>1. KeyMoves /\ RowMoves
    BY Moves DEF Next
<1>2. UNCHANGED << now, cacheVars, requestVars >>
    BY DEF RotationBegins, RotationStep, RotationRevokes, RotationCommits, RotationRollsBack,
           DeleteTenant, DeleteNetwork, vars
<1> QED
    BY <1>1, <1>2 DEF Quiet

LEMMA FillingStep ==
    ASSUME TypeOK, RotationInv, FillInv, Next \/ UNCHANGED vars
    PROVE  FillInv'
<1> USE TenantAuthAssumption
<1>1. ASSUME Quiet
      PROVE  FillInv'
  <2> SUFFICES ASSUME NEW r \in Requests, pc[r] \in Filling
               PROVE  /\ lookedUp[r] \leq now /\ now \leq lookedUp[r] + MaxDelay
                      /\ keyState'[key[r]] # "unborn"
                      /\ keyState'[key[r]] = "revoked" => lookedUp[r] \leq revokedAt'[key[r]]
                      /\ pc[r] = "loaded" =>
                            /\ tenant[r] \in {"assigned", "unassigned"}
                            /\ tenant[r] # row' => lookedUp[r] \leq leftAt'[tenant[r]]
      BY <1>1 DEF FillInv, Quiet, requestVars, localVars
  <2>1. key[r] \in Keys
      BY DEF TypeOK
  <2> QED
      BY <1>1, <2>1 DEF FillInv, Quiet, KeyMoves, RowMoves
<1>2. ASSUME NEW r \in Requests, NEW k \in Keys, Arrive(r, k)
      PROVE  FillInv'
    BY <1>2 DEF Arrive, FillInv, Filling, TypeOK, dbVars
<1>3. ASSUME NEW r \in Requests, Lookup(r)
      PROVE  FillInv'
  <2>1. now \leq now + MaxDelay
      BY DEF TypeOK, Time
  <2> QED
      BY <1>3, <2>1 DEF Lookup, FillInv, Filling, TypeOK, Time, dbVars, Active
<1>4. ASSUME NEW r \in Requests, AcquireForUpdate(r) \/ UpdateLastUsed(r)
      PROVE  FillInv'
    BY <1>4 DEF AcquireForUpdate, UpdateLastUsed, FillInv, Filling, TypeOK, dbVars, localVars
<1>5. ASSUME NEW r \in Requests, LoadTenant(r)
      PROVE  FillInv'
    BY <1>5 DEF LoadTenant, FillInv, Filling, TypeOK, Row, dbVars
<1>6. ASSUME NEW r \in Requests, Store(r)
      PROVE  FillInv'
    BY <1>6 DEF Store, FillInv, Filling, TypeOK, dbVars, localVars
<1>7. ASSUME NEW r \in Requests, QueryFails(r)
      PROVE  FillInv'
    BY <1>7 DEF QueryFails, FillInv, Filling, TypeOK, dbVars, localVars
<1>8. ASSUME Tick
      PROVE  FillInv'
  <2> SUFFICES ASSUME NEW r \in Requests, pc[r] \in Filling
               PROVE  lookedUp[r] \leq now' /\ now' \leq lookedUp[r] + MaxDelay
      BY <1>8 DEF Tick, FillInv, dbVars, requestVars, localVars
  <2>1. lookedUp[r] \in Nat /\ now \in Nat /\ MaxDelay \in Nat /\ lookedUp[r] \leq now
      BY DEF FillInv, TypeOK, Time
  <2>2. now < lookedUp[r] + MaxDelay /\ now' = now + 1
      BY <1>8 DEF Tick
  <2> QED
      BY <2>1, <2>2
<1> QED
    BY <1>1, <1>2, <1>3, <1>4, <1>5, <1>6, <1>7, <1>8, Elsewhere DEF Next, Authenticate

LEMMA CacheStep ==
    ASSUME TypeOK, RotationInv, FillInv, CacheInv, Next \/ UNCHANGED vars
    PROVE  CacheInv'
<1> USE TenantAuthAssumption
<1>1. ASSUME Quiet
      PROVE  CacheInv'
  <2> SUFFICES ASSUME NEW k \in Keys, cached[k] # "none"
               PROVE  /\ keyState'[k] # "unborn"
                      /\ keyState'[k] = "revoked" => expiresAt[k] \leq revokedAt'[k] + Ttl + MaxDelay
                      /\ cached[k] # row' => expiresAt[k] \leq leftAt'[cached[k]] + Ttl + MaxDelay
      BY <1>1 DEF CacheInv, Quiet, cacheVars
  <2>1. expiresAt[k] \leq now + Ttl /\ now + Ttl \leq now + Ttl + MaxDelay
      BY DEF CacheInv, TypeOK, Time
  <2>2. expiresAt[k] \in Nat /\ now \in Nat
      BY DEF TypeOK, Time
  <2>3. expiresAt[k] \leq now + Ttl + MaxDelay
      BY <2>1, <2>2
  <2> QED
      BY <1>1, <2>3 DEF CacheInv, Quiet, KeyMoves, RowMoves
<1>2. ASSUME UNCHANGED << now, dbVars, cacheVars >>
      PROVE  CacheInv'
    BY <1>2 DEF CacheInv, dbVars, cacheVars
<1>3. ASSUME NEW r \in Requests, Store(r)
      PROVE  CacheInv'
  <2>1. /\ key[r] \in Keys /\ now \in Nat /\ lookedUp[r] \in Nat
        /\ lookedUp[r] \leq now /\ now \leq lookedUp[r] + MaxDelay
        /\ keyState[key[r]] # "unborn"
        /\ keyState[key[r]] = "revoked" => lookedUp[r] \leq revokedAt[key[r]]
        /\ tenant[r] \in {"assigned", "unassigned"}
        /\ tenant[r] # row => lookedUp[r] \leq leftAt[tenant[r]]
      BY <1>3 DEF Store, FillInv, Filling, TypeOK, Time
  <2>2. \A at \in Nat : lookedUp[r] \leq at => now + Ttl \leq at + Ttl + MaxDelay
      BY <2>1
  <2>3. revokedAt[key[r]] \in Nat /\ leftAt[tenant[r]] \in Nat
      BY <2>1 DEF TypeOK, Time, Row
  <2>4. /\ cached' = [cached EXCEPT ![key[r]] = tenant[r]]
        /\ expiresAt' = [expiresAt EXCEPT ![key[r]] = now + Ttl]
        /\ UNCHANGED << now, keyState, revokedAt, row, leftAt >>
      BY <1>3 DEF Store, dbVars
  <2>5. cached \in [Keys -> Row \union {"none"}] /\ expiresAt \in [Keys -> 0 .. Horizon + Ttl]
      BY DEF TypeOK
  <2>6. now + Ttl \leq now + Ttl
      BY <2>1
  <2> SUFFICES ASSUME NEW k \in Keys, cached'[k] # "none"
               PROVE  /\ keyState[k] # "unborn"
                      /\ cached'[k] \in {"assigned", "unassigned"}
                      /\ expiresAt'[k] \leq now + Ttl
                      /\ keyState[k] = "revoked" => expiresAt'[k] \leq revokedAt[k] + Ttl + MaxDelay
                      /\ cached'[k] # row => expiresAt'[k] \leq leftAt[cached'[k]] + Ttl + MaxDelay
      BY <2>4 DEF CacheInv
  <2>7. CASE k = key[r]
    <3>1. cached'[k] = tenant[r] /\ expiresAt'[k] = now + Ttl
        BY <2>4, <2>5, <2>7
    <3> QED
        BY <2>1, <2>2, <2>3, <2>6, <2>7, <3>1
  <2>8. CASE k # key[r]
    <3>1. cached'[k] = cached[k] /\ expiresAt'[k] = expiresAt[k]
        BY <2>4, <2>5, <2>8
    <3> QED
        BY <3>1 DEF CacheInv
  <2> QED
      BY <2>7, <2>8
<1>4. ASSUME Tick
      PROVE  CacheInv'
  <2>1. \A k \in Keys : expiresAt[k] \leq now + Ttl => expiresAt[k] \leq now + 1 + Ttl
      BY DEF TypeOK, Time
  <2> QED
      BY <1>4, <2>1 DEF Tick, CacheInv, dbVars, cacheVars
<1> QED
  <2>1. ASSUME NEW r \in Requests,
               \/ QueryFails(r) \/ \E k \in Keys : Arrive(r, k)
               \/ Lookup(r) \/ AcquireForUpdate(r) \/ UpdateLastUsed(r) \/ LoadTenant(r)
        PROVE  UNCHANGED << now, dbVars, cacheVars >>
      BY <2>1 DEF QueryFails, Arrive, Lookup, AcquireForUpdate, UpdateLastUsed, LoadTenant
  <2> QED
      BY <1>1, <1>2, <1>3, <1>4, <2>1, Elsewhere DEF Next, Authenticate

LEMMA KnownStep ==
    ASSUME TypeOK, RotationInv, FillInv, KnownInv, Next \/ UNCHANGED vars
    PROVE  KnownInv'
<1> USE DEF KnownInv, RefusedOnlyForCause, TypeOK
<1>1. ASSUME Quiet
      PROVE  KnownInv'
    BY <1>1 DEF Quiet, KeyMoves, requestVars, localVars
<1>2. ASSUME NEW r \in Requests, NEW k \in Keys, Arrive(r, k)
      PROVE  KnownInv'
    BY <1>2 DEF Arrive, Active, dbVars
<1>3. ASSUME NEW r \in Requests, Lookup(r)
      PROVE  KnownInv'
    BY <1>3 DEF Lookup, Active, dbVars
<1>4. ASSUME NEW r \in Requests, AcquireForUpdate(r) \/ UpdateLastUsed(r)
      PROVE  KnownInv'
    BY <1>4 DEF AcquireForUpdate, UpdateLastUsed, dbVars, localVars
<1>5. ASSUME NEW r \in Requests, LoadTenant(r)
      PROVE  KnownInv'
  <2>1. row = "absent" => keyState[key[r]] # "active"
      BY DEF RotationInv, Active
  <2> QED
      BY <1>5, <2>1 DEF LoadTenant, dbVars
<1>6. ASSUME NEW r \in Requests, Store(r)
      PROVE  KnownInv'
    BY <1>6 DEF Store, dbVars, localVars
<1>7. ASSUME NEW r \in Requests, QueryFails(r)
      PROVE  KnownInv'
    BY <1>7 DEF QueryFails, dbVars, localVars
<1>8. ASSUME Tick
      PROVE  KnownInv'
    BY <1>8 DEF Tick, dbVars, requestVars, localVars
<1> QED
    BY <1>1, <1>2, <1>3, <1>4, <1>5, <1>6, <1>7, <1>8, Elsewhere DEF Next, Authenticate

-----------------------------------------------------------------------------
(* The theorems                                                            *)

\* The inductive invariant holds (all of auth.go:17-97, tenant_store.go:15-69,
\* 262-292).
THEOREM Invariance == Spec => []Inv
<1>1. Init => Inv
    BY Initial
<1>2. Inv /\ [Next]_vars => Inv'
  <2> SUFFICES ASSUME Inv, Next \/ UNCHANGED vars PROVE Inv'
      OBVIOUS
  <2>1. NoConnectionLeaks' /\ free' \in 0 .. MaxConns
      BY Connections DEF Inv
  <2>2. TypeOK'
      BY <2>1, Types DEF Inv
  <2>3. RotationInv' /\ FillInv'
      BY Rotating, FillingStep DEF Inv
  <2>4. CacheInv' /\ KnownInv'
      BY CacheStep, KnownStep DEF Inv
  <2> QED
      BY <2>1, <2>2, <2>3, <2>4 DEF Inv
<1> QED
    BY <1>1, <1>2, PTL DEF Spec

\* Types are right, and the pool is not overdrawn (tenant_store.go:26, 46, 51).
THEOREM TypeCorrect == Spec => []TypeOK
<1>1. Inv => TypeOK
    BY DEF Inv
<1> QED
    BY <1>1, Invariance, PTL

\* No path of a lookup, with errors or without, loses a connection
\* (tenant_store.go:26-69).
THEOREM ConnectionsReturn == Spec => []NoConnectionLeaks
<1>1. Inv => NoConnectionLeaks
    BY DEF Inv
<1> QED
    BY <1>1, Invariance, PTL

\* Concurrent rotations and deletions leave no key active that a committed
\* rotation has seen (tenant_store.go:272-282).
THEOREM RotationsRevoke == Spec => []RotationRevokesAll
<1>1. Inv => RotationRevokesAll
    BY DEF Inv, RotationInv, RotationRevokesAll, Active
<1> QED
    BY <1>1, Invariance, PTL

\* A key that was active when the request came is refused for a cause only
\* (auth.go:81-86).
THEOREM Refusals == Spec => []RefusedOnlyForCause
<1>1. Inv => RefusedOnlyForCause
    BY DEF Inv, KnownInv
<1> QED
    BY <1>1, Invariance, PTL

\* Revoked keys and former tenants are served no longer than the cache and a
\* lookup explain (auth.go:35, 91).
THEOREM BoundedStaleness == Spec => StaleForAtMost
<1> DEFINE Fresh(r) ==
        LET k == key'[r] IN
        /\ keyState[k] # "unborn"
        /\ keyState[k] = "revoked" => Recent(revokedAt[k])
        /\ cached'[k] \in {"assigned", "unassigned"}
        /\ cached'[k] # row => Recent(leftAt[cached'[k]])
<1>1. Inv /\ [Next]_vars => [\A r \in Requests : Serves(r) => Fresh(r)]_vars
  <2> SUFFICES ASSUME Inv, Next, NEW r \in Requests, Serves(r)
               PROVE  Fresh(r)
      OBVIOUS
  <2> USE TenantAuthAssumption
  <2>0. TypeOK /\ FillInv /\ CacheInv
      BY DEF Inv
  <2>1. ASSUME NEW k \in Keys, Arrive(r, k)
        PROVE  Fresh(r)
    <3>1. key'[r] = k /\ cached' = cached /\ Hit(k)
        BY <2>0, <2>1 DEF Arrive, Serves, cacheVars, TypeOK
    <3>2. now \in Nat /\ expiresAt[k] \in Nat /\ \A i \in Keys : revokedAt[i] \in Nat
        BY <2>0 DEF TypeOK, Time
    <3>3. /\ keyState[k] # "unborn" /\ cached[k] \in {"assigned", "unassigned"}
          /\ keyState[k] = "revoked" => expiresAt[k] \leq revokedAt[k] + Ttl + MaxDelay
          /\ cached[k] # row => expiresAt[k] \leq leftAt[cached[k]] + Ttl + MaxDelay
          /\ now \leq expiresAt[k]
        BY <2>0, <3>1 DEF CacheInv, Hit
    <3>4. leftAt[cached[k]] \in Nat
        BY <2>0, <3>3 DEF TypeOK, Time, Row
    <3> QED
        BY <3>1, <3>2, <3>3, <3>4 DEF Recent
  <2>2. ASSUME Store(r)
        PROVE  Fresh(r)
    <3>1. key[r] \in Keys /\ key'[r] = key[r] /\ cached'[key[r]] = tenant[r]
        BY <2>0, <2>2 DEF Store, localVars, TypeOK
    <3>2. /\ now \in Nat /\ lookedUp[r] \in Nat /\ now \leq lookedUp[r] + MaxDelay
          /\ keyState[key[r]] # "unborn"
          /\ keyState[key[r]] = "revoked" => lookedUp[r] \leq revokedAt[key[r]]
          /\ tenant[r] \in {"assigned", "unassigned"}
          /\ tenant[r] # row => lookedUp[r] \leq leftAt[tenant[r]]
        BY <2>0, <2>2 DEF Store, FillInv, Filling, TypeOK, Time
    <3>3. revokedAt[key[r]] \in Nat /\ leftAt[tenant[r]] \in Nat
        BY <2>0, <3>1, <3>2 DEF TypeOK, Time, Row
    <3>4. \A at \in Nat : lookedUp[r] \leq at => now \leq at + Ttl + MaxDelay
        BY <3>2
    <3> QED
        BY <3>1, <3>2, <3>3, <3>4 DEF Recent
  <2>3. (\E k \in Keys : Arrive(r, k)) \/ Store(r)
    <3>1. ASSUME NEW q \in Requests, q # r,
                 Authenticate(q) \/ QueryFails(q) \/ \E k \in Keys : Arrive(q, k)
          PROVE  pc'[r] = pc[r]
        BY <2>0, <3>1 DEF TypeOK, Authenticate, Lookup, AcquireForUpdate, UpdateLastUsed, LoadTenant,
                          Store, QueryFails, Arrive
    <3>2. Lookup(r) \/ AcquireForUpdate(r) \/ UpdateLastUsed(r) \/ LoadTenant(r) \/ QueryFails(r)
            => pc'[r] # "served"
        BY <2>0 DEF TypeOK, Lookup, AcquireForUpdate, UpdateLastUsed, LoadTenant, QueryFails
    <3>3. ASSUME NEW t \in Rotations, RotationBegins(t) \/ RotationStep(t)
          PROVE  pc' = pc
        BY <3>3 DEF RotationBegins, RotationStep, RotationRevokes, RotationCommits,
                    RotationRollsBack, requestVars
    <3>4. DeleteTenant \/ DeleteNetwork \/ Tick => pc' = pc
        BY DEF DeleteTenant, DeleteNetwork, Tick, requestVars
    <3> QED
        BY <3>1, <3>2, <3>3, <3>4 DEF Next, Serves, Authenticate
  <2> QED
      BY <2>1, <2>2, <2>3
<1> QED
    BY <1>1, Invariance, PTL DEF Spec, StaleForAtMost


-----------------------------------------------------------------------------
(* The pool                                                                *)

\* Requests that hold a connection and want a second.
Wanting == Holding({"matched", "loading"})

LEMMA WantingFinite ==
    /\ IsFiniteSet(Wanting) /\ Cardinality(Wanting) \in Nat
    /\ Cardinality(Wanting) \leq Cardinality(Open)
    /\ Cardinality(Open) \in Nat /\ Cardinality(Second) \in Nat
<1>1. Wanting \subseteq Open
    BY DEF Wanting, Holding, Open
<1> QED
    BY <1>1, HoldersFinite, FS_Subset, FS_CardinalityType

\* Lookups that cannot go on hold all connections.
LEMMA StuckHoldAll ==
    ASSUME Inv, ~LookupsGoOn
    PROVE  Cardinality(Wanting) = MaxConns /\ Holding({"loaded"}) = {}
<1>1. Holding({"loaded"}) = {}
    BY DEF LookupsGoOn, GoesOn, Holding
<1>2. \A r \in Requests : pc[r] # "updating"
  <2> SUFFICES ASSUME NEW r \in Requests, pc[r] = "updating"
               PROVE  FALSE
      OBVIOUS
  <2>1. key[r] \in Locked
      BY DEF LookupsGoOn, GoesOn
  <2>2. PICK t \in Rotations : key[r] \in locks[t]
      BY <2>1, LockedFact
  <2>3. rotation[t] = "revoked"
      BY <2>2 DEF Inv, RotationInv
  <2> QED
      BY <2>2, <2>3 DEF LookupsGoOn
<1>3. Second = {} /\ Wanting = Open
    BY <1>2 DEF Second, Wanting, Holding, Open
<1>4. free = 0
  <2>1. PICK r \in Requests : pc[r] \notin {"idle"} \union Final
      BY DEF LookupsGoOn
  <2>2. pc[r] \in {"lookup", "matched", "loading"}
      BY <1>1, <1>2, <2>1 DEF Inv, TypeOK, Filling, Holding
  <2>3. ~(free > 0) /\ free \in 0 .. MaxConns
      BY <2>2 DEF LookupsGoOn, GoesOn, Inv, TypeOK
  <2> QED
      BY <2>3, TenantAuthAssumption
<1>5. free + Cardinality(Open) + Cardinality(Second) = MaxConns
    BY HoldersAre DEF Inv, Accounted
<1>6. Cardinality(Second) = 0
    BY <1>3, FS_EmptySet
<1> QED
    BY <1>1, <1>3, <1>4, <1>5, <1>6, WantingFinite

\* Lookups that hold all connections cannot go on.
LEMMA AllHeldIsStuck ==
    ASSUME Inv, Cardinality(Wanting) = MaxConns, Holding({"loaded"}) = {}
    PROVE  ~LookupsGoOn
<1>1. free + Cardinality(Open) + Cardinality(Second) = MaxConns
    BY HoldersAre DEF Inv, Accounted
<1>2. free = 0 /\ Cardinality(Second) = 0
  <2>1. free \in Nat /\ MaxConns \in Nat
      BY TenantAuthAssumption DEF Inv, TypeOK
  <2> QED
      BY <1>1, <2>1, WantingFinite
<1>3. Second = {}
    BY <1>2, HoldersFinite, FS_EmptySet
<1>4. Wanting # {}
  <2>1. Cardinality(Wanting) # 0
      BY TenantAuthAssumption
  <2> QED
      BY <2>1, FS_EmptySet
<1>5. ~\A r \in Requests : pc[r] \in {"idle"} \union Final
    BY <1>4 DEF Wanting, Holding, Final
<1>6. \A r \in Requests : ~GoesOn(r) /\ pc[r] # "updating"
    BY <1>2, <1>3 DEF GoesOn, Second, Holding
<1> QED
    BY <1>5, <1>6 DEF LookupsGoOn

\* A lookup that waits for a rotation does not wait for ever on its account, and
\* one that waits for a connection does so only for the reason the code has: as many
\* others as there are connections wait for a second one (tenant_store.go:26-69).
THEOREM PoolIsStuckIff == Spec => []StuckIffAllHold
<1>1. Inv => StuckIffAllHold
    BY StuckHoldAll, AllHeldIsStuck DEF StuckIffAllHold, Wanting
<1> QED
    BY <1>1, Invariance, PTL

\* With more connections than requests the lookups never wait for one another;
\* what the run auth_pool shows cannot happen (tenant_store.go:46).
THEOREM EnoughConnections ==
    ASSUME MaxConns > Cardinality(Requests)
    PROVE  Spec => []LookupsGoOn
<1>1. Inv => LookupsGoOn
  <2> SUFFICES ASSUME Inv, ~LookupsGoOn
               PROVE  FALSE
      OBVIOUS
  <2>1. Cardinality(Wanting) = MaxConns
      BY StuckHoldAll
  <2>2. /\ Cardinality(Wanting) \leq Cardinality(Requests)
        /\ Cardinality(Wanting) \in Nat /\ Cardinality(Requests) \in Nat
    <3>1. Wanting \subseteq Requests
        BY DEF Wanting, Holding
    <3> QED
        BY <3>1, TenantAuthAssumption, FS_Subset, FS_CardinalityType
  <2> QED
      BY <2>1, <2>2, TenantAuthAssumption
<1> QED
    BY <1>1, Invariance, PTL
=============================================================================

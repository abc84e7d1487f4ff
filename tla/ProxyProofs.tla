----------------------------- MODULE ProxyProofs -----------------------------
(***************************************************************************)
(* Proofs about Proxy for any number of requests, networks, methods and    *)
(* changes, and for every time to live: an answer belongs to the request   *)
(* it is given to, and is old for a bounded time only; JSON-RPC errors stay*)
(* out of the cache; every request is recorded once.                       *)
(***************************************************************************)
EXTENDS Proxy, TLAPS

-----------------------------------------------------------------------------
(* The inductive invariant                                                 *)

\* Version v of network n is its client's, or was until time t at least.
Until(n, v, t) == v = client[n] \/ t \leq leftAt[n][v]

\* Where a request goes, and with which client.
RouteInv ==
    \A r \in Requests :
        /\ pc[r] = "new" => method[r] = "none"
        /\ pc[r] \in {"route"} \union Underway => method[r] \in Methods \union {"batch"}
        /\ pc[r] \in {"lookup", "store"} => method[r] \in Methods
        /\ pc[r] \in Underway =>
              /\ network[r] \in Networks /\ mine[r] # 0
              /\ got[r] \leq now /\ now \leq got[r] + MaxDelay
              /\ Until(network[r], mine[r], got[r])

\* What a request holds before it stores it.
AnswerInv ==
    \A r \in Requests :
        /\ pc[r] \in {"new", "route", "lookup", "call"} => body[r] = NoBody
        /\ pc[r] = "store" => \E kind \in Kinds \ {"rpc_error"} : body[r] = AnswerOf(r, kind)

\* An entry is an answer for its key, from a client that was right when the
\* request asked for it, and goes when the answer is too old.
Sound(k, b, until) ==
    /\ b \in Bodies /\ b.kind # "rpc_error"
    /\ b.for = k /\ b.version # 0 /\ b.got \leq now
    /\ until \leq b.got + MaxDelay + Ttl[k[2]]
    /\ Until(k[1], b.version, b.got)

CacheInv ==
    \A k \in Keys : cache[k] = NoEntry \/ Sound(k, cache[k].body, cache[k].until)

\* No JSON-RPC error is returned as a success.
StatusInv ==
    \A r \in Requests :
        /\ pc[r] # "done" => status[r] = "none"
        /\ status[r] = "success" => body[r].kind # "rpc_error"

Inv ==
    TypeOK /\ RouteInv /\ AnswerInv /\ CacheInv /\ StatusInv /\ EveryEndIsRecordedOnce

LEMMA Initial == Init => Inv
<1> SUFFICES ASSUME Init PROVE Inv
    OBVIOUS
<1> USE ProxyAssumption DEF Init
<1>1. TypeOK
  <2>1. 0 \in Versions /\ 1 \in Versions /\ 0 \in Time
      BY DEF Versions, Time
  <2>2. \A k \in Keys : Ttl[k[2]] \in Nat
      BY DEF Keys
  <2> QED
      BY <2>1, <2>2 DEF TypeOK, NoEntry, Underway, NoNetwork
<1>2. RouteInv /\ AnswerInv /\ CacheInv
    BY DEF RouteInv, AnswerInv, CacheInv, Underway
<1>3. StatusInv /\ EveryEndIsRecordedOnce
    BY DEF StatusInv, EveryEndIsRecordedOnce
<1> QED
    BY <1>1, <1>2, <1>3 DEF Inv

-----------------------------------------------------------------------------
(* Steps                                                                   *)

\* No answer is mistaken for none.
LEMMA AnswersAreBodies ==
    /\ \A b \in Bodies : b # NoBody
    /\ NoBody.kind = "none"
<1>1. \A b \in Bodies : b.kind \in Kinds
    BY DEF Bodies
<1>2. NoBody.kind = "none"
    BY DEF NoBody
<1> QED
    BY <1>1, <1>2 DEF Kinds

\* The ways a request moves on, and what it leaves of the others.
Moved(r, to) == pc' = [pc EXCEPT ![r] = to]

LEMMA RequestStep ==
    ASSUME TypeOK, NEW r \in Requests, ServeHTTP(r)
    PROVE  /\ UNCHANGED << now, tableVars, managerVars >>
           /\ \A q \in Requests \ {r} :
                 /\ pc'[q] = pc[q] /\ method'[q] = method[q] /\ network'[q] = network[q]
                 /\ mine'[q] = mine[q] /\ got'[q] = got[q] /\ body'[q] = body[q]
                 /\ status'[q] = status[q] /\ logs'[q] = logs[q] /\ usages'[q] = usages[q]
<1> USE DEF TypeOK, Finish, Goto, recordVars, routeVars, requestVars
<1>1. CASE Reject(r)
    BY <1>1 DEF Reject
<1>2. CASE Receive(r)
    BY <1>2 DEF Receive
<1>3. CASE ReadDefault(r)
    BY <1>3 DEF ReadDefault
<1>4. CASE GetClient(r)
    BY <1>4 DEF GetClient
<1>5. CASE CacheGet(r)
    BY <1>5 DEF CacheGet
<1>6. CASE Call(r)
    BY <1>6 DEF Call
<1>7. CASE ProxyRaw(r)
    BY <1>7 DEF ProxyRaw
<1>8. CASE Store(r) \/ StoreReplyLost(r)
    BY <1>8 DEF Store, StoreReplyLost
<1> QED
    BY <1>1, <1>2, <1>3, <1>4, <1>5, <1>6, <1>7, <1>8 DEF ServeHTTP

LEMMA Keyed ==
    ASSUME TypeOK, RouteInv, NEW r \in Requests, pc[r] \in {"lookup", "store"}
    PROVE  CacheKey(r) \in Keys /\ Ttl[method[r]] \in Nat
BY ProxyAssumption DEF RouteInv, Underway, CacheKey, Keys

LEMMA AnswerType ==
    ASSUME TypeOK, RouteInv, NEW r \in Requests, pc[r] \in Underway,
           method[r] \in Methods, NEW kind \in Kinds
    PROVE  AnswerOf(r, kind) \in Bodies
BY DEF TypeOK, RouteInv, AnswerOf, Bodies, CacheKey, Keys

-----------------------------------------------------------------------------
(* Types                                                                   *)

LEMMA Types ==
    ASSUME TypeOK, RouteInv, Next \/ UNCHANGED vars
    PROVE  TypeOK'
<1> USE ProxyAssumption DEF TypeOK, Underway
<1>1. ASSUME NEW r \in Requests, ServeHTTP(r)
      PROVE  TypeOK'
  <2> DEFINE Steps == {"new", "route", "done"} \union Underway
             Known == {"none", "invalid_request", "network_unavailable",
                       "upstream_error", "rpc_error", "success"}
  <2>1. ASSUME NEW s \in Known, Finish(r, s)
        PROVE  /\ pc' \in [Requests -> Steps] /\ status' \in [Requests -> Known]
               /\ logs' \in [Requests -> Nat] /\ usages' \in [Requests -> Nat]
      BY <2>1 DEF Finish
  <2>2. ASSUME NEW to \in Steps, Goto(r, to)
        PROVE  /\ pc' \in [Requests -> Steps] /\ status' \in [Requests -> Known]
               /\ logs' \in [Requests -> Nat] /\ usages' \in [Requests -> Nat]
      BY <2>2 DEF Goto, recordVars
  <2>3. UNCHANGED << now, tableVars, managerVars >>
      BY <1>1, RequestStep
  <2>4. ASSUME UNCHANGED cache, method' \in [Requests -> Methods \union {"none", "batch"}],
               network' \in [Requests -> Networks \union {NoNetwork}],
               mine' \in [Requests -> Versions], got' \in [Requests -> Time],
               body' \in [Requests -> Bodies \union {NoBody}],
               (\E s \in Known : Finish(r, s)) \/ (\E to \in Steps : Goto(r, to))
        PROVE  TypeOK'
    <3>1. /\ pc' \in [Requests -> Steps] /\ status' \in [Requests -> Known]
          /\ logs' \in [Requests -> Nat] /\ usages' \in [Requests -> Nat]
        BY <2>1, <2>2, <2>4
    <3> QED
        BY <2>3, <2>4, <3>1 DEF tableVars, managerVars
  <2>5. CASE Reject(r) \/ ProxyRaw(r)
      BY <2>4, <2>5 DEF Reject, ProxyRaw, routeVars
  <2>6. CASE Receive(r)
      BY <2>4, <2>6 DEF Receive
  <2>7. CASE ReadDefault(r)
      BY <2>4, <2>7 DEF ReadDefault
  <2>8. CASE GetClient(r)
    <3>1. network[r] \in Networks
        BY <2>8 DEF GetClient
    <3>2. \E s \in Known : Finish(r, s) \/ \E to \in Steps : Goto(r, to)
        BY <2>8 DEF GetClient
    <3>3. mine' \in [Requests -> Versions] /\ got' \in [Requests -> Time]
      <4>1. client[network[r]] \in Versions /\ now \in Time
          BY <3>1
      <4>2. \/ UNCHANGED << mine, got >>
            \/ /\ mine' = [mine EXCEPT ![r] = client[network[r]]]
               /\ got' = [got EXCEPT ![r] = now]
          BY <2>8 DEF GetClient
      <4> QED
          BY <4>1, <4>2
    <3> QED
        BY <2>4, <2>8, <3>2, <3>3 DEF GetClient
  <2>9. CASE CacheGet(r)
    <3>1. CacheKey(r) \in Keys
        BY <2>9, Keyed DEF CacheGet
    <3>2. body' \in [Requests -> Bodies \union {NoBody}]
        BY <2>9, <3>1 DEF CacheGet
    <3> QED
        BY <2>4, <2>9, <3>2 DEF CacheGet, routeVars
  <2>10. CASE Call(r)
    <3>1. \A kind \in Kinds : AnswerOf(r, kind) \in Bodies
        BY <2>10, AnswerType DEF Call
    <3>2. body' \in [Requests -> Bodies \union {NoBody}]
        BY <2>10, <3>1 DEF Call
    <3> QED
        BY <2>4, <2>10, <3>2 DEF Call, routeVars
  <2>11. CASE Store(r) \/ StoreReplyLost(r)
    <3>1. CacheKey(r) \in Keys /\ CacheKey(r)[2] = method[r] /\ Ttl[method[r]] \in Nat
        BY <2>11, Keyed DEF Store, StoreReplyLost, CacheKey
    <3>2. /\ cache' \in [Keys -> [until : Nat, body : Bodies \union {NoBody}]]
          /\ \A k \in Keys : cache'[k].until \leq now + Ttl[k[2]]
      <4>1. CASE Set(r)
        <5>1. body[r] \in Bodies \union {NoBody} /\ now + Ttl[method[r]] \in Nat
            BY <3>1 DEF Time
        <5> DEFINE e == [until |-> now + Ttl[method[r]], body |-> body[r]]
        <5>2. e \in [until : Nat, body : Bodies \union {NoBody}] /\ e.until = now + Ttl[method[r]]
            BY <5>1
        <5>3. cache' = [cache EXCEPT ![CacheKey(r)] = e]
            BY <4>1 DEF Set
        <5> HIDE DEF e
        <5>4. \A k \in Keys : cache'[k] = IF k = CacheKey(r) THEN e ELSE cache[k]
            BY <5>3
        <5>5. \A k \in Keys : cache'[k].until \leq now + Ttl[k[2]]
          <6> TAKE k \in Keys
          <6>1. CASE k = CacheKey(r)
              BY <3>1, <5>1, <5>2, <5>4, <6>1
          <6>2. CASE k # CacheKey(r)
              BY <5>4, <6>2
          <6> QED
              BY <6>1, <6>2
        <5> QED
            BY <3>1, <5>2, <5>3, <5>5
      <4>2. CASE UNCHANGED cache
          BY <4>2
      <4> QED
          BY <2>11, <4>1, <4>2 DEF Store, StoreReplyLost
    <3>3. /\ pc' \in [Requests -> Steps] /\ status' \in [Requests -> Known]
          /\ logs' \in [Requests -> Nat] /\ usages' \in [Requests -> Nat]
        BY <2>1, <2>11 DEF Store, StoreReplyLost, requestVars, recordVars
    <3>4. UNCHANGED << routeVars, body >>
        BY <2>11 DEF Store, StoreReplyLost, requestVars
    <3> QED
        BY <2>3, <3>2, <3>3, <3>4 DEF tableVars, managerVars, routeVars
  <2> QED
      BY <1>1, <2>5, <2>6, <2>7, <2>8, <2>9, <2>10, <2>11 DEF ServeHTTP
<1>2. ASSUME NEW n \in Networks, Change(n)
      PROVE  TypeOK'
  <2>1. changes' \in 0 .. MaxChanges /\ changes' = changes + 1 /\ enabled' \subseteq Networks
      BY <1>2 DEF Change
  <2>2. version[n] + 1 \in Versions
      BY <1>2 DEF Change, Versions
  <2>3. version' \in [Networks -> Versions] /\ \A i \in Networks : version'[i] \leq version[i] + 1
    <3>1. version \in [Networks -> Versions] /\ \A i \in Networks : version[i] \in Nat
        BY DEF Versions
    <3> HIDE DEF TypeOK, Underway
    <3>2. CASE version' = version
        BY <3>1, <3>2
    <3>3. CASE version' = [version EXCEPT ![n] = @ + 1]
      <4>1. version' \in [Networks -> Versions]
          BY <2>2, <3>1, <3>3
      <4>2. \A i \in Networks : version'[i] = IF i = n THEN version[i] + 1 ELSE version[i]
          BY <3>1, <3>3
      <4> QED
          BY <3>1, <4>1, <4>2
    <3> QED
        BY <1>2, <3>2, <3>3 DEF Change
  <2>4. \A i \in Networks : version'[i] \leq changes' + 1
    <3>1. \A i \in Networks : version[i] \in Nat /\ version[i] \leq changes + 1
        BY DEF Versions
    <3>2. changes \in Nat /\ \A i \in Networks : version'[i] \in Nat
        BY <2>3 DEF Versions
    <3> HIDE DEF TypeOK, Underway
    <3> QED
        BY <2>1, <2>3, <3>1, <3>2
  <2> QED
      BY <1>2, <2>1, <2>3, <2>4 DEF Change, managerVars, requestVars, routeVars, recordVars
<1>3. CASE List
    BY <1>3 DEF List, Table, tableVars, requestVars, routeVars, recordVars, Versions
<1>4. CASE Replace
    BY <1>4 DEF Replace, tableVars, requestVars, routeVars, recordVars
<1>5. ASSUME NEW k \in Keys, Evict(k)
      PROVE  TypeOK'
  <2>1. NoEntry \in [until : Nat, body : Bodies \union {NoBody}] /\ NoEntry.until = 0
      BY DEF NoEntry
  <2>2. now \in Nat /\ \A i \in Keys : Ttl[i[2]] \in Nat
      BY DEF Time, Keys
  <2>3. \A i \in Keys : cache'[i] = IF i = k THEN NoEntry ELSE cache[i]
      BY <1>5 DEF Evict
  <2>4. \A i \in Keys : cache'[i].until \leq now + Ttl[i[2]]
      BY <2>1, <2>2, <2>3
  <2> QED
      BY <1>5, <2>1, <2>4 DEF Evict, tableVars, managerVars, requestVars, routeVars, recordVars
<1>6. CASE Tick
  <2>1. now' \in Time /\ now \in Nat /\ now' = now + 1
      BY <1>6 DEF Tick, Time
  <2>2. \A k \in Keys : Ttl[k[2]] \in Nat /\ cache[k].until \in Nat
      BY DEF Keys
  <2>3. \A k \in Keys : cache'[k].until \leq now' + Ttl[k[2]]
      BY <1>6, <2>1, <2>2 DEF Tick
  <2> QED
      BY <1>6, <2>1, <2>3 DEF Tick, tableVars, managerVars, requestVars, routeVars, recordVars
<1>7. CASE UNCHANGED vars
    BY <1>7 DEF vars, tableVars, managerVars, requestVars, routeVars, recordVars
<1> QED
    BY <1>1, <1>2, <1>3, <1>4, <1>5, <1>6, <1>7 DEF Next

-----------------------------------------------------------------------------
(* Requests                                                                *)

\* What a version was before a step it was no later after it.
LEMMA UntilStep ==
    ASSUME TypeOK, Next \/ UNCHANGED vars
    PROVE  /\ now \in Nat /\ now \leq now'
           /\ \A n \in Networks, v \in Versions \ {0}, t \in Time :
                 t \leq now /\ Until(n, v, t) => v = client'[n] \/ t \leq leftAt'[n][v]
<1>0. now \in Nat
    BY DEF TypeOK, Time
<1>1. CASE UNCHANGED << now, managerVars >>
    BY <1>0, <1>1 DEF managerVars, Until
<1>2. CASE List \/ Tick
  <2>1. client' = client /\ leftAt' = leftAt /\ (now' = now \/ now' = now + 1)
      BY <1>2 DEF List, Tick, managerVars
  <2> QED
      BY <1>0, <2>1 DEF Until
<1>3. CASE Replace
  <2>1. /\ now' = now /\ client' = listed
        /\ \A n \in Networks, v \in Versions :
              leftAt'[n][v] = IF v = client[n] /\ v \notin {0, listed[n]} THEN now ELSE leftAt[n][v]
      BY <1>3 DEF Replace
  <2> QED
      BY <1>0, <2>1 DEF Until
<1> QED
  <2>1. ASSUME NEW r \in Requests, ServeHTTP(r)
        PROVE  UNCHANGED << now, managerVars >>
      BY <2>1, RequestStep
  <2>2. ASSUME NEW n \in Networks, Change(n)
        PROVE  UNCHANGED << now, managerVars >>
      BY <2>2 DEF Change
  <2>3. ASSUME NEW k \in Keys, Evict(k)
        PROVE  UNCHANGED << now, managerVars >>
      BY <2>3 DEF Evict
  <2>4. CASE UNCHANGED vars
      BY <1>1, <2>4 DEF vars
  <2> QED
      BY <1>1, <1>2, <1>3, <2>1, <2>2, <2>3, <2>4 DEF Next

\* The other steps leave the requests alone.
LEMMA Elsewhere ==
    /\ \A n \in Networks : Change(n) => UNCHANGED << now, requestVars, cache >>
    /\ List \/ Replace \/ UNCHANGED vars => UNCHANGED << now, requestVars, cache >>
    /\ \A k \in Keys : Evict(k) => UNCHANGED << now, requestVars >>
    /\ Tick => UNCHANGED << requestVars, cache >>
BY DEF Change, List, Replace, Evict, Tick, vars

\* A request goes where its client was asked for, in time.
LEMMA Routing ==
    ASSUME TypeOK, RouteInv, Next \/ UNCHANGED vars
    PROVE  RouteInv'
<1> DEFINE Placed(r) ==
        /\ pc[r] = "new" => method[r] = "none"
        /\ pc[r] \in {"route"} \union Underway => method[r] \in Methods \union {"batch"}
        /\ pc[r] \in {"lookup", "store"} => method[r] \in Methods
        /\ pc[r] \in Underway =>
              /\ network[r] \in Networks /\ mine[r] # 0
              /\ got[r] \leq now /\ now \leq got[r] + MaxDelay
              /\ Until(network[r], mine[r], got[r])
<1>0. \A r \in Requests : Placed(r)
    BY DEF RouteInv
<1>1. ASSUME NEW r \in Requests, ServeHTTP(r)
      PROVE  RouteInv'
  <2>1. UNCHANGED << now, tableVars, managerVars >>
      BY <1>1, RequestStep
  <2>2. \A q \in Requests \ {r} :
           /\ pc'[q] = pc[q] /\ method'[q] = method[q] /\ network'[q] = network[q]
           /\ mine'[q] = mine[q] /\ got'[q] = got[q]
      BY <1>1, RequestStep
  <2>3. \A q \in Requests \ {r} : Placed(q)'
      BY <1>0, <2>1, <2>2 DEF managerVars, Until
  <2>4. Placed(r)'
    <3>1. ASSUME pc'[r] = "done"
          PROVE  Placed(r)'
        BY <3>1 DEF Underway
    <3>2. ASSUME UNCHANGED routeVars, pc[r] \in Underway, pc'[r] \in {"call", "store"},
                 pc'[r] = "store" => method[r] \in Methods
          PROVE  Placed(r)'
        BY <1>0, <2>1, <3>2 DEF routeVars, managerVars, Until, Underway
    <3> USE DEF TypeOK, Finish, Goto
    <3>3. CASE Reject(r) \/ ProxyRaw(r) \/ Store(r)
        BY <3>1, <3>3 DEF Reject, ProxyRaw, Store
    <3>4. CASE Receive(r)
        BY <3>4 DEF Receive, Underway
    <3>5. CASE ReadDefault(r)
        BY <1>0, <3>1, <3>5 DEF ReadDefault, Underway
    <3>6. CASE GetClient(r)
      <4>1. CASE pc'[r] = "done"
          BY <3>1, <4>1
      <4>2. CASE pc'[r] # "done"
        <5>1. /\ pc[r] = "route" /\ method' = method /\ network' = network
              /\ client[network[r]] # 0 /\ network[r] # NoNetwork
              /\ mine'[r] = client[network[r]] /\ got'[r] = now
              /\ pc'[r] = IF Cacheable(method[r]) THEN "lookup" ELSE "call"
            BY <3>6, <4>2 DEF GetClient
        <5>2. network[r] \in Networks /\ method[r] \in Methods \union {"batch"}
            BY <1>0, <5>1
        <5>3. now \in Nat /\ MaxDelay \in Nat
            BY ProxyAssumption DEF Time
        <5> QED
            BY <2>1, <5>1, <5>2, <5>3 DEF Until, Cacheable, managerVars
      <4> QED
          BY <4>1, <4>2
    <3>7. CASE CacheGet(r)
        BY <3>1, <3>2, <3>7 DEF CacheGet, Underway
    <3>8. CASE Call(r)
        BY <3>1, <3>2, <3>8 DEF Call, Underway
    <3>9. CASE StoreReplyLost(r)
        BY <1>0, <3>2, <3>9 DEF StoreReplyLost, requestVars, Underway
    <3> QED
        BY <1>1, <3>3, <3>4, <3>5, <3>6, <3>7, <3>8, <3>9 DEF ServeHTTP
  <2> QED
      BY <2>3, <2>4 DEF RouteInv
<1>2. ASSUME UNCHANGED requestVars,
             \A r \in Requests : pc[r] \in Underway => now' \leq got[r] + MaxDelay
      PROVE  RouteInv'
  <2>1. ASSUME NEW r \in Requests
        PROVE  Placed(r)'
    <3>1. UNCHANGED << pc, method, network, mine, got >>
        BY <1>2 DEF requestVars, routeVars
    <3>2. CASE pc[r] \notin Underway
        BY <1>0, <3>1, <3>2
    <3>3. CASE pc[r] \in Underway
      <4>1. /\ network[r] \in Networks /\ mine[r] \in Versions \ {0} /\ got[r] \in Time
            /\ got[r] \leq now /\ Until(network[r], mine[r], got[r])
          BY <1>0, <3>3 DEF TypeOK
      <4>2. now \in Nat /\ now \leq now' /\ got[r] \in Nat /\ now' \in Nat
          BY UntilStep, Types DEF TypeOK, Time
      <4>3. Until(network[r], mine[r], got[r])'
          BY <3>1, <4>1, UntilStep DEF Until
      <4> QED
          BY <1>0, <1>2, <3>1, <3>3, <4>1, <4>2, <4>3
    <3> QED
        BY <3>2, <3>3
  <2> QED
      BY <2>1 DEF RouteInv
<1>3. ASSUME UNCHANGED now
      PROVE  \A r \in Requests : pc[r] \in Underway => now' \leq got[r] + MaxDelay
    BY <1>0, <1>3
<1>4. ASSUME Tick
      PROVE  \A r \in Requests : pc[r] \in Underway => now' \leq got[r] + MaxDelay
  <2>1. \A r \in Requests : got[r] \in Nat
      BY DEF TypeOK, Time
  <2> QED
      BY <1>4, <2>1, UntilStep, ProxyAssumption DEF Tick
<1> QED
    BY <1>1, <1>2, <1>3, <1>4, Elsewhere DEF Next

-----------------------------------------------------------------------------
(* Answers, the cache and the records                                      *)

\* A request stores its own answer, and no JSON-RPC error.
LEMMA Answering ==
    ASSUME TypeOK, RouteInv, AnswerInv, Next \/ UNCHANGED vars
    PROVE  AnswerInv'
<1> DEFINE Holds(r) ==
        /\ pc[r] \in {"new", "route", "lookup", "call"} => body[r] = NoBody
        /\ pc[r] = "store" => \E kind \in Kinds \ {"rpc_error"} : body[r] = AnswerOf(r, kind)
<1>1. ASSUME NEW r \in Requests, ServeHTTP(r)
      PROVE  AnswerInv'
  <2>1. \A q \in Requests \ {r} :
           /\ pc'[q] = pc[q] /\ method'[q] = method[q] /\ network'[q] = network[q]
           /\ mine'[q] = mine[q] /\ got'[q] = got[q] /\ body'[q] = body[q]
      BY <1>1, RequestStep
  <2>2. \A q \in Requests \ {r} : Holds(q)'
      BY <2>1 DEF AnswerInv, AnswerOf, CacheKey
  <2>3. Holds(r)'
    <3> USE DEF TypeOK, AnswerInv, Finish, Goto
    <3>1. CASE pc'[r] = "done"
        BY <3>1
    <3>2. CASE Reject(r) \/ ProxyRaw(r) \/ Store(r)
        BY <3>1, <3>2 DEF Reject, ProxyRaw, Store
    <3>3. CASE Receive(r)
        BY <3>3 DEF Receive
    <3>4. CASE ReadDefault(r)
        BY <3>1, <3>4 DEF ReadDefault
    <3>5. CASE GetClient(r)
      <4>1. pc[r] = "route" /\ body' = body /\ pc'[r] \in {"done", "lookup", "call"}
          BY <3>5 DEF GetClient
      <4> QED
          BY <4>1
    <3>6. CASE CacheGet(r)
        BY <3>1, <3>6 DEF CacheGet
    <3>7. CASE Call(r)
      <4>1. CASE pc'[r] # "done"
        <5>1. PICK kind \in Kinds \ {"rpc_error"} :
                 /\ body' = [body EXCEPT ![r] = AnswerOf(r, kind)]
                 /\ pc'[r] = "store" /\ UNCHANGED routeVars
            BY <3>7, <4>1 DEF Call
        <5>2. AnswerOf(r, kind)' = AnswerOf(r, kind)
            BY <5>1 DEF AnswerOf, CacheKey, routeVars
        <5> QED
            BY <5>1, <5>2
      <4> QED
          BY <3>1, <4>1
    <3>8. CASE StoreReplyLost(r)
        BY <3>8 DEF StoreReplyLost, requestVars, routeVars, AnswerOf, CacheKey
    <3> QED
        BY <1>1, <3>2, <3>3, <3>4, <3>5, <3>6, <3>7, <3>8 DEF ServeHTTP
  <2> QED
      BY <2>2, <2>3 DEF AnswerInv
<1>2. ASSUME UNCHANGED requestVars
      PROVE  AnswerInv'
    BY <1>2 DEF AnswerInv, AnswerOf, CacheKey, requestVars, routeVars
<1> QED
    BY <1>1, <1>2, Elsewhere DEF Next

\* What is stored is sound, and stays so until it is forgotten.
LEMMA Caching ==
    ASSUME TypeOK, RouteInv, AnswerInv, CacheInv, Next \/ UNCHANGED vars
    PROVE  CacheInv'
<1> USE ProxyAssumption
<1>1. ASSUME NEW k \in Keys, NEW b, NEW u, Sound(k, b, u)
      PROVE  Sound(k, b, u)'
  <2>1. /\ k[1] \in Networks /\ b.version \in Versions \ {0} /\ b.got \in Time
        /\ b.got \leq now /\ Until(k[1], b.version, b.got)
      BY <1>1 DEF Sound, Bodies, Keys
  <2>2. b.version = client'[k[1]] \/ b.got \leq leftAt'[k[1]][b.version]
      BY <2>1, UntilStep
  <2>3. b.got \leq now'
      BY <2>1, UntilStep, Types DEF TypeOK, Time
  <2> QED
      BY <1>1, <2>2, <2>3 DEF Sound, Until
<1>2. ASSUME NEW k \in Keys, cache'[k] = cache[k] \/ cache'[k] = NoEntry
      PROVE  (cache[k] = NoEntry \/ Sound(k, cache[k].body, cache[k].until))'
  <2>1. CASE cache'[k] = NoEntry
      BY <2>1
  <2>2. CASE cache[k] = NoEntry /\ cache'[k] = cache[k]
      BY <2>2
  <2>3. ASSUME NEW b, NEW u, b = cache[k].body, u = cache[k].until,
               cache[k] # NoEntry, cache'[k] = cache[k]
        PROVE  Sound(k, cache[k].body, cache[k].until)'
    <3>1. Sound(k, b, u)
        BY <2>3 DEF CacheInv
    <3>2. Sound(k, b, u)'
        BY <1>1, <3>1
    <3> QED
        BY <2>3, <3>2 DEF Sound, Until
  <2> QED
      BY <1>2, <2>1, <2>2, <2>3
<1>3. ASSUME \A k \in Keys : cache'[k] = cache[k] \/ cache'[k] = NoEntry
      PROVE  CacheInv'
    BY <1>2, <1>3 DEF CacheInv
<1>4. ASSUME NEW r \in Requests, pc[r] = "store", Set(r), UNCHANGED << now, managerVars >>
      PROVE  CacheInv'
  <2>1. /\ CacheKey(r) \in Keys /\ CacheKey(r)[1] = network[r] /\ CacheKey(r)[2] = method[r]
        /\ Ttl[method[r]] \in Nat /\ method[r] \in Methods
      BY <1>4, Keyed DEF CacheKey, RouteInv
  <2>2. PICK kind \in Kinds \ {"rpc_error"} : body[r] = AnswerOf(r, kind)
      BY <1>4 DEF AnswerInv
  <2>3. /\ network[r] \in Networks /\ mine[r] # 0 /\ got[r] \in Nat /\ now \in Nat
        /\ got[r] \leq now /\ now \leq got[r] + MaxDelay
        /\ Until(network[r], mine[r], got[r])
      BY <1>4 DEF RouteInv, Underway, TypeOK, Time
  <2>4. /\ body[r] \in Bodies /\ body[r].kind = kind /\ body[r].for = CacheKey(r)
        /\ body[r].version = mine[r] /\ body[r].got = got[r]
    <3>1. AnswerOf(r, kind) \in Bodies
        BY <1>4, <2>1, AnswerType DEF Underway
    <3> QED
        BY <2>2, <3>1 DEF AnswerOf
  <2>5. Sound(CacheKey(r), body[r], now + Ttl[method[r]])
      BY <2>1, <2>3, <2>4 DEF Sound
  <2> DEFINE e == [until |-> now + Ttl[method[r]], body |-> body[r]]
  <2>6. e.until = now + Ttl[method[r]] /\ e.body = body[r]
      OBVIOUS
  <2>7. Sound(CacheKey(r), e.body, e.until)
      BY <2>5, <2>6
  <2>8. \A k \in Keys : cache'[k] = IF k = CacheKey(r) THEN e ELSE cache[k]
      BY <1>4 DEF Set, TypeOK
  <2> HIDE DEF e
  <2>9. \A k \in Keys : \/ cache'[k] = NoEntry
                        \/ Sound(k, cache'[k].body, cache'[k].until)
      BY <2>7, <2>8 DEF CacheInv
  <2> QED
      BY <1>4, <2>9 DEF CacheInv, Sound, Until, managerVars
<1>5. ASSUME NEW r \in Requests, ServeHTTP(r)
      PROVE  CacheInv'
  <2>1. UNCHANGED << now, managerVars >>
      BY <1>5, RequestStep
  <2>2. CASE Store(r) \/ StoreReplyLost(r)
      BY <1>3, <1>4, <2>1, <2>2 DEF Store, StoreReplyLost
  <2>3. CASE ~Store(r) /\ ~StoreReplyLost(r)
    <3>1. UNCHANGED cache
        BY <1>5, <2>3 DEF ServeHTTP, Reject, Receive, ReadDefault, GetClient, CacheGet, Call, ProxyRaw
    <3> QED
        BY <1>3, <3>1
  <2> QED
      BY <2>2, <2>3
<1>6. ASSUME NEW k \in Keys, Evict(k)
      PROVE  CacheInv'
  <2>1. \A i \in Keys : cache'[i] = cache[i] \/ cache'[i] = NoEntry
      BY <1>6 DEF Evict, TypeOK
  <2> QED
      BY <1>3, <2>1
<1>7. ASSUME UNCHANGED cache
      PROVE  CacheInv'
    BY <1>3, <1>7
<1> QED
    BY <1>5, <1>6, <1>7, Elsewhere DEF Next

\* A hit returns an entry that is sound.
LEMMA Hits ==
    ASSUME TypeOK, CacheInv, NEW k \in Keys, Live(k)
    PROVE  /\ Sound(k, cache[k].body, cache[k].until)
           /\ now < cache[k].until /\ cache[k].body.kind # "rpc_error"
<1>1. now \in Nat /\ NoEntry.until = 0
    BY DEF TypeOK, Time, NoEntry
<1>2. cache[k] # NoEntry
    BY <1>1 DEF Live
<1> QED
    BY <1>2 DEF CacheInv, Sound, Live

\* No request ends twice, or without its record; none ends well with an error.
LEMMA Recording ==
    ASSUME Inv, Next \/ UNCHANGED vars
    PROVE  StatusInv' /\ EveryEndIsRecordedOnce'
<1> USE DEF Inv
<1> DEFINE Told(r) ==
        /\ pc[r] # "done" => status[r] = "none"
        /\ status[r] = "success" => body[r].kind # "rpc_error"
        /\ logs[r] = IF pc[r] = "done" THEN 1 ELSE 0
        /\ usages[r] = IF pc[r] = "done" /\ method[r] \in Methods THEN 1 ELSE 0
        /\ status[r] \in {"success", "rpc_error"} /\ method[r] # "batch"
             <=> pc[r] = "done" /\ body[r] # NoBody
<1>0. \A r \in Requests : Told(r)
    BY DEF StatusInv, EveryEndIsRecordedOnce
<1>1. ASSUME NEW r \in Requests, ServeHTTP(r)
      PROVE  StatusInv' /\ EveryEndIsRecordedOnce'
  <2>1. \A q \in Requests \ {r} :
           /\ pc'[q] = pc[q] /\ method'[q] = method[q] /\ body'[q] = body[q]
           /\ status'[q] = status[q] /\ logs'[q] = logs[q] /\ usages'[q] = usages[q]
      BY <1>1, RequestStep
  <2>2. \A q \in Requests \ {r} : Told(q)'
      BY <1>0, <2>1
  <2>3. Told(r)'
    <3> USE DEF TypeOK
    <3>1. ASSUME NEW s, Finish(r, s), pc[r] # "done", method'[r] = method[r],
                 s = "success" => body'[r].kind # "rpc_error",
                 s \in {"success", "rpc_error"} /\ method[r] # "batch" <=> body'[r] # NoBody
          PROVE  Told(r)'
        BY <1>0, <3>1 DEF Finish
    <3>2. ASSUME NEW to, Goto(r, to), to # "done", pc[r] # "done",
                 method'[r] \in Methods <=> method[r] \in Methods
          PROVE  Told(r)'
        BY <1>0, <3>2 DEF Goto, recordVars
    <3>3. pc[r] \in {"new", "route", "lookup", "call"} => body[r] = NoBody
        BY DEF AnswerInv
    <3>4. CASE Reject(r)
        BY <3>1, <3>3, <3>4 DEF Reject, routeVars
    <3>5. CASE Receive(r)
        BY <1>0, <3>5 DEF Receive, Goto, recordVars
    <3>6. CASE ReadDefault(r)
        BY <3>1, <3>2, <3>3, <3>6 DEF ReadDefault
    <3>7. CASE GetClient(r)
        BY <3>1, <3>2, <3>3, <3>7 DEF GetClient
    <3>8. CASE CacheGet(r)
      <4>1. CacheKey(r) \in Keys /\ method[r] \in Methods /\ method[r] # "batch"
          BY <3>8, Keyed, ProxyAssumption DEF CacheGet, RouteInv
      <4>2. CASE Finish(r, "success") /\ Live(CacheKey(r))
                 /\ body' = [body EXCEPT ![r] = cache[CacheKey(r)].body]
        <5>1. body'[r] \in Bodies /\ body'[r].kind # "rpc_error"
            BY <4>1, <4>2, Hits DEF Sound
        <5>2. body'[r] # NoBody
            BY <5>1, AnswersAreBodies
        <5> QED
            BY <3>1, <3>8, <4>1, <4>2, <5>1, <5>2 DEF CacheGet, routeVars
      <4>3. CASE Goto(r, "call") /\ UNCHANGED body
          BY <3>2, <3>8, <4>3 DEF CacheGet, routeVars
      <4> QED
          BY <3>8, <4>2, <4>3 DEF CacheGet
    <3>9. CASE Call(r)
      <4>0. /\ pc[r] = "call" /\ method[r] \in Methods /\ method[r] # "batch"
            /\ method' = method /\ body[r] = NoBody
          BY <3>3, <3>9, ProxyAssumption DEF Call, routeVars
      <4>1. CASE Finish(r, "upstream_error") /\ UNCHANGED body
          BY <3>1, <4>0, <4>1
      <4>2. ASSUME NEW kind \in Kinds, body' = [body EXCEPT ![r] = AnswerOf(r, kind)],
                   \/ kind = "rpc_error" /\ Finish(r, "rpc_error")
                   \/ kind # "rpc_error" /\ Goto(r, "store")
                   \/ kind # "rpc_error" /\ Finish(r, "success")
            PROVE  Told(r)'
        <5>1. AnswerOf(r, kind) \in Bodies
            BY <4>0, AnswerType DEF Underway
        <5>2. body'[r] # NoBody /\ body'[r].kind = kind
            BY <4>2, <5>1, AnswersAreBodies DEF AnswerOf
        <5> QED
            BY <3>1, <3>2, <4>0, <4>2, <5>2
      <4> QED
          BY <3>9, <4>1, <4>2 DEF Call
    <3>10. CASE ProxyRaw(r)
      <4>1. /\ pc[r] = "call" /\ method[r] = "batch" /\ method' = method
            /\ body' = body /\ body[r] = NoBody
          BY <3>3, <3>10 DEF ProxyRaw, routeVars
      <4>2. NoBody.kind # "rpc_error"
          BY AnswersAreBodies
      <4> QED
          BY <3>1, <3>10, <4>1, <4>2 DEF ProxyRaw
    <3>11. CASE Store(r)
      <4>1. PICK kind \in Kinds \ {"rpc_error"} : body[r] = AnswerOf(r, kind)
          BY <3>11 DEF Store, AnswerInv
      <4>2. method[r] \in Methods /\ method[r] # "batch" /\ pc[r] = "store"
          BY <3>11, ProxyAssumption DEF Store, RouteInv
      <4>3. AnswerOf(r, kind) \in Bodies
          BY <4>2, AnswerType DEF Underway
      <4>4. body[r] # NoBody /\ body[r].kind # "rpc_error"
          BY <4>1, <4>3, AnswersAreBodies DEF AnswerOf
      <4> QED
          BY <3>1, <3>11, <4>2, <4>4 DEF Store, routeVars
    <3>12. CASE StoreReplyLost(r)
        BY <1>0, <3>12 DEF StoreReplyLost, requestVars, routeVars, recordVars
    <3> QED
        BY <1>1, <3>4, <3>5, <3>6, <3>7, <3>8, <3>9, <3>10, <3>11, <3>12 DEF ServeHTTP
  <2> QED
      BY <2>2, <2>3 DEF StatusInv, EveryEndIsRecordedOnce
<1>2. ASSUME UNCHANGED requestVars
      PROVE  StatusInv' /\ EveryEndIsRecordedOnce'
    BY <1>2 DEF StatusInv, EveryEndIsRecordedOnce, requestVars, routeVars, recordVars
<1> QED
    BY <1>1, <1>2, Elsewhere DEF Next

-----------------------------------------------------------------------------
(* The theorems                                                            *)

\* The inductive invariant holds (proxy.go:61-317).
THEOREM Invariance == Spec => []Inv
<1>1. Init => Inv
    BY Initial
<1>2. Inv /\ [Next]_vars => Inv'
    BY Types, Routing, Answering, Caching, Recording DEF Inv
<1> QED
    BY <1>1, <1>2, PTL DEF Spec

\* Types are right, and no entry of the cache outlives its method's time to live
\* (proxy.go:29-35, 170-172).
THEOREM TypeCorrect == Spec => []TypeOK
<1>1. Inv => TypeOK
    BY DEF Inv
<1> QED
    BY <1>1, Invariance, PTL

\* No JSON-RPC error is stored, or returned as a success (proxy.go:160-172).
THEOREM ErrorsStayOut == Spec => []RpcErrorsAreNotCached
<1>1. Inv => RpcErrorsAreNotCached
  <2> SUFFICES ASSUME Inv PROVE RpcErrorsAreNotCached
      OBVIOUS
  <2>1. ASSUME NEW k \in Keys
        PROVE  cache[k].body.kind # "rpc_error"
      BY <2>1, AnswersAreBodies DEF Inv, CacheInv, Sound, NoEntry
  <2> QED
      BY <2>1 DEF Inv, StatusInv, RpcErrorsAreNotCached
<1> QED
    BY <1>1, Invariance, PTL

\* Every request is recorded once, whichever way it ends (proxy.go:75-178).
THEOREM Recorded == Spec => []EveryEndIsRecordedOnce
<1>1. Inv => EveryEndIsRecordedOnce
    BY DEF Inv
<1> QED
    BY <1>1, Invariance, PTL

\* What a request is answered with is its own, and from a client its network had
\* no longer ago than the cache and a request explain (proxy.go:121-172).
THEOREM AnswersAreRight == Spec => AnswersAreOwnAndRecent
<1> DEFINE Age(r) == Ttl[method[r]] + MaxDelay
<1>1. Inv /\ [Next]_vars => [\A r \in Requests : Serves(r) => OwnAndRecent(r)]_vars
  <2> SUFFICES ASSUME Inv, Next, NEW r \in Requests, Serves(r)
               PROVE  OwnAndRecent(r)
      OBVIOUS
  <2> USE ProxyAssumption
  <2>0. TypeOK /\ RouteInv /\ AnswerInv /\ CacheInv
      BY DEF Inv
  <2>1. now \in Nat /\ MaxDelay \in Nat
      BY <2>0 DEF TypeOK, Time
  <2>2. ASSUME NEW b, b = body'[r], method[r] \in Methods, network[r] \in Networks,
               b \in Bodies, b.for = CacheKey(r), now \leq b.got + Age(r),
               Until(network[r], b.version, b.got)
        PROVE  OwnAndRecent(r)
    <3>1. b.got \in Time /\ b.version \in Versions
        BY <2>2 DEF Bodies
    <3>2. leftAt[network[r]][b.version] \in Time
      <4>1. leftAt[network[r]] \in [Versions -> Time]
          BY <2>0, <2>2 DEF TypeOK
      <4> QED
          BY <3>1, <4>1
    <3>3. /\ b.got \in Nat /\ leftAt[network[r]][b.version] \in Nat
          /\ Ttl[method[r]] \in Nat
        BY <2>2, <3>1, <3>2 DEF Time
    <3> QED
        BY <2>1, <2>2, <3>3 DEF Until, OwnAndRecent
  <2>3. ASSUME pc[r] \in Underway, method[r] \in Methods,
               NEW kind \in Kinds, body'[r] = AnswerOf(r, kind)
        PROVE  OwnAndRecent(r)
    <3>1. /\ network[r] \in Networks /\ got[r] \in Nat /\ now \leq got[r] + MaxDelay
          /\ Until(network[r], mine[r], got[r]) /\ Ttl[method[r]] \in Nat
        BY <2>0, <2>3 DEF RouteInv, TypeOK, Time
    <3>2. AnswerOf(r, kind) \in Bodies
        BY <2>0, <2>3, AnswerType
    <3>3. now \leq got[r] + Age(r)
        BY <2>1, <3>1
    <3> HIDE DEF Age
    <3> QED
        BY <2>2, <2>3, <3>1, <3>2, <3>3 DEF AnswerOf
  <2>4. CASE CacheGet(r)
    <3>1. /\ pc[r] = "lookup" /\ Live(CacheKey(r)) /\ body'[r] = cache[CacheKey(r)].body
        BY <2>0, <2>4 DEF CacheGet, Goto, Serves, TypeOK
    <3>2. /\ CacheKey(r) \in Keys /\ CacheKey(r)[1] = network[r] /\ CacheKey(r)[2] = method[r]
          /\ network[r] \in Networks /\ method[r] \in Methods /\ Ttl[method[r]] \in Nat
        BY <2>0, <3>1, Keyed DEF CacheKey, RouteInv, Underway
    <3>3. ASSUME NEW b, NEW u, b = cache[CacheKey(r)].body, u = cache[CacheKey(r)].until
          PROVE  OwnAndRecent(r)
      <4>1. Sound(CacheKey(r), b, u) /\ now < u
          BY <2>0, <3>1, <3>2, <3>3, Hits
      <4>2. u \in Nat
          BY <2>0, <3>2, <3>3 DEF TypeOK
      <4>3. b \in Bodies /\ b.got \in Nat
          BY <4>1 DEF Sound, Bodies, Time
      <4>4. now \leq b.got + Age(r)
          BY <2>1, <3>2, <4>1, <4>2, <4>3 DEF Sound
      <4> HIDE DEF Age
      <4> QED
          BY <2>2, <3>1, <3>2, <3>3, <4>1, <4>3, <4>4 DEF Sound
    <3> QED
        BY <3>3
  <2>5. CASE Call(r)
    <3>1. pc[r] = "call" /\ method[r] \in Methods /\ body[r] = NoBody
        BY <2>0, <2>5 DEF Call, AnswerInv
    <3>2. PICK kind \in Kinds : body'[r] = AnswerOf(r, kind)
        BY <2>0, <2>5, <3>1 DEF Call, Serves, TypeOK
    <3> QED
        BY <2>3, <3>1, <3>2 DEF Underway
  <2>6. CASE Store(r)
    <3>1. pc[r] = "store" /\ method[r] \in Methods /\ body'[r] = body[r]
        BY <2>0, <2>6 DEF Store, RouteInv
    <3>2. PICK kind \in Kinds : body'[r] = AnswerOf(r, kind)
        BY <2>0, <3>1 DEF AnswerInv
    <3> QED
        BY <2>3, <3>1, <3>2 DEF Underway
  <2>7. CacheGet(r) \/ Call(r) \/ Store(r)
    <3>1. PICK q \in Requests : ServeHTTP(q)
      <4>1. UNCHANGED requestVars => pc' = pc
          BY DEF requestVars
      <4> QED
          BY <4>1, Elsewhere DEF Next, Serves
    <3>2. q = r
        BY <2>0, <3>1, RequestStep DEF Serves
    <3>3. pc[r] \in {"new", "route", "lookup", "call"} => body[r] = NoBody
        BY <2>0 DEF AnswerInv
    <3>4. Reject(r) \/ Receive(r) \/ ReadDefault(r) \/ GetClient(r) \/ ProxyRaw(r)
            => body' = body /\ pc[r] \in {"new", "route", "call"}
        BY DEF Reject, Receive, ReadDefault, GetClient, ProxyRaw
    <3>5. StoreReplyLost(r) => pc' = pc
        BY DEF StoreReplyLost, requestVars
    <3> QED
        BY <3>1, <3>2, <3>3, <3>4, <3>5 DEF ServeHTTP, Serves
  <2> QED
      BY <2>4, <2>5, <2>6, <2>7
<1> QED
    BY <1>1, Invariance, PTL DEF Spec, AnswersAreOwnAndRecent

\* The manager that routes requests is a Directory of the table: requests see
\* nothing of it that NetworkManager does not promise (proxy.go:121-126,
\* manager.go:71-134).
THEOREM RoutesByTheDirectory == Spec => DirectorySpec
<1>1. Init => Dir!Init
  <2> SUFFICES ASSUME Init PROVE Dir!Init
      OBVIOUS
  <2>1. client = Table
      BY DEF Init, Table
  <2>2. Table \in [Networks -> (Versions \ {0}) \union {0}]
      BY ProxyAssumption DEF Init, Table, Versions
  <2> QED
      BY <2>1, <2>2 DEF Init, Dir!Init
<1>2. Inv /\ Inv' /\ [Next]_vars => [Dir!Next]_(Dir!directory)
  <2> SUFFICES ASSUME Inv, Inv', Next \/ UNCHANGED vars
               PROVE  Dir!Next \/ UNCHANGED Dir!directory
      OBVIOUS
  <2>1. ASSUME UNCHANGED << tableVars, managerVars >> PROVE UNCHANGED Dir!directory
      BY <2>1 DEF Dir!directory, Table, tableVars, managerVars
  <2>2. ASSUME NEW n \in Networks, Change(n) PROVE Dir!Change(n)
    <3>1. /\ version' \in {version, [version EXCEPT ![n] = @ + 1]}
          /\ enabled' \in {enabled, enabled \union {n}, enabled \ {n}}
          /\ UNCHANGED << listed, client >>
        BY <2>2 DEF Change, managerVars
    <3>2. Table'[n] \in (Versions \ {0}) \union {0}
        BY DEF Table, Inv, TypeOK
    <3>3. \A m \in Networks \ {n} : Table'[m] = Table[m]
        BY <3>1 DEF Table, Inv, TypeOK
    <3>4. Table' = [Table EXCEPT ![n] = Table'[n]]
        BY <3>3 DEF Table
    <3> QED
        BY <3>1, <3>2, <3>4 DEF Dir!Change
  <2>3. ASSUME List PROVE Dir!List({})
    <3>1. Table = [n \in Networks |-> Table[n]]
        BY DEF Table
    <3>2. listed' = Table /\ client' = client /\ Table' = Table
        BY <2>3 DEF List, Table, tableVars
    <3> QED
        BY <3>1, <3>2 DEF Dir!List
  <2>4. ASSUME Replace PROVE Dir!Replace
      BY <2>4 DEF Replace, Table, tableVars, Dir!Replace
  <2>5. CASE \E r \in Requests : ServeHTTP(r)
      BY <2>1, <2>5, RequestStep DEF Inv
  <2>6. CASE Tick \/ UNCHANGED vars \/ \E k \in Keys : Evict(k)
      BY <2>1, <2>6 DEF Tick, Evict, vars
  <2>7. (\E n \in Networks : Dir!Change(n)) \/ Dir!List({}) \/ Dir!Replace => Dir!Next
      BY DEF Dir!Next
  <2> QED
      BY <2>2, <2>3, <2>4, <2>5, <2>6, <2>7 DEF Next
<1> QED
    BY <1>1, <1>2, Invariance, PTL DEF Spec, DirectorySpec, Dir!Spec

=============================================================================

-------------------------------- MODULE Proxy --------------------------------
(***************************************************************************)
(* gateway/proxy/proxy.go: a request of a tenant is routed to the client   *)
(* of its network, answered from the response cache in Redis or by that    *)
(* client, whose answer may be stored in the cache, and recorded.  None of *)
(* this holds a lock: the administrator changes the networks, the manager  *)
(* reloads, and other requests read and write the same key of the cache    *)
(* between any two steps.                                                  *)
(*                                                                         *)
(* The manager is what NetworkManager says of it: whoever asks it finds the*)
(* clients of the table of some reload.  A client is the version of the    *)
(* configuration it was made for.  A method stands for a method with its   *)
(* parameters.                                                             *)
(***************************************************************************)
EXTENDS Naturals

CONSTANTS
    Requests,
    Networks,       \* numbers, in the order of their creation
    Methods,
    Ttl,            \* cachePolicies; 0 for a method that is not in it
    MaxDelay,       \* environment: the longest time from manager.Get to the
                    \* end of the request
    MaxChanges,     \* bound: changes the administrator makes
    Horizon         \* bound: the clock stops here

NoNetwork == 0

ASSUME ProxyAssumption ==
    /\ Networks \subseteq Nat \ {NoNetwork}
    /\ Ttl \in [Methods -> Nat]
    /\ "none" \notin Methods /\ "batch" \notin Methods
    /\ MaxDelay \in Nat /\ MaxChanges \in Nat /\ Horizon \in Nat

VARIABLES
    now,
    enabled, version, changes,  \* the table: networks in use, how often each
                                \* was changed; the bound on changes
    client, listed, leftAt,     \* the manager: version of each network's client,
                                \* or 0; what its reload has read; when a version
                                \* was replaced
    cache,                      \* Redis
    pc, method, network,        \* each request: its method, where it goes
    mine, got,                  \* its client, and when it got that
    body,                       \* the answer it returns
    status, logs, usages        \* what recordOutcome was told, and how often

tableVars   == << enabled, version, changes >>
managerVars == << client, listed, leftAt >>
routeVars   == << method, network, mine, got >>
recordVars  == << status, logs, usages >>
requestVars == << pc, routeVars, body, recordVars >>
vars == << now, tableVars, managerVars, cache, requestVars >>

Time == 0 .. Horizon
Versions == 0 .. MaxChanges + 1
Keys == Networks \X Methods

\* An answer: for which key, of which client, and what it holds.  An error
\* status is the JSON text that came with it, which RpcClient's Call accepts.
Kinds == {"result", "rpc_error", "error_status"}
NoBody == [kind |-> "none"]
Bodies == [kind : Kinds, for : Keys, version : Versions, got : Time]

NoEntry == [until |-> 0, body |-> NoBody]

Init ==
    /\ now = 0
    /\ enabled \in SUBSET Networks
    /\ version = [n \in Networks |-> 1] /\ changes = 0
    /\ client = [n \in Networks |-> IF n \in enabled THEN 1 ELSE 0]
    /\ listed = client
    /\ leftAt = [n \in Networks |-> [v \in Versions |-> 0]]
    /\ cache = [k \in Keys |-> NoEntry]
    /\ pc = [r \in Requests |-> "new"]
    /\ method = [r \in Requests |-> "none"]
    /\ network = [r \in Requests |-> NoNetwork]
    /\ mine = [r \in Requests |-> 0] /\ got = [r \in Requests |-> 0]
    /\ body = [r \in Requests |-> NoBody]
    /\ status = [r \in Requests |-> "none"]
    /\ logs = [r \in Requests |-> 0] /\ usages = [r \in Requests |-> 0]

-----------------------------------------------------------------------------
(* ServeHTTP and handleBatch                                               *)

\* recordOutcome, before the handler returns.
Finish(r, s) ==
    /\ pc' = [pc EXCEPT ![r] = "done"]
    /\ status' = [status EXCEPT ![r] = s]
    /\ logs' = [logs EXCEPT ![r] = @ + 1]
    /\ usages' = [usages EXCEPT ![r] = IF method[r] \in Methods THEN @ + 1 ELSE @]

Goto(r, to) ==
    /\ pc' = [pc EXCEPT ![r] = to]
    /\ UNCHANGED recordVars

\* Too large, not JSON, or not JSON-RPC.
Reject(r) ==
    /\ pc[r] = "new"
    /\ Finish(r, "invalid_request")
    /\ UNCHANGED << now, tableVars, managerVars, cache, routeVars, body >>

\* The tenant's network as Auth has it, which may not exist any more.
Receive(r) ==
    /\ pc[r] = "new"
    /\ \E m \in Methods \union {"batch"} : method' = [method EXCEPT ![r] = m]
    /\ \E n \in Networks \union {NoNetwork} : network' = [network EXCEPT ![r] = n]
    /\ Goto(r, "route")
    /\ UNCHANGED << now, tableVars, managerVars, cache, mine, got, body >>

\* GetDefaultBlockchainConfig: the oldest of the enabled networks, unless there
\* is none or the database fails.
ReadDefault(r) ==
    /\ pc[r] = "route" /\ network[r] = NoNetwork
    /\ \/ \E n \in enabled :
              /\ \A i \in enabled : n \leq i
              /\ network' = [network EXCEPT ![r] = n]
              /\ Goto(r, "route")
       \/ Finish(r, "network_unavailable") /\ UNCHANGED network
    /\ UNCHANGED << now, tableVars, managerVars, cache, method, mine, got, body >>

Cacheable(m) == m \in Methods /\ Ttl[m] > 0

GetClient(r) ==
    /\ pc[r] = "route" /\ network[r] # NoNetwork
    /\ \/ /\ client[network[r]] = 0
          /\ Finish(r, "network_unavailable")
          /\ UNCHANGED << mine, got >>
       \/ /\ client[network[r]] # 0
          /\ mine' = [mine EXCEPT ![r] = client[network[r]]]
          /\ got' = [got EXCEPT ![r] = now]
          /\ Goto(r, IF Cacheable(method[r]) THEN "lookup" ELSE "call")
    /\ UNCHANGED << now, tableVars, managerVars, cache, method, network, body >>

\* Mutant: the key is that of the method alone.
CacheKeyOfMethod(r) == << CHOOSE n \in Networks : TRUE, method[r] >>

CacheKey(r) == << network[r], method[r] >>

\* Mutant: Redis is given no time to live.
LiveForEver(k) == cache[k] # NoEntry

\* Redis forgets an entry at its expiry.
Live(k) == now < cache[k].until

\* A hit; otherwise, or if Redis fails, the client is asked.
CacheGet(r) ==
    /\ pc[r] = "lookup"
    /\ \/ /\ Live(CacheKey(r))
          /\ body' = [body EXCEPT ![r] = cache[CacheKey(r)].body]
          /\ Finish(r, "success")
       \/ Goto(r, "call") /\ UNCHANGED body
    /\ UNCHANGED << now, tableVars, managerVars, cache, routeVars >>

AnswerOf(r, kind) ==
    [kind |-> kind, for |-> CacheKey(r), version |-> mine[r], got |-> got[r]]

\* Mutant: a return is missing after the JSON-RPC error was written.
CallFallsThrough(r) ==
    /\ pc[r] = "call" /\ method[r] \in Methods
    /\ \/ Finish(r, "upstream_error") /\ UNCHANGED body
       \/ \E kind \in Kinds :
              /\ body' = [body EXCEPT ![r] = AnswerOf(r, kind)]
              /\ \/ /\ kind = "rpc_error" /\ Cacheable(method[r])
                    /\ pc' = [pc EXCEPT ![r] = "store"]
                    /\ logs' = [logs EXCEPT ![r] = @ + 1]
                    /\ usages' = [usages EXCEPT ![r] = @ + 1]
                    /\ UNCHANGED status
                 \/ kind = "rpc_error" /\ ~Cacheable(method[r]) /\ Finish(r, "rpc_error")
                 \/ kind # "rpc_error" /\ Cacheable(method[r]) /\ Goto(r, "store")
                 \/ kind # "rpc_error" /\ ~Cacheable(method[r]) /\ Finish(r, "success")
    /\ UNCHANGED << now, tableVars, managerVars, cache, routeVars >>

\* The client fails, or answers: with a JSON-RPC error, which is returned, or
\* with what is stored if its method is cacheable.
Call(r) ==
    /\ pc[r] = "call" /\ method[r] \in Methods
    /\ \/ Finish(r, "upstream_error") /\ UNCHANGED body
       \/ \E kind \in Kinds :
              /\ body' = [body EXCEPT ![r] = AnswerOf(r, kind)]
              /\ \/ kind = "rpc_error" /\ Finish(r, "rpc_error")
                 \/ kind # "rpc_error" /\ Cacheable(method[r]) /\ Goto(r, "store")
                 \/ kind # "rpc_error" /\ ~Cacheable(method[r]) /\ Finish(r, "success")
    /\ UNCHANGED << now, tableVars, managerVars, cache, routeVars >>

\* A batch goes to the client as it is, and its answer back.
ProxyRaw(r) ==
    /\ pc[r] = "call" /\ method[r] = "batch"
    /\ Finish(r, "upstream_error") \/ Finish(r, "success")
    /\ UNCHANGED << now, tableVars, managerVars, cache, routeVars, body >>

\* Mutant: seconds are taken for something else.
SetWrongUnit(r) ==
    cache' = [cache EXCEPT ![CacheKey(r)] =
                 [until |-> now + 1000 * Ttl[method[r]], body |-> body[r]]]

Set(r) ==
    cache' = [cache EXCEPT ![CacheKey(r)] =
                 [until |-> now + Ttl[method[r]], body |-> body[r]]]

\* The result of the SET is not looked at.
Store(r) ==
    /\ pc[r] = "store"
    /\ Set(r) \/ UNCHANGED cache
    /\ Finish(r, "success")
    /\ UNCHANGED << now, tableVars, managerVars, routeVars, body >>

\* The reply of Redis is lost, and the client library sends the SET again.
StoreReplyLost(r) ==
    /\ pc[r] = "store"
    /\ Set(r)
    /\ UNCHANGED << now, tableVars, managerVars, requestVars >>

ServeHTTP(r) ==
    \/ Reject(r) \/ Receive(r) \/ ReadDefault(r) \/ GetClient(r) \/ CacheGet(r)
    \/ Call(r) \/ ProxyRaw(r) \/ Store(r) \/ StoreReplyLost(r)

-----------------------------------------------------------------------------
(* Networks, and Redis by itself                                           *)

\* The administrator changes the endpoints of a network, enables or disables it,
\* or does both at once.
Change(n) ==
    /\ changes < MaxChanges
    /\ changes' = changes + 1
    /\ version' \in {version, [version EXCEPT ![n] = @ + 1]}
    /\ enabled' \in {enabled, enabled \union {n}, enabled \ {n}}
    /\ UNCHANGED << now, managerVars, cache, requestVars >>

\* The networks in use, as ListBlockchainConfigs gives them.
Table == [n \in Networks |-> IF n \in enabled THEN version[n] ELSE 0]

\* A reload reads the table, and then makes the clients be those of what it read;
\* nothing is to be done if they are already.  Rows that an error cut off are
\* clients that are removed, as if their networks had been disabled meanwhile.
List ==
    /\ listed = client
    /\ listed' = Table
    /\ UNCHANGED << now, tableVars, client, leftAt, cache, requestVars >>

Replace ==
    /\ listed # client
    /\ client' = listed
    /\ leftAt' = [n \in Networks |-> [v \in Versions |->
                     IF v = client[n] /\ v \notin {0, listed[n]} THEN now ELSE leftAt[n][v]]]
    /\ UNCHANGED << now, tableVars, listed, cache, requestVars >>

\* maxmemory-policy allkeys-lru
Evict(k) ==
    /\ cache[k] # NoEntry
    /\ cache' = [cache EXCEPT ![k] = NoEntry]
    /\ UNCHANGED << now, tableVars, managerVars, requestVars >>

Underway == {"lookup", "call", "store"}

Tick ==
    /\ now < Horizon
    /\ \A r \in Requests : pc[r] \in Underway => now < got[r] + MaxDelay
    /\ now' = now + 1
    /\ UNCHANGED << tableVars, managerVars, cache, requestVars >>

Next ==
    \/ \E r \in Requests : ServeHTTP(r)
    \/ \E n \in Networks : Change(n)
    \/ \E k \in Keys : Evict(k)
    \/ List \/ Replace \/ Tick

Spec == Init /\ [][Next]_vars

-----------------------------------------------------------------------------
(* Properties                                                              *)

\* Types; an entry of the cache lives no longer than its method allows.
TypeOK ==
    /\ now \in Time
    /\ enabled \subseteq Networks /\ changes \in 0 .. MaxChanges
    /\ version \in [Networks -> Versions]
    /\ \A n \in Networks : version[n] \leq changes + 1
    /\ client \in [Networks -> Versions] /\ listed \in [Networks -> Versions]
    /\ leftAt \in [Networks -> [Versions -> Time]]
    /\ cache \in [Keys -> [until : Nat, body : Bodies \union {NoBody}]]
    /\ \A k \in Keys : cache[k].until \leq now + Ttl[k[2]]
    /\ pc \in [Requests -> {"new", "route", "done"} \union Underway]
    /\ method \in [Requests -> Methods \union {"none", "batch"}]
    /\ network \in [Requests -> Networks \union {NoNetwork}]
    /\ mine \in [Requests -> Versions] /\ got \in [Requests -> Time]
    /\ body \in [Requests -> Bodies \union {NoBody}]
    /\ status \in [Requests -> {"none", "invalid_request", "network_unavailable",
                                "upstream_error", "rpc_error", "success"}]
    /\ logs \in [Requests -> Nat] /\ usages \in [Requests -> Nat]

Serves(r) == pc[r] # "done" /\ pc'[r] = "done" /\ body'[r] # NoBody

OwnAndRecent(r) ==
    LET b == body'[r] IN
    /\ b.for = CacheKey(r)
    /\ now \leq b.got + Ttl[method[r]] + MaxDelay
    /\ \/ b.version = client[network[r]]
       \/ now \leq leftAt[network[r]][b.version] + Ttl[method[r]] + MaxDelay

\* What a request is answered with, from the cache or not, was given for its own
\* network and method, by a client the network had no longer ago than the cache
\* keeps an answer and a request takes, whatever reloads and other requests did
\* meanwhile (proxy.go:121-172).
AnswersAreOwnAndRecent == [][\A r \in Requests : Serves(r) => OwnAndRecent(r)]_vars

\* No JSON-RPC error is ever stored, so that none is returned as a success
\* (proxy.go:160-172).
RpcErrorsAreNotCached ==
    /\ \A k \in Keys : cache[k].body.kind # "rpc_error"
    /\ \A r \in Requests :
          status[r] = "success" /\ body[r] # NoBody => body[r].kind # "rpc_error"

\* Every request is logged once, on its way out, and counted for its tenant if
\* its method is known, on each of the ways it can end (proxy.go:75-178).
EveryEndIsRecordedOnce ==
    \A r \in Requests :
        /\ logs[r] = IF pc[r] = "done" THEN 1 ELSE 0
        /\ usages[r] = IF pc[r] = "done" /\ method[r] \in Methods THEN 1 ELSE 0
        /\ status[r] \in {"success", "rpc_error"} /\ method[r] # "batch"
             <=> pc[r] = "done" /\ body[r] # NoBody

\* What requests are routed by is what NetworkManager is shown to promise those
\* who ask it for a client: the table of one reading, all of it, and never an
\* older one than before (proxy.go:121-126, manager.go:71-134).
Dir == INSTANCE Directory WITH
           Contents <- Versions \ {0}, None <- 0,
           table <- Table, listed <- listed, shown <- client
DirectorySpec == Dir!Spec

\* What the data flow says: successful responses are cached.
CacheHoldsSuccesses ==
    \A k \in Keys : cache[k] # NoEntry => cache[k].body.kind = "result"

=============================================================================

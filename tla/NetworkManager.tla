--------------------------- MODULE NetworkManager ---------------------------
(***************************************************************************)
(* gateway/manager.go: the gateway keeps one RPC client per enabled        *)
(* network.  A goroutine reads the table of networks now and then, outside *)
(* the lock, and then makes, replaces and removes clients with the write   *)
(* lock held, also while it waits for the health checks of a client to     *)
(* end.  Requests look their client up, and /health/nodes walks over all   *)
(* clients, with the read lock; Stop ends everything.                      *)
(*                                                                         *)
(* A client is what the manager sees of RpcClient: its goroutine of health *)
(* checks, which is between two rounds or in one, with healthMu held, and  *)
(* ends when its context is done.  A network's configuration is its        *)
(* signature, or "off" when the network is disabled or not in the table.   *)
(* The behaviours begin when Start has made the first clients; if it       *)
(* cannot, the process ends.                                               *)
(***************************************************************************)
EXTENDS Naturals

CONSTANTS
    Networks,
    Signatures,     \* configSignature of an enabled network
    Clients,        \* RPC clients; one that is no longer used is used again
    NoClient,
    Handlers,       \* requests
    MaxChanges,     \* bound: changes the administrator makes
    MaxFaults       \* bound: reads of the table that are cut short

ASSUME NetworkManagerAssumption ==
    /\ NoClient \notin Clients
    /\ "off" \notin Signatures
    /\ MaxChanges \in Nat /\ MaxFaults \in Nat

Config == Signatures \union {"off"}

VARIABLES
    config, changes, faults,    \* the table of networks, and its bounds
    clients, sigs,              \* the manager's maps
    checks, cancelled,          \* each client's health checks; clients whose
                                \* StopHealthChecks was called
    loop, list, todo,           \* reload: where it is, what it has read, the
                                \* networks it has still to go through
    stop,                       \* Stop: where it is
    visit,                      \* Health: the networks it has still to ask
    asking,                     \* requests in Get
    applied                     \* history: the list last gone through

tableVars  == << config, changes, faults >>
mapVars    == << clients, sigs >>
checkVars  == << checks, cancelled >>
loopVars   == << loop, list, todo >>
readerVars == << visit, asking >>
vars == << tableVars, mapVars, checkVars, loopVars, stop, readerVars, applied >>

Has(n) == clients[n] # NoClient

Init ==
    /\ config \in [Networks -> Config] /\ changes = 0 /\ faults = 0
    /\ sigs = config /\ applied = config
    /\ clients \in [Networks -> Clients \union {NoClient}]
    /\ \A n, m \in Networks :
          /\ Has(n) <=> sigs[n] # "off"
          /\ Has(n) /\ clients[n] = clients[m] => n = m
    /\ checks = [c \in Clients |-> IF \E n \in Networks : clients[n] = c THEN "round" ELSE "none"]
    /\ cancelled = {}
    /\ loop = "select" /\ list = config /\ todo = {}
    /\ stop = "idle"
    /\ visit = {} /\ asking = {}

-----------------------------------------------------------------------------
(* mu, a sync.RWMutex: one writer, or readers, and a writer that waits     *)
(* keeps new readers out.                                                  *)

\* Mutant: a writer does not wait for readers.
LockableByOneWriter == loop # "apply" /\ stop # "stopping"

Readable == loop \notin {"listed", "apply"} /\ stop \notin {"waiting", "stopping"}
Lockable == loop # "apply" /\ stop # "stopping" /\ visit = {}

healthDone == stop # "idle"

-----------------------------------------------------------------------------
(* loop and reload                                                         *)

\* ListBlockchainConfigs at a tick.  After an error there is nothing to do until
\* the next tick.
List ==
    /\ loop = "select" /\ ~healthDone
    /\ list' = config
    /\ loop' = "listed"
    /\ UNCHANGED << tableVars, mapVars, checkVars, todo, stop, readerVars, applied >>

\* An error in the middle of the rows goes unnoticed, since the loop over them
\* does not ask for it (rows.Err): the list is too short.  The rows are sorted
\* by names, so that any of the networks may be missing.
ListCutShort ==
    /\ loop = "select" /\ faults < MaxFaults
    /\ faults' = faults + 1
    /\ \E lost \in SUBSET Networks :
          list' = [n \in Networks |-> IF n \in lost THEN "off" ELSE config[n]]
    /\ loop' = "listed"
    /\ UNCHANGED << config, changes, mapVars, checkVars, todo, stop, readerVars, applied >>

ReloadLocks ==
    /\ loop = "listed" /\ Lockable
    /\ loop' = "apply"
    /\ todo' = Networks
    /\ UNCHANGED << tableVars, mapVars, checkVars, list, stop, readerVars, applied >>

\* The networks of the list come first, then the clients that are not wanted.
Turn(n) ==
    /\ loop = "apply" /\ n \in todo
    /\ list[n] = "off" => \A m \in todo : list[m] = "off"

\* StopHealthChecks of a client that must go: the cancel.
ReloadCancels(n) ==
    /\ Turn(n) /\ Has(n) /\ sigs[n] # list[n]
    /\ cancelled' = cancelled \union {clients[n]}
    /\ UNCHANGED << tableVars, mapVars, checks, loopVars, stop, readerVars, applied >>

\* Mutant: the old checks are cancelled but not waited for.
EndedIfCancelled(n) == Has(n) => clients[n] \in cancelled

\* StopHealthChecks: the wait, for the client that n has.
Ended(n) == Has(n) => clients[n] \in cancelled /\ checks[clients[n]] = "none"

\* A client that no network has.
Spare(c) == checks[c] = "none" /\ \A n \in Networks : clients[n] # c

\* A new client for n; its health checks begin with a round.
MakeClient(n) ==
    \E c \in Clients :
        /\ Spare(c)
        /\ clients' = [clients EXCEPT ![n] = c]
        /\ sigs' = [sigs EXCEPT ![n] = list[n]]
        /\ checks' = [checks EXCEPT ![c] = "round"]
        /\ cancelled' = cancelled \ {c}

\* Mutant: the signature stays.
DropClientOnly(n) ==
    /\ clients' = [clients EXCEPT ![n] = NoClient]
    /\ UNCHANGED << sigs, checkVars >>

DropClient(n) ==
    /\ clients' = [clients EXCEPT ![n] = NoClient]
    /\ sigs' = [sigs EXCEPT ![n] = "off"]
    /\ UNCHANGED checkVars

\* Only a network whose signature differs from the old one is changed.
ReloadNetwork(n) ==
    /\ Turn(n)
    /\ \/ sigs[n] = list[n] /\ UNCHANGED << mapVars, checkVars >>
       \/ sigs[n] # list[n] /\ Ended(n) /\ list[n] # "off" /\ MakeClient(n)
       \/ sigs[n] # list[n] /\ Ended(n) /\ list[n] = "off" /\ DropClient(n)
    /\ todo' = todo \ {n}
    /\ UNCHANGED << tableVars, loop, list, stop, readerVars, applied >>

\* Mutant: after a list without networks the loop ends.
ReloadUnlocksOnce ==
    /\ loop = "apply" /\ todo = {}
    /\ loop' = IF \A n \in Networks : list[n] = "off" THEN "ended" ELSE "select"
    /\ applied' = list
    /\ UNCHANGED << tableVars, mapVars, checkVars, list, todo, stop, readerVars >>

ReloadUnlocks ==
    /\ loop = "apply" /\ todo = {}
    /\ loop' = "select"
    /\ applied' = list
    /\ UNCHANGED << tableVars, mapVars, checkVars, list, todo, stop, readerVars >>

LoopEnds ==
    /\ loop = "select" /\ healthDone
    /\ loop' = "ended"
    /\ UNCHANGED << tableVars, mapVars, checkVars, list, todo, stop, readerVars, applied >>

Reload ==
    \/ List \/ ReloadLocks \/ ReloadUnlocks \/ LoopEnds
    \/ \E n \in Networks : ReloadCancels(n) \/ ReloadNetwork(n)

-----------------------------------------------------------------------------
(* The health checks of a client                                           *)

ChecksStep(c, from, to) ==
    /\ checks[c] = from
    /\ checks' = [checks EXCEPT ![c] = to]
    /\ UNCHANGED << tableVars, mapVars, cancelled, loopVars, stop, readerVars, applied >>

\* The ticker fires, perhaps just when the context is done.
RoundBegins(c) == ChecksStep(c, "between", "round")
RoundEnds(c)   == ChecksStep(c, "round", "between")

\* Mutant: the context of the checks does not end with healthCtx.
ChecksEndOwn(c) == c \in cancelled /\ ChecksStep(c, "between", "none")

ChecksEnd(c) == (healthDone \/ c \in cancelled) /\ ChecksStep(c, "between", "none")

-----------------------------------------------------------------------------
(* Stop                                                                    *)

StopBegins ==
    /\ stop = "idle"
    /\ stop' = "waiting"
    /\ UNCHANGED << tableVars, mapVars, checkVars, loopVars, readerVars, applied >>

StopLocks ==
    /\ stop = "waiting" /\ Lockable
    /\ stop' = "stopping"
    /\ UNCHANGED << tableVars, mapVars, checkVars, loopVars, readerVars, applied >>

\* StopHealthChecks of every client; their context is done already.
StopEnds ==
    /\ stop = "stopping"
    /\ \A n \in Networks : Has(n) => checks[clients[n]] = "none"
    /\ stop' = "done"
    /\ clients' = [n \in Networks |-> NoClient]
    /\ sigs' = [n \in Networks |-> "off"]
    /\ applied' = sigs'
    /\ UNCHANGED << tableVars, checkVars, loopVars, readerVars >>

-----------------------------------------------------------------------------
(* Readers                                                                 *)

\* Health; without clients it returns at once.
HealthBegins ==
    /\ visit = {} /\ Readable
    /\ visit' = {n \in Networks : Has(n)}
    /\ UNCHANGED << tableVars, mapVars, checkVars, loopVars, stop, asking, applied >>

\* Mutant: the read lock is kept.
HealthVisitsLocked(n) ==
    /\ n \in visit /\ visit # {n}
    /\ visit' = visit \ {n}
    /\ UNCHANGED << tableVars, mapVars, checkVars, loopVars, stop, asking, applied >>

\* HealthyEndpoints waits for healthMu, which is free between two rounds and
\* may be free in one.
HealthVisits(n) ==
    /\ n \in visit
    /\ visit' = visit \ {n}
    /\ UNCHANGED << tableVars, mapVars, checkVars, loopVars, stop, asking, applied >>

Ask(h) ==
    /\ h \notin asking
    /\ asking' = asking \union {h}
    /\ UNCHANGED << tableVars, mapVars, checkVars, loopVars, stop, visit, applied >>

Get(h) ==
    /\ h \in asking /\ Readable
    /\ asking' = asking \ {h}
    /\ UNCHANGED << tableVars, mapVars, checkVars, loopVars, stop, visit, applied >>

-----------------------------------------------------------------------------
\* The administrator adds, changes, disables or deletes a network.
Change(n) ==
    /\ changes < MaxChanges
    /\ changes' = changes + 1
    /\ \E s \in Config \ {config[n]} : config' = [config EXCEPT ![n] = s]
    /\ UNCHANGED << faults, mapVars, checkVars, loopVars, stop, readerVars, applied >>

Next ==
    \/ Reload \/ ListCutShort
    \/ \E c \in Clients : RoundBegins(c) \/ RoundEnds(c) \/ ChecksEnd(c)
    \/ StopBegins \/ StopLocks \/ StopEnds
    \/ HealthBegins
    \/ \E n \in Networks : HealthVisits(n) \/ Change(n)
    \/ \E h \in Handlers : Ask(h) \/ Get(h)

MutexIsFree(n) == checks[clients[n]] # "round"

\* The goroutines run, the table can be read now and then, and rounds end by
\* their timeouts.  A select in which the context stays done takes that case in
\* the end, an Unlock lets in the readers that wait, and healthMu goes to who
\* waits for it when a round is over, if not before.
Fairness ==
    /\ WF_vars(Reload)
    /\ WF_vars(StopLocks \/ StopEnds)
    /\ \A c \in Clients : WF_vars(RoundEnds(c)) /\ SF_vars(ChecksEnd(c))
    /\ \A n \in Networks : SF_vars(HealthVisits(n) /\ MutexIsFree(n))
    /\ \A h \in Handlers : SF_vars(Get(h))

Spec == Init /\ [][Next]_vars /\ Fairness

-----------------------------------------------------------------------------
(* Properties                                                              *)

\* Types, and the write lock excludes the other writer and Health.
TypeOK ==
    /\ config \in [Networks -> Config]
    /\ changes \in 0 .. MaxChanges /\ faults \in 0 .. MaxFaults
    /\ clients \in [Networks -> Clients \union {NoClient}]
    /\ sigs \in [Networks -> Config]
    /\ checks \in [Clients -> {"none", "between", "round"}]
    /\ cancelled \subseteq Clients
    /\ loop \in {"select", "listed", "apply", "ended"}
    /\ list \in [Networks -> Config] /\ todo \subseteq Networks
    /\ stop \in {"idle", "waiting", "stopping", "done"}
    /\ visit \subseteq Networks /\ asking \subseteq Handlers
    /\ applied \in [Networks -> Config]
    /\ loop = "apply" => stop # "stopping" /\ visit = {}
    /\ stop = "stopping" => visit = {}

\* Whoever gets the lock finds what the last reload listed: a client for each
\* enabled network, made for its signature, and none for any other
\* (manager.go:86-122).
MapsShowTheList ==
    loop # "apply" => \A n \in Networks : sigs[n] = applied[n] /\ (Has(n) <=> sigs[n] # "off")

\* The maps are a Directory of the table.  What is shown in a reload, which
\* nobody can see, is still the list of the last one (manager.go:71-134, 150-161).
Shown ==
    IF loop = "apply" THEN applied
    ELSE [n \in Networks |-> IF Has(n) THEN sigs[n] ELSE "off"]
Dir == INSTANCE Directory WITH
           Contents <- Signatures, None <- "off",
           table <- config, listed <- list, shown <- Shown
DirectorySpec == Dir!Spec

\* Health checks run for clients of the map only, one goroutine for each
\* network: none is left behind when a client is replaced, removed or stopped
\* (manager.go:93-95, 118, 156-158).
NoStrayChecks ==
    /\ \A c \in Clients : checks[c] # "none" => \E n \in Networks : clients[n] = c
    /\ \A n, m \in Networks : Has(n) /\ clients[n] = clients[m] => n = m

\* Once the table no longer changes the maps come to show it and stay so,
\* unless the gateway stops (manager.go:53-69).
ReloadsConverge == <>[](stop = "idle" => \A n \in Networks : sigs[n] = config[n])

\* A request gets its answer from Get although a reload may wait for Health,
\* Health for a probe and Stop for them all (manager.go:75, 128, 137).
GetReturns == \A h \in Handlers : h \in asking ~> h \notin asking

\* Stop returns, and in the end no health checks run, not even those a reload
\* that was under way begins after Stop (manager.go:150-161).
StopEndsChecks == healthDone ~> [](stop = "done" /\ \A c \in Clients : checks[c] = "none")

\* What a reload, Stop and the health checks of a client can do without waiting.
ReloadGoesOn ==
    \/ loop = "listed" /\ Lockable
    \/ loop = "apply" /\ todo = {}
    \/ \E n \in Networks :
          /\ Turn(n)
          /\ \/ sigs[n] = list[n]
             \/ Has(n) /\ clients[n] \notin cancelled
             \/ Ended(n) /\ (list[n] # "off" => \E c \in Clients : Spare(c))
StopGoesOn ==
    \/ stop = "waiting" /\ Lockable
    \/ stop = "stopping" /\ \A n \in Networks : Has(n) => checks[clients[n]] = "none"
ChecksGoOn(c) == checks[c] = "round" \/ (checks[c] = "between" /\ (healthDone \/ c \in cancelled))

\* Nobody waits in a circle: if a reload, Stop, Health or a request is under way,
\* then one of them can go on, or a round of health checks that one of them waits
\* for, which waits for none of them, can end; a reload waits only for checks it
\* has asked to end (manager.go:77-94, 128-158).
NoCircularWait ==
    asking # {} \/ visit # {} \/ loop \in {"listed", "apply"} \/ stop \in {"waiting", "stopping"} =>
        \/ asking # {} /\ Readable
        \/ ReloadGoesOn \/ StopGoesOn
        \/ \E n \in visit : MutexIsFree(n) \/ ChecksGoOn(clients[n])
        \/ \E n \in Networks :
              /\ Has(n) /\ ChecksGoOn(clients[n])
              /\ (loop = "apply" /\ clients[n] \in cancelled) \/ stop = "stopping"

\* The manager relies on no more than what HealthChecks promises: each client it
\* models is one that keeps that promise, is made before its checks are asked to end
\* and made anew only when they have ended (manager.go:93-106, 118, 156-158).
HC(c) == INSTANCE HealthChecks WITH
             checks <- checks[c],
             asked <- (healthDone \/ c \in cancelled),
             busy <- (checks[c] = "round")
Promising   == \A c \in Clients : HC(c)!Init
PromiseKept == \A c \in Clients : [HC(c)!Next]_(HC(c)!client)
ClientsKeepPromise == Promising /\ [][PromiseKept]_vars

\* What the overview says: the reloads have no downtime.  As long as the
\* administrator changes nothing, a network keeps having a client
\* (blockchain_config_store.go:18-26).
ZeroDowntime ==
    [][\A n \in Networks : changes = 0 /\ ~healthDone /\ Has(n) => clients'[n] # NoClient]_vars

=============================================================================

------------------------ MODULE NetworkManagerProofs ------------------------
(***************************************************************************)
(* Proofs about NetworkManager for any number of networks, clients and     *)
(* requests, and without the bounds on changes and faults playing a part:  *)
(* the maps show what the last reload listed, and no health checks outlive *)
(* their client.                                                           *)
(***************************************************************************)
EXTENDS NetworkManager, FiniteSetTheorems, TLAPS

-----------------------------------------------------------------------------
(* The inductive invariant                                                 *)

\* The two maps have the same networks; while a reload goes through them,
\* those it is done with show its list.
MapsOK ==
    /\ \A n \in Networks : Has(n) <=> sigs[n] # "off"
    /\ loop = "apply" => \A n \in Networks \ todo : sigs[n] = list[n]
    /\ loop # "apply" => \A n \in Networks : sigs[n] = applied[n]

Inv == TypeOK /\ MapsOK /\ NoStrayChecks

LEMMA Initial == Init => Inv
<1> SUFFICES ASSUME Init PROVE Inv
    OBVIOUS
<1>1. TypeOK
    BY NetworkManagerAssumption DEF Init, TypeOK
<1>2. MapsOK
    BY DEF Init, MapsOK
<1>3. NoStrayChecks
  <2>1. ASSUME NEW c \in Clients, checks[c] # "none"
        PROVE  \E n \in Networks : clients[n] = c
      BY <2>1 DEF Init
  <2> QED
      BY <2>1 DEF Init, NoStrayChecks
<1> QED
    BY <1>1, <1>2, <1>3 DEF Inv

-----------------------------------------------------------------------------
(* The steps                                                               *)

\* What the maps and the health checks do in a step of the loop that has read a
\* list, or in the last step of Stop.
LEMMA NewClient ==
    ASSUME TypeOK, MapsOK, NoStrayChecks, NEW n \in Networks,
           Ended(n), MakeClient(n), list[n] # "off"
    PROVE  /\ clients' \in [Networks -> Clients \union {NoClient}]
           /\ sigs' = [sigs EXCEPT ![n] = list[n]]
           /\ checks' \in [Clients -> {"none", "between", "round"}]
           /\ cancelled' \subseteq Clients
           /\ \A m \in Networks : Has(m)' <=> sigs'[m] # "off"
           /\ NoStrayChecks'
<1>1. PICK c \in Clients :
         /\ checks[c] = "none" /\ \A m \in Networks : clients[m] # c
         /\ clients' = [clients EXCEPT ![n] = c]
         /\ sigs' = [sigs EXCEPT ![n] = list[n]]
         /\ checks' = [checks EXCEPT ![c] = "round"]
         /\ cancelled' = cancelled \ {c}
    BY DEF MakeClient, Spare
<1>2. c # NoClient
    BY NetworkManagerAssumption
<1>3. /\ clients'[n] = c /\ \A m \in Networks : m # n => clients'[m] = clients[m]
      /\ sigs'[n] = list[n] /\ \A m \in Networks : m # n => sigs'[m] = sigs[m]
      /\ checks'[c] = "round" /\ \A d \in Clients : d # c => checks'[d] = checks[d]
    BY <1>1 DEF TypeOK
<1>4. \A m \in Networks : Has(m)' <=> sigs'[m] # "off"
    BY <1>2, <1>3 DEF Has, MapsOK
<1>5. \A d \in Clients : checks'[d] # "none" => \E m \in Networks : clients'[m] = d
  <2> SUFFICES ASSUME NEW d \in Clients, d # c, checks[d] # "none"
               PROVE  \E m \in Networks : clients'[m] = d
      BY <1>3
  <2>1. PICK m \in Networks : clients[m] = d
      BY DEF NoStrayChecks
  <2>2. m # n
      BY <2>1, NetworkManagerAssumption DEF Ended, Has
  <2> QED
      BY <1>3, <2>1, <2>2
<1>6. \A m, k \in Networks : Has(m)' /\ clients'[m] = clients'[k] => m = k
    BY <1>1, <1>3 DEF NoStrayChecks, Has
<1> QED
    BY <1>1, <1>4, <1>5, <1>6 DEF TypeOK, NoStrayChecks

LEMMA ReloadStep ==
    ASSUME Inv, NEW n \in Networks, ReloadNetwork(n)
    PROVE  Inv'
<1> USE DEF Inv
<1>1. /\ loop = "apply" /\ n \in todo /\ todo' = todo \ {n}
      /\ UNCHANGED << tableVars, loop, list, stop, readerVars, applied >>
    BY DEF ReloadNetwork, Turn
<1> SUFFICES /\ clients' \in [Networks -> Clients \union {NoClient}]
             /\ sigs' = [sigs EXCEPT ![n] = list[n]]
             /\ checks' \in [Clients -> {"none", "between", "round"}]
             /\ cancelled' \subseteq Clients
             /\ \A m \in Networks : Has(m)' <=> sigs'[m] # "off"
             /\ NoStrayChecks'
  <2>1. \A m \in Networks : sigs'[m] = IF m = n THEN list[n] ELSE sigs[m]
      BY DEF TypeOK
  <2>2. TypeOK'
      BY <1>1 DEF TypeOK, tableVars, readerVars
  <2>3. MapsOK'
      BY <1>1, <2>1 DEF MapsOK
  <2> QED
      BY <2>2, <2>3
<1>2. CASE sigs[n] = list[n] /\ UNCHANGED << mapVars, checkVars >>
  <2>1. sigs' = [sigs EXCEPT ![n] = list[n]]
      BY <1>2 DEF TypeOK, mapVars
  <2> QED
      BY <1>2, <2>1 DEF TypeOK, MapsOK, NoStrayChecks, Has, mapVars, checkVars
<1>3. CASE Ended(n) /\ list[n] # "off" /\ MakeClient(n)
    BY <1>3, NewClient
<1>4. CASE Ended(n) /\ list[n] = "off" /\ DropClient(n)
  <2>1. /\ clients'[n] = NoClient /\ \A m \in Networks : m # n => clients'[m] = clients[m]
        /\ sigs'[n] = "off" /\ \A m \in Networks : m # n => sigs'[m] = sigs[m]
        /\ sigs' = [sigs EXCEPT ![n] = list[n]]
        /\ checks' = checks /\ cancelled' = cancelled
      BY <1>4 DEF DropClient, TypeOK, checkVars
  <2>2. clients' \in [Networks -> Clients \union {NoClient}]
      BY <1>4 DEF DropClient, TypeOK
  <2>3. \A m \in Networks : Has(m)' <=> sigs'[m] # "off"
      BY <2>1 DEF Has, MapsOK
  <2>4. \A c \in Clients : checks[c] # "none" => \E m \in Networks : clients'[m] = c
    <3> SUFFICES ASSUME NEW c \in Clients, checks[c] # "none"
                 PROVE  \E m \in Networks : clients'[m] = c
        OBVIOUS
    <3>1. PICK m \in Networks : clients[m] = c
        BY DEF NoStrayChecks
    <3>2. m # n
        BY <1>4, <3>1, NetworkManagerAssumption DEF Ended, Has
    <3> QED
        BY <2>1, <3>1, <3>2
  <2>5. \A m, k \in Networks : Has(m)' /\ clients'[m] = clients'[k] => m = k
      BY <2>1 DEF NoStrayChecks, Has
  <2> QED
      BY <2>1, <2>2, <2>3, <2>4, <2>5 DEF TypeOK, NoStrayChecks
<1> QED
    BY <1>2, <1>3, <1>4 DEF ReloadNetwork

LEMMA StopStep ==
    ASSUME Inv, StopEnds
    PROVE  Inv'
<1> USE DEF Inv
<1>1. /\ stop = "stopping" /\ stop' = "done" /\ loop # "apply"
      /\ clients' = [n \in Networks |-> NoClient]
      /\ sigs' = [n \in Networks |-> "off"] /\ applied' = sigs'
      /\ UNCHANGED << tableVars, checkVars, loopVars, readerVars >>
    BY DEF StopEnds, TypeOK
<1>2. \A c \in Clients : checks[c] = "none"
    BY NetworkManagerAssumption DEF StopEnds, NoStrayChecks, Has
<1>3. TypeOK'
    BY <1>1 DEF TypeOK, Config, tableVars, checkVars, loopVars, readerVars
<1>4. MapsOK'
    BY <1>1 DEF MapsOK, Has, loopVars
<1>5. NoStrayChecks'
    BY <1>1, <1>2 DEF NoStrayChecks, Has, checkVars
<1> QED
    BY <1>3, <1>4, <1>5

\* The invariant is kept by every step.
LEMMA Inductive ==
    ASSUME Inv, Next \/ UNCHANGED vars
    PROVE  Inv'
<1> USE DEF Inv
<1>1. ASSUME UNCHANGED << mapVars, checkVars, loop, list, todo, applied >>, TypeOK'
      PROVE  Inv'
    BY <1>1 DEF MapsOK, NoStrayChecks, Has, mapVars, checkVars
<1>2. ASSUME List \/ ListCutShort
      PROVE  Inv'
  <2>1. TypeOK'
      BY <1>2, NetworkManagerAssumption
         DEF List, ListCutShort, TypeOK, Config, tableVars, mapVars, checkVars, readerVars
  <2>2. MapsOK' /\ NoStrayChecks'
      BY <1>2 DEF List, ListCutShort, MapsOK, NoStrayChecks, Has, mapVars, checkVars
  <2> QED
      BY <2>1, <2>2
<1>3. ASSUME ReloadLocks \/ ReloadUnlocks \/ LoopEnds
      PROVE  Inv'
  <2>1. TypeOK'
      BY <1>3 DEF ReloadLocks, ReloadUnlocks, LoopEnds, Lockable, TypeOK, tableVars, mapVars,
                  checkVars, readerVars
  <2>2. MapsOK' /\ NoStrayChecks'
      BY <1>3 DEF ReloadLocks, ReloadUnlocks, LoopEnds, MapsOK, NoStrayChecks, Has, mapVars,
                  checkVars, TypeOK
  <2> QED
      BY <2>1, <2>2
<1>4. ASSUME NEW n \in Networks, ReloadCancels(n)
      PROVE  Inv'
  <2>1. clients[n] \in Clients
      BY <1>4 DEF ReloadCancels, Has, TypeOK
  <2>2. TypeOK'
      BY <1>4, <2>1 DEF ReloadCancels, TypeOK, tableVars, mapVars, loopVars, readerVars
  <2>3. MapsOK' /\ NoStrayChecks'
      BY <1>4 DEF ReloadCancels, MapsOK, NoStrayChecks, Has, mapVars, loopVars
  <2> QED
      BY <2>2, <2>3
<1>5. ASSUME NEW c \in Clients, RoundBegins(c) \/ RoundEnds(c) \/ ChecksEnd(c)
      PROVE  Inv'
  <2>1. /\ checks[c] # "none" /\ checks' \in [Clients -> {"none", "between", "round"}]
        /\ \A d \in Clients : d # c => checks'[d] = checks[d]
        /\ UNCHANGED << tableVars, mapVars, cancelled, loopVars, stop, readerVars, applied >>
      BY <1>5 DEF RoundBegins, RoundEnds, ChecksEnd, ChecksStep, TypeOK
  <2>2. TypeOK'
      BY <2>1 DEF TypeOK, tableVars, mapVars, loopVars, readerVars
  <2>3. MapsOK' /\ NoStrayChecks'
      BY <2>1 DEF MapsOK, NoStrayChecks, Has, mapVars, loopVars
  <2> QED
      BY <2>2, <2>3
<1>6. ASSUME StopBegins \/ StopLocks
      PROVE  Inv'
  <2>1. TypeOK'
      BY <1>6 DEF StopBegins, StopLocks, Lockable, TypeOK, tableVars, mapVars, checkVars,
                  loopVars, readerVars
  <2> QED
      BY <1>1, <1>6, <2>1 DEF StopBegins, StopLocks, loopVars
<1>7. ASSUME HealthBegins \/ (\E n \in Networks : HealthVisits(n))
             \/ \E h \in Handlers : Ask(h) \/ Get(h)
      PROVE  Inv'
  <2>1. TypeOK'
      BY <1>7 DEF HealthBegins, HealthVisits, Ask, Get, Readable, TypeOK, tableVars, mapVars,
                  checkVars, loopVars
  <2> QED
      BY <1>1, <1>7, <2>1 DEF HealthBegins, HealthVisits, Ask, Get, loopVars
<1>8. ASSUME NEW n \in Networks, Change(n)
      PROVE  Inv'
  <2>1. TypeOK'
      BY <1>8, NetworkManagerAssumption DEF Change, TypeOK, mapVars, checkVars, loopVars, readerVars
  <2> QED
      BY <1>1, <1>8, <2>1 DEF Change, loopVars
<1>9. ASSUME UNCHANGED vars
      PROVE  Inv'
  <2>1. TypeOK'
      BY <1>9 DEF vars, TypeOK, tableVars, mapVars, checkVars, loopVars, readerVars
  <2> QED
      BY <1>1, <1>9, <2>1 DEF vars, loopVars
<1> QED
    BY <1>2, <1>3, <1>4, <1>5, <1>6, <1>7, <1>8, <1>9, ReloadStep, StopStep DEF Next, Reload

-----------------------------------------------------------------------------
(* The theorems                                                            *)

\* The inductive invariant holds (manager.go:32-161).
THEOREM Invariance == Spec => []Inv
<1>1. Init => Inv
    BY Initial
<1>2. Inv /\ [Next]_vars => Inv'
    BY Inductive
<1> QED
    BY <1>1, <1>2, PTL DEF Spec

\* Types are right, and the write lock excludes the other writer and Health
\* (manager.go:77, 137, 153).
THEOREM TypeCorrect == Spec => []TypeOK
<1>1. Inv => TypeOK
    BY DEF Inv
<1> QED
    BY <1>1, Invariance, PTL

\* Whoever gets the lock finds a client for exactly the networks the last
\* reload listed, made for their signatures (manager.go:86-122).
THEOREM MapsFollowList == Spec => []MapsShowTheList
<1>1. Inv => MapsShowTheList
    BY DEF Inv, MapsOK, MapsShowTheList
<1> QED
    BY <1>1, Invariance, PTL

\* No health checks are left behind by a reload or by Stop, and networks do not
\* share a client (manager.go:93-95, 118, 156-158).
THEOREM ChecksFollowMaps == Spec => []NoStrayChecks
<1>1. Inv => NoStrayChecks
    BY DEF Inv
<1> QED
    BY <1>1, Invariance, PTL

\* The clients the manager models keep the promise of HealthChecks, which those
\* of RpcClient keep: it relies on no more than that (manager.go:93-106, 150-161).
THEOREM ClientsAsPromised == Spec => ClientsKeepPromise
<1> USE DEF HC!Next, HC!client, HC!Start, HC!RoundBegins, HC!RoundEnds, HC!Stop, HC!End
<1>1. ASSUME Init, NEW c \in Clients
      PROVE  HC(c)!Init
    BY <1>1 DEF Init, HC!Init, healthDone
<1>2. ASSUME Inv, [Next]_vars, NEW c \in Clients
      PROVE  [HC(c)!Next]_(HC(c)!client)
  <2>1. ASSUME UNCHANGED << checkVars, stop >>
        PROVE  UNCHANGED << checks[c], healthDone \/ c \in cancelled >>
      BY <2>1 DEF checkVars, healthDone
  <2>2. CASE \E n \in Networks : ReloadCancels(n)
      BY <1>2, <2>2 DEF ReloadCancels, Inv, TypeOK, healthDone
  <2>3. CASE \E n \in Networks : ReloadNetwork(n)
    <3>1. PICK n \in Networks : ReloadNetwork(n)
        BY <2>3
    <3>2. stop' = stop
        BY <3>1 DEF ReloadNetwork
    <3>3. CASE UNCHANGED checkVars
        BY <2>1, <3>2, <3>3
    <3>4. CASE MakeClient(n)
      <4>1. PICK d \in Clients :
               /\ checks[d] = "none"
               /\ checks' = [checks EXCEPT ![d] = "round"]
               /\ cancelled' = cancelled \ {d}
          BY <3>4 DEF MakeClient, Spare
      <4>2. CASE c = d
        <5>1. checks[c] = "none" /\ checks'[c] = "round"
            BY <1>2, <4>1, <4>2 DEF Inv, TypeOK
        <5> QED
            BY <5>1
      <4>3. CASE c # d
        <5>1. checks'[c] = checks[c] /\ (c \in cancelled' <=> c \in cancelled)
            BY <1>2, <4>1, <4>3 DEF Inv, TypeOK
        <5> QED
            BY <3>2, <5>1 DEF healthDone
      <4> QED
          BY <4>2, <4>3
    <3> QED
        BY <3>1, <3>3, <3>4 DEF ReloadNetwork, DropClient, mapVars
  <2>4. ASSUME NEW d \in Clients, RoundBegins(d) \/ RoundEnds(d) \/ ChecksEnd(d)
        PROVE  [HC(c)!Next]_(HC(c)!client)
    <3>1. UNCHANGED << cancelled, stop >>
        BY <2>4 DEF RoundBegins, RoundEnds, ChecksEnd, ChecksStep
    <3>2. CASE c = d
        BY <1>2, <2>4, <3>1, <3>2
           DEF RoundBegins, RoundEnds, ChecksEnd, ChecksStep, healthDone, Inv, TypeOK
    <3>3. CASE c # d
        BY <1>2, <2>4, <3>1, <3>3
           DEF RoundBegins, RoundEnds, ChecksEnd, ChecksStep, healthDone, Inv, TypeOK
    <3> QED
        BY <3>2, <3>3
  <2>5. CASE StopBegins \/ StopLocks \/ StopEnds
      BY <2>1, <2>5 DEF StopBegins, StopLocks, StopEnds, checkVars, healthDone
  <2>6. CASE \/ List \/ ReloadLocks \/ ReloadUnlocks \/ LoopEnds \/ ListCutShort \/ HealthBegins
             \/ \E n \in Networks : HealthVisits(n) \/ Change(n)
             \/ \E h \in Handlers : Ask(h) \/ Get(h)
             \/ UNCHANGED vars
    <3>1. UNCHANGED << checkVars, stop >>
        BY <2>6 DEF List, ReloadLocks, ReloadUnlocks, LoopEnds, ListCutShort, HealthBegins,
                    HealthVisits, Change, Ask, Get, vars
    <3> QED
        BY <2>1, <3>1
  <2> QED
      BY <1>2, <2>2, <2>3, <2>4, <2>5, <2>6 DEF Next, Reload
<1>3. Init => Promising
    BY <1>1 DEF Promising
<1>4. Inv /\ [Next]_vars => PromiseKept
    BY <1>2 DEF PromiseKept
<1> QED
    BY <1>3, <1>4, Invariance, PTL DEF Spec, ClientsKeepPromise

-----------------------------------------------------------------------------
(* The maps are a Directory *)

LEMMA DirectoryInitial == Init => Dir!Init
<1> SUFFICES ASSUME Init PROVE Dir!Init
    OBVIOUS
<1>1. Shown = config
    BY DEF Init, Shown, Has, Config
<1> QED
    BY <1>1 DEF Init, Dir!Init, Config

\* Outside a reload what is shown is the list of the last one.
LEMMA ShownIsApplied ==
    ASSUME Inv
    PROVE  Shown = applied
<1>1. CASE loop = "apply"
    BY <1>1 DEF Shown
<1>2. CASE loop # "apply"
  <2>1. \A n \in Networks : (IF Has(n) THEN sigs[n] ELSE "off") = applied[n]
      BY <1>2 DEF Inv, MapsOK
  <2>2. applied = [n \in Networks |-> applied[n]]
      BY DEF Inv, TypeOK
  <2> QED
      BY <1>2, <2>1, <2>2 DEF Shown
<1> QED
    BY <1>1, <1>2

LEMMA DirectoryStep ==
    ASSUME Inv, Inv', Next \/ UNCHANGED vars
    PROVE  Dir!Next \/ UNCHANGED Dir!directory
<1>1. Shown = applied /\ Shown' = applied'
  <2>1. Shown = applied
      BY ShownIsApplied
  <2>2. Shown' = applied'
    <3>1. CASE loop' = "apply"
        BY <3>1 DEF Shown
    <3>2. CASE loop' # "apply"
      <4>1. \A n \in Networks : (IF Has(n)' THEN sigs'[n] ELSE "off") = applied'[n]
          BY <3>2 DEF Inv, MapsOK
      <4>2. applied' = [n \in Networks |-> applied'[n]]
          BY DEF Inv, TypeOK
      <4> QED
          BY <3>2, <4>1, <4>2 DEF Shown
    <3> QED
        BY <3>1, <3>2
  <2> QED
      BY <2>1, <2>2
<1>2. ASSUME UNCHANGED << config, list, applied >>
      PROVE  UNCHANGED Dir!directory
    BY <1>1, <1>2 DEF Dir!directory
<1>3. CASE List
  <2>1. list' = [n \in Networks |-> IF n \in {} THEN "off" ELSE config[n]]
      BY <1>3 DEF List, Inv, TypeOK
  <2>2. Dir!List({})
      BY <1>1, <1>3, <2>1 DEF List, Dir!List, tableVars
  <2> QED
      BY <2>2 DEF Dir!Next
<1>4. CASE ListCutShort
  <2>1. PICK lost \in SUBSET Networks :
           list' = [n \in Networks |-> IF n \in lost THEN "off" ELSE config[n]]
      BY <1>4 DEF ListCutShort
  <2>2. Dir!List(lost)
      BY <1>1, <1>4, <2>1 DEF ListCutShort, Dir!List
  <2> QED
      BY <2>2 DEF Dir!Next
<1>5. CASE ReloadUnlocks
  <2>1. Dir!Replace
      BY <1>1, <1>5 DEF ReloadUnlocks, Dir!Replace, tableVars
  <2> QED
      BY <2>1 DEF Dir!Next
<1>6. CASE StopEnds
  <2>1. Dir!Close
      BY <1>1, <1>6 DEF StopEnds, Dir!Close, tableVars, loopVars
  <2> QED
      BY <2>1 DEF Dir!Next
<1>7. ASSUME NEW n \in Networks, Change(n)
      PROVE  Dir!Next
  <2>1. Dir!Change(n)
      BY <1>1, <1>7 DEF Change, Dir!Change, Config, loopVars
  <2> QED
      BY <2>1 DEF Dir!Next
<1>8. CASE \/ ReloadLocks \/ LoopEnds
           \/ \E n \in Networks : ReloadCancels(n) \/ ReloadNetwork(n) \/ HealthVisits(n)
           \/ \E c \in Clients : RoundBegins(c) \/ RoundEnds(c) \/ ChecksEnd(c)
           \/ StopBegins \/ StopLocks \/ HealthBegins
           \/ \E h \in Handlers : Ask(h) \/ Get(h)
           \/ UNCHANGED vars
  <2>1. UNCHANGED << config, list, applied >>
      BY <1>8 DEF ReloadLocks, LoopEnds, ReloadCancels, ReloadNetwork, HealthVisits, RoundBegins,
                  RoundEnds, ChecksEnd, ChecksStep, StopBegins, StopLocks, HealthBegins, Ask, Get,
                  vars, tableVars, loopVars
  <2> QED
      BY <1>2, <2>1
<1> QED
    BY <1>3, <1>4, <1>5, <1>6, <1>7, <1>8 DEF Next, Reload

\* Whoever asks the manager finds the table of one reading, all of it, and never
\* an older one than before: the manager implements Directory (manager.go:71-134).
THEOREM Refinement == Spec => DirectorySpec
<1>1. Init => Dir!Init
    BY DirectoryInitial
<1>2. Inv /\ Inv' /\ [Next]_vars => [Dir!Next]_(Dir!directory)
    BY DirectoryStep
<1> QED
    BY <1>1, <1>2, Invariance, PTL DEF Spec, DirectorySpec, Dir!Spec

-----------------------------------------------------------------------------
(* Nobody waits in a circle *)

\* With more clients than networks there is always one to make (the code makes a
\* client whenever it wants one).
LEMMA SpareClient ==
    ASSUME Inv, IsFiniteSet(Networks), Cardinality(Clients) > Cardinality(Networks)
    PROVE  \E c \in Clients : Spare(c)
<1> SUFFICES ASSUME \A c \in Clients : ~Spare(c)
             PROVE  FALSE
    OBVIOUS
<1> DEFINE Used == {clients[n] : n \in Networks}
<1>1. IsFiniteSet(Used) /\ Cardinality(Used) \leq Cardinality(Networks)
  <2>1. clients \in Surjection(Networks, Used)
      BY DEF Inv, TypeOK, Surjection
  <2> QED
      BY <2>1, FS_Surjection
<1>2. Clients \subseteq Used
    BY DEF Spare, Inv, NoStrayChecks
<1>3. Cardinality(Clients) \leq Cardinality(Used)
    BY <1>1, <1>2, FS_Subset
<1>4. /\ Cardinality(Clients) \in Nat /\ Cardinality(Used) \in Nat
      /\ Cardinality(Networks) \in Nat
    BY <1>1, <1>2, FS_Subset, FS_CardinalityType
<1> QED
    BY <1>1, <1>3, <1>4

\* A reload, Stop, Health and the requests, which wait for one another's lock and
\* for rounds of health checks, never wait in a circle (manager.go:77-94, 128-158).
THEOREM WaitingEnds ==
    ASSUME IsFiniteSet(Networks), Cardinality(Clients) > Cardinality(Networks)
    PROVE  Spec => []NoCircularWait
<1>1. Inv => NoCircularWait
  <2> SUFFICES ASSUME Inv,
                      \/ asking # {} \/ visit # {}
                      \/ loop \in {"listed", "apply"} \/ stop \in {"waiting", "stopping"}
               PROVE  \/ asking # {} /\ Readable
                      \/ ReloadGoesOn \/ StopGoesOn
                      \/ \E n \in visit : MutexIsFree(n) \/ ChecksGoOn(clients[n])
                      \/ \E n \in Networks :
                            /\ Has(n) /\ ChecksGoOn(clients[n])
                            /\ \/ loop = "apply" /\ clients[n] \in cancelled
                               \/ stop = "stopping"
      BY DEF NoCircularWait
  <2>1. ASSUME NEW n \in Networks, Has(n), checks[clients[n]] # "none",
               healthDone \/ clients[n] \in cancelled
        PROVE  ChecksGoOn(clients[n])
    <3>1. checks[clients[n]] \in {"between", "round"}
        BY <2>1 DEF Inv, TypeOK, Has
    <3> QED
        BY <2>1, <3>1 DEF ChecksGoOn
  <2>2. CASE loop = "apply"
    <3>1. CASE todo = {}
        BY <2>2, <3>1 DEF ReloadGoesOn
    <3>2. CASE todo # {}
      <4>1. PICK n \in Networks : Turn(n)
          BY <2>2, <3>2 DEF Turn, Inv, TypeOK
      <4>2. CASE sigs[n] = list[n] \/ (Has(n) /\ clients[n] \notin cancelled)
          BY <4>1, <4>2 DEF ReloadGoesOn
      <4>3. CASE Ended(n)
          BY <4>1, <4>3, SpareClient DEF ReloadGoesOn
      <4>4. CASE Has(n) /\ clients[n] \in cancelled /\ ~Ended(n)
          BY <2>1, <2>2, <4>4 DEF Ended
      <4> QED
          BY <4>2, <4>3, <4>4 DEF Ended
    <3> QED
        BY <3>1, <3>2
  <2>3. CASE stop = "stopping"
    <3>1. CASE \A n \in Networks : Has(n) => checks[clients[n]] = "none"
        BY <2>3, <3>1 DEF StopGoesOn
    <3>2. CASE \E n \in Networks : Has(n) /\ checks[clients[n]] # "none"
        BY <2>1, <2>3, <3>2 DEF healthDone
    <3> QED
        BY <3>1, <3>2
  <2>4. CASE visit # {}
      BY <2>4 DEF MutexIsFree, ChecksGoOn
  <2>5. CASE loop # "apply" /\ stop # "stopping" /\ visit = {}
      BY <2>5 DEF Lockable, Readable, ReloadGoesOn, StopGoesOn
  <2> QED
      BY <2>2, <2>3, <2>4, <2>5
<1> QED
    BY <1>1, Invariance, PTL
=============================================================================

--------------------------- MODULE IngestorProofs ---------------------------
(***************************************************************************)
(* Proofs about Ingestor for any number of ingestors, gateways, networks   *)
(* and blocks: the table of blocks is an Archive, and seeding leaves a     *)
(* default network.                                                        *)
(***************************************************************************)
EXTENDS Ingestor, TLAPS

-----------------------------------------------------------------------------
(* The inductive invariant                                                 *)

\* A loop has in hand what its own network has shown.
HandInv ==
    \A i \in Ingestors, n \in Networks :
        inHand[i][n] # NoBlock => inHand[i][n] \in shown[n]

\* The head of a chain was shown.
HeadInv == \A n \in Networks : head[n] \in shown[n]

\* A deletion is of a network that is still there.
DeletingInv == deleting # NoNetwork => deleting \in Configured

Inv == TypeOK /\ HeadInv /\ HandInv /\ DeletingInv /\ SeededHasDefault

\* What an Archive speaks of.
archived == << Configured, shown, rows >>

LEMMA FirstIsBlock == First \in Blocks
<1>1. PICK v \in Versions : TRUE
    BY IngestorAssumption
<1>2. 1 \in 1 .. MaxNumber
    BY IngestorAssumption
<1>3. [number |-> 1, version |-> v] \in Blocks
    BY <1>1, <1>2 DEF Blocks
<1>4. \E b \in Blocks : b.number = 1
    BY <1>3
<1> QED
    BY <1>4 DEF First

LEMMA NoBlockIsNone == NoBlock \notin Blocks
    BY IngestorAssumption DEF Blocks

LEMMA Initial == Init => Inv
<1> SUFFICES ASSUME Init PROVE Inv
    OBVIOUS
<1> USE FirstIsBlock DEF Init
<1>1. TypeOK
    BY DEF TypeOK
<1>2. HeadInv /\ HandInv
    BY DEF HeadInv, HandInv
<1>3. DeletingInv /\ SeededHasDefault
    BY DEF DeletingInv, SeededHasDefault
<1> QED
    BY <1>1, <1>2, <1>3 DEF Inv

-----------------------------------------------------------------------------
(* The table of networks                                                   *)

\* A new row: Configured grows by it, and a default stays one.
LEMMA SaveEffect ==
    ASSUME Inv, NEW n \in Networks, NEW state \in {"enabled", "disabled"}, Save(n, state)
    PROVE  /\ n \notin Configured /\ Configured' = Configured \union {n}
           /\ Enabled' = IF state = "enabled" THEN Enabled \union {n} ELSE Enabled
           /\ \A m \in Networks : config[m] = "deleted" => config'[m] = "deleted"
           /\ config' \in [Networks -> {"unborn", "enabled", "disabled", "deleted"}]
    BY DEF Inv, TypeOK, Save, Configured, Enabled

LEMMA SaveKeeps ==
    ASSUME Inv, NEW n \in Networks, NEW state \in {"enabled", "disabled"}, Save(n, state)
    PROVE  HeadInv' /\ HandInv' /\ DeletingInv'
    BY SaveEffect DEF Save, Inv, HeadInv, HandInv, DeletingInv, chainVars, loopVars

LEMMA SeedStep ==
    ASSUME Inv, NEW g \in Gateways, SeedReads(g) \/ SeedInserts(g) \/ SeedFails(g)
    PROVE  Inv'
<1>1. CASE SeedReads(g) \/ SeedFails(g)
  <2>1. UNCHANGED << config, deleting, chainVars, rows, loopVars >>
      BY <1>1 DEF SeedReads, SeedFails, tableVars
  <2>2. TypeOK' /\ HeadInv' /\ HandInv' /\ DeletingInv'
      BY <1>1, <2>1 DEF SeedReads, SeedFails, Inv, TypeOK, HeadInv, HandInv, DeletingInv, Configured,
                        chainVars, loopVars
  <2>3. SeededHasDefault'
      BY <1>1, <2>1 DEF SeedReads, SeedFails, Inv, TypeOK, SeededHasDefault, Enabled
  <2> QED
      BY <2>2, <2>3 DEF Inv
<1>2. CASE SeedInserts(g)
  <2>1. PICK n \in Networks : Save(n, "enabled")
      BY <1>2 DEF SeedInserts
  <2>2. TypeOK'
      BY <1>2, <2>1, SaveEffect DEF SeedInserts, Save, Inv, TypeOK, chainVars, loopVars
  <2>3. SeededHasDefault'
      BY <2>1, SaveEffect DEF SeededHasDefault
  <2> QED
      BY <2>1, <2>2, <2>3, SaveKeeps DEF Inv
<1> QED
    BY <1>1, <1>2

LEMMA CreateStep ==
    ASSUME Inv, NEW n \in Networks, Create(n)
    PROVE  Inv'
<1>1. PICK state \in {"enabled", "disabled"} : Save(n, state)
    BY DEF Create
<1>2. TypeOK'
    BY <1>1, SaveEffect DEF Create, Save, Inv, TypeOK, chainVars, loopVars
<1>3. SeededHasDefault'
    BY <1>1, SaveEffect DEF Create, Inv, SeededHasDefault
<1> QED
    BY <1>1, <1>2, <1>3, SaveKeeps DEF Inv

LEMMA DeletionStep ==
    ASSUME Inv, \/ \E n \in Networks : DeleteUnlinks(n)
                \/ DeleteCommits \/ DeleteRollsBack
    PROVE  Inv'
<1>1. UNCHANGED << seed, chainVars, rows, loopVars >>
    BY DEF DeleteUnlinks, DeleteCommits, DeleteRollsBack
<1>2. HeadInv' /\ HandInv'
    BY <1>1 DEF Inv, HeadInv, HandInv, chainVars, loopVars
<1>3. CASE DeleteCommits
  <2>1. deleting \in Networks
      BY <1>3 DEF DeleteCommits, Inv, TypeOK
  <2>2. TypeOK'
      BY <1>1, <1>3, <2>1 DEF DeleteCommits, Inv, TypeOK, chainVars, loopVars
  <2>3. config'[deleting] = "deleted"
      BY <1>3, <2>1 DEF DeleteCommits, Inv, TypeOK
  <2> QED
      BY <1>2, <1>3, <2>1, <2>2, <2>3 DEF DeleteCommits, Inv, DeletingInv, SeededHasDefault
<1>4. CASE DeleteRollsBack \/ \E n \in Networks : DeleteUnlinks(n)
  <2>1. TypeOK'
      BY <1>1, <1>4 DEF DeleteRollsBack, DeleteUnlinks, Inv, TypeOK, chainVars, loopVars
  <2>2. DeletingInv'
      BY <1>4 DEF DeleteRollsBack, DeleteUnlinks, DeletingInv, Configured
  <2>3. SeededHasDefault'
      BY <1>1, <1>4 DEF DeleteRollsBack, DeleteUnlinks, Inv, SeededHasDefault, Enabled
  <2> QED
      BY <1>2, <2>1, <2>2, <2>3 DEF Inv
<1> QED
    BY <1>3, <1>4

-----------------------------------------------------------------------------
(* The chains                                                              *)

LEMMA ChainStep ==
    ASSUME Inv, NEW n \in Networks,
           Settle(n) \/ \E b \in Blocks : NewHead(n, b)
    PROVE  Inv'
<1>1. UNCHANGED << config, deleting, seed, rows, loopVars >>
    BY DEF Settle, NewHead, tableVars
<1>2. /\ shown' \in [Networks -> SUBSET Blocks] /\ head' \in [Networks -> Blocks]
      /\ settled' \subseteq Networks
      /\ \A m \in Networks : shown[m] \subseteq shown'[m] /\ head'[m] \in shown'[m]
  <2>1. CASE Settle(n)
      BY <2>1 DEF Settle, Inv, TypeOK, HeadInv
  <2>2. CASE \E b \in Blocks : NewHead(n, b)
      BY <2>2 DEF NewHead, Inv, TypeOK, HeadInv
  <2> QED
      BY <2>1, <2>2
<1>3. TypeOK'
    BY <1>1, <1>2 DEF Inv, TypeOK, loopVars
<1>4. HeadInv' /\ HandInv'
    BY <1>1, <1>2 DEF Inv, HeadInv, HandInv, loopVars
<1>5. DeletingInv' /\ SeededHasDefault'
    BY <1>1 DEF Inv, DeletingInv, SeededHasDefault, Configured, Enabled
<1> QED
    BY <1>3, <1>4, <1>5 DEF Inv

-----------------------------------------------------------------------------
(* The ingestors                                                           *)

\* What a loop has in hand is put down, or a block that its network has shown
\* is taken.
LEMMA HandsMove ==
    ASSUME Inv, UNCHANGED shown,
           NEW i \in Ingestors, NEW n \in Networks, NEW b \in shown[n] \union {NoBlock},
           inHand' = [inHand EXCEPT ![i][n] = b]
    PROVE  HandInv' /\ inHand' \in [Ingestors -> [Networks -> Blocks \union {NoBlock}]]
<1>1. b \in Blocks \union {NoBlock}
    BY DEF Inv, TypeOK
<1>2. inHand' \in [Ingestors -> [Networks -> Blocks \union {NoBlock}]]
    BY <1>1 DEF Inv, TypeOK
<1>3. \A j \in Ingestors, m \in Networks :
          inHand'[j][m] = IF j = i /\ m = n THEN b ELSE inHand[j][m]
    BY DEF Inv, TypeOK
<1> QED
    BY <1>2, <1>3 DEF Inv, HandInv

LEMMA LoopStep ==
    ASSUME Inv, NEW i \in Ingestors, NEW n \in Networks,
           Polls(i, n) \/ Stores(i, n) \/ StoreFails(i, n) \/ LoopExits(i, n)
    PROVE  Inv'
<1>1. UNCHANGED << tableVars, seed, chainVars, main, cutShort >>
    BY DEF Polls, Stores, StoreFails, LoopExits
<1>2. HeadInv' /\ DeletingInv' /\ SeededHasDefault'
    BY <1>1 DEF Inv, HeadInv, DeletingInv, SeededHasDefault, Configured, Enabled, tableVars,
                chainVars
<1>3. HandInv' /\ inHand' \in [Ingestors -> [Networks -> Blocks \union {NoBlock}]]
  <2>1. CASE Polls(i, n)
    <3>1. PICK b \in IF n \in settled THEN {head[n]} ELSE shown[n] :
              inHand' = [inHand EXCEPT ![i][n] = b]
        BY <2>1 DEF Polls
    <3>2. b \in shown[n]
        BY <3>1 DEF Inv, HeadInv
    <3> QED
        BY <1>1, <3>1, <3>2, HandsMove DEF chainVars
  <2>2. CASE Stores(i, n) \/ StoreFails(i, n)
      BY <1>1, <2>2, HandsMove DEF Stores, StoreFails, chainVars
  <2>3. CASE LoopExits(i, n)
      BY <1>1, <2>3 DEF LoopExits, Inv, TypeOK, HandInv, chainVars
  <2> QED
      BY <2>1, <2>2, <2>3
<1>4. rows' \in [Networks -> SUBSET Blocks]
  <2>1. CASE Stores(i, n)
    <3>1. inHand[i][n] \in Blocks
        BY <2>1 DEF Stores, Inv, TypeOK
    <3> QED
        BY <2>1, <3>1 DEF Stores, Inv, TypeOK
  <2>2. CASE Polls(i, n) \/ StoreFails(i, n) \/ LoopExits(i, n)
      BY <2>2 DEF Polls, StoreFails, LoopExits, Inv, TypeOK
  <2> QED
      BY <2>1, <2>2
<1>5. polled' \in [Ingestors -> SUBSET Networks]
    BY DEF Polls, Stores, StoreFails, LoopExits, Inv, TypeOK
<1>6. TypeOK'
    BY <1>1, <1>3, <1>4, <1>5 DEF Inv, TypeOK, tableVars, chainVars
<1> QED
    BY <1>2, <1>3, <1>6 DEF Inv

LEMMA MainStep ==
    ASSUME Inv, NEW i \in Ingestors,
           Lists(i) \/ Signal(i) \/ Ends(i) \/ Restarts(i)
    PROVE  Inv'
<1>1. UNCHANGED << tableVars, seed, chainVars, rows >>
    BY DEF Lists, Signal, Ends, Restarts
<1>2. HeadInv' /\ DeletingInv' /\ SeededHasDefault'
    BY <1>1 DEF Inv, HeadInv, DeletingInv, SeededHasDefault, Configured, Enabled, tableVars,
                chainVars
<1>3. main' \in [Ingestors -> {"starting", "running", "stopping", "ended"}]
    BY DEF Lists, Signal, Ends, Restarts, Inv, TypeOK
<1>4. polled' \in [Ingestors -> SUBSET Networks] /\ cutShort' \subseteq Ingestors
    BY DEF Lists, Signal, Ends, Restarts, Inv, TypeOK, Enabled
<1>5. HandInv' /\ inHand' \in [Ingestors -> [Networks -> Blocks \union {NoBlock}]]
  <2>1. CASE Ends(i)
    <3>1. inHand' = [inHand EXCEPT ![i] = [n \in Networks |-> NoBlock]]
        BY <2>1 DEF Ends
    <3> QED
        BY <1>1, <3>1 DEF Inv, TypeOK, HandInv, chainVars
  <2>2. CASE Lists(i) \/ Signal(i) \/ Restarts(i)
      BY <1>1, <2>2 DEF Lists, Signal, Restarts, Inv, TypeOK, HandInv, chainVars
  <2> QED
      BY <2>1, <2>2
<1>6. TypeOK'
    BY <1>1, <1>3, <1>4, <1>5 DEF Inv, TypeOK, tableVars, chainVars
<1> QED
    BY <1>2, <1>5, <1>6 DEF Inv

LEMMA Inductive == Inv /\ [Next]_vars => Inv'
<1> SUFFICES ASSUME Inv, [Next]_vars PROVE Inv'
    OBVIOUS
<1>1. CASE \E g \in Gateways : SeedReads(g) \/ SeedInserts(g) \/ SeedFails(g)
    BY <1>1, SeedStep
<1>2. CASE \E n \in Networks : Create(n)
    BY <1>2, CreateStep
<1>3. CASE \/ \E n \in Networks : DeleteUnlinks(n)
           \/ DeleteCommits \/ DeleteRollsBack
    BY <1>3, DeletionStep
<1>4. CASE \E n \in Networks : Settle(n) \/ \E b \in Blocks : NewHead(n, b)
    BY <1>4, ChainStep
<1>5. CASE \E i \in Ingestors : Lists(i) \/ Signal(i) \/ Ends(i) \/ Restarts(i)
    BY <1>5, MainStep
<1>6. CASE \E i \in Ingestors, n \in Networks :
             Polls(i, n) \/ Stores(i, n) \/ StoreFails(i, n) \/ LoopExits(i, n)
    BY <1>6, LoopStep
<1>7. CASE UNCHANGED vars
    BY <1>7 DEF vars, tableVars, chainVars, loopVars, Inv, TypeOK, HeadInv, HandInv,
                DeletingInv, SeededHasDefault, Configured, Enabled
<1> QED
    BY <1>1, <1>2, <1>3, <1>4, <1>5, <1>6, <1>7 DEF Next

-----------------------------------------------------------------------------
(* The archive                                                             *)

LEMMA TableRefines ==
    ASSUME Inv, \/ \E g \in Gateways : SeedReads(g) \/ SeedInserts(g) \/ SeedFails(g)
                \/ \E n \in Networks : Create(n) \/ DeleteUnlinks(n)
                \/ DeleteCommits \/ DeleteRollsBack
    PROVE  A!Next \/ UNCHANGED archived
<1>1. CASE \E n \in Networks, state \in {"enabled", "disabled"} : Save(n, state)
  <2>1. PICK n \in Networks, state \in {"enabled", "disabled"} : Save(n, state)
      BY <1>1
  <2>2. A!Add(n)
      BY <2>1, SaveEffect DEF Save, A!Add, chainVars
  <2> QED
      BY <2>2 DEF A!Next
<1>2. CASE DeleteCommits
  <2>1. deleting \in Networks /\ deleting \in Configured
      BY <1>2 DEF DeleteCommits, Inv, TypeOK, DeletingInv
  <2>2. Configured' = Configured \ {deleting}
      BY <1>2, <2>1 DEF DeleteCommits, Inv, TypeOK, Configured
  <2>3. A!Remove(deleting)
      BY <1>2, <2>1, <2>2 DEF DeleteCommits, A!Remove, chainVars
  <2> QED
      BY <2>1, <2>3 DEF A!Next
<1>3. CASE \/ \E g \in Gateways : SeedReads(g) \/ SeedFails(g)
           \/ \E n \in Networks : DeleteUnlinks(n)
           \/ DeleteRollsBack
    BY <1>3 DEF SeedReads, SeedFails, DeleteUnlinks, DeleteRollsBack, archived, Configured,
                tableVars, chainVars
<1> QED
    BY <1>1, <1>2, <1>3 DEF SeedInserts, Create

LEMMA ChainRefines ==
    ASSUME NEW n \in Networks, Settle(n) \/ \E b \in Blocks : NewHead(n, b)
    PROVE  A!Next \/ UNCHANGED archived
<1>1. CASE Settle(n)
    BY <1>1 DEF Settle, archived, Configured, tableVars
<1>2. CASE \E b \in Blocks : NewHead(n, b)
  <2>1. PICK b \in Blocks : NewHead(n, b)
      BY <1>2
  <2>2. A!Show(n, b)
      BY <2>1 DEF NewHead, A!Show, Configured, tableVars
  <2> QED
      BY <2>1, <2>2 DEF A!Next
<1> QED
    BY <1>1, <1>2

LEMMA StoreRefines ==
    ASSUME Inv, NEW i \in Ingestors, NEW n \in Networks, Stores(i, n)
    PROVE  A!Next \/ UNCHANGED archived
<1> DEFINE b == inHand[i][n]
<1>1. b \in shown[n] /\ b \in Blocks /\ n \in Configured
    BY DEF Stores, Inv, TypeOK, HandInv
<1>2. UNCHANGED << Configured, shown >>
    BY DEF Stores, Configured, tableVars, chainVars
<1>3. CASE \E c \in rows[n] : c.number = b.number
  <2>1. rows' = rows
      BY <1>3 DEF Stores, Inv, TypeOK
  <2> QED
      BY <1>2, <2>1 DEF archived
<1>4. CASE \A c \in rows[n] : c.number # b.number
  <2>1. rows' = [rows EXCEPT ![n] = @ \union {b}]
      BY <1>4 DEF Stores
  <2>2. A!Keep(n, b)
      BY <1>1, <1>2, <1>4, <2>1 DEF A!Keep
  <2> QED
      BY <1>1, <2>2 DEF A!Next
<1> QED
    BY <1>3, <1>4

LEMMA OtherLoopsStutter ==
    ASSUME NEW i \in Ingestors,
           \/ Lists(i) \/ Signal(i) \/ Ends(i) \/ Restarts(i)
           \/ \E n \in Networks : Polls(i, n) \/ StoreFails(i, n) \/ LoopExits(i, n)
    PROVE  UNCHANGED archived
    BY DEF Lists, Signal, Ends, Restarts, Polls, StoreFails, LoopExits, archived, Configured,
           tableVars, chainVars

-----------------------------------------------------------------------------
(* The theorems                                                            *)

\* The inductive invariant holds (ingestor/main.go:29-88, gateway/main.go:159-176).
THEOREM Invariance == Spec => []Inv
<1>1. Init => Inv
    BY Initial
<1>2. Inv /\ [Next]_vars => Inv'
    BY Inductive
<1> QED
    BY <1>1, <1>2, PTL DEF Spec

\* Types are right (ingestor/main.go:97-148).
THEOREM TypeCorrect == Spec => []TypeOK
<1>1. Inv => TypeOK
    BY DEF Inv
<1> QED
    BY <1>1, Invariance, PTL

\* A gateway that has seeded without a warning leaves a default network, for any
\* number of gateways (gateway/main.go:159-176).
THEOREM Seeded == Spec => []SeededHasDefault
<1>1. Inv => SeededHasDefault
    BY DEF Inv
<1> QED
    BY <1>1, Invariance, PTL

\* The table of blocks is an Archive, for any number of ingestors and networks
\* and any chains (block_store.go:12-14, blockchain_config_store.go:71-93).
THEOREM Refinement == Spec => ArchiveSpec
<1>1. Init => A!Init
    BY FirstIsBlock DEF Init, A!Init, Configured
<1>2. Inv /\ [Next]_vars => [A!Next]_(A!archive)
  <2> SUFFICES ASSUME Inv, [Next]_vars PROVE A!Next \/ UNCHANGED archived
      BY DEF archived, A!archive
  <2>1. CASE \/ \E g \in Gateways : SeedReads(g) \/ SeedInserts(g) \/ SeedFails(g)
             \/ \E n \in Networks : Create(n) \/ DeleteUnlinks(n)
             \/ DeleteCommits \/ DeleteRollsBack
      BY <2>1, TableRefines
  <2>2. CASE \E n \in Networks : Settle(n) \/ \E b \in Blocks : NewHead(n, b)
      BY <2>2, ChainRefines
  <2>3. CASE \E i \in Ingestors, n \in Networks : Stores(i, n)
      BY <2>3, StoreRefines
  <2>4. CASE \E i \in Ingestors :
               \/ Lists(i) \/ Signal(i) \/ Ends(i) \/ Restarts(i)
               \/ \E n \in Networks : Polls(i, n) \/ StoreFails(i, n) \/ LoopExits(i, n)
      BY <2>4, OtherLoopsStutter
  <2>5. CASE UNCHANGED vars
      BY <2>5 DEF vars, tableVars, chainVars, archived, Configured
  <2> QED
      BY <2>1, <2>2, <2>3, <2>4, <2>5 DEF Next
<1> QED
    BY <1>1, <1>2, Invariance, PTL DEF Spec, ArchiveSpec, A!Spec

-----------------------------------------------------------------------------
(* What follows from the Archive *)

\* An Archive keeps to one chain of each network.
LEMMA ArchiveKeeps ==
    ASSUME TypeOK, A!OneChainOfEachNetwork, [A!Next]_(A!archive)
    PROVE  A!OneChainOfEachNetwork'
<1> USE DEF A!OneChainOfEachNetwork
<1>1. CASE UNCHANGED A!archive
    BY <1>1 DEF A!archive
<1>2. ASSUME NEW n \in Networks, A!Add(n) \/ A!Remove(n)
      PROVE  A!OneChainOfEachNetwork'
    BY <1>2 DEF A!Add, A!Remove
<1>3. ASSUME NEW n \in Networks, NEW b \in Blocks, A!Show(n, b)
      PROVE  A!OneChainOfEachNetwork'
    BY <1>3 DEF A!Show, TypeOK
<1>4. ASSUME NEW n \in Networks, NEW b \in Blocks, A!Keep(n, b)
      PROVE  A!OneChainOfEachNetwork'
    BY <1>4 DEF A!Keep, TypeOK
<1> QED
    BY <1>1, <1>2, <1>3, <1>4 DEF A!Next

\* However many ingestors store, whatever nodes lag or reorganise, and whenever
\* networks are deleted: a network has one version of each number, one it has
\* shown, and no block is without its network (block_store.go:12-14,
\* blockchain_config_store.go:71-93).
THEOREM OneChain == Spec => []A!OneChainOfEachNetwork
<1>1. A!Init => A!OneChainOfEachNetwork
    BY DEF A!Init, A!OneChainOfEachNetwork
<1>2. TypeOK /\ A!OneChainOfEachNetwork /\ [A!Next]_(A!archive) => A!OneChainOfEachNetwork'
    BY ArchiveKeeps
<1> QED
    BY <1>1, <1>2, TypeCorrect, Refinement, PTL DEF ArchiveSpec, A!Spec
=============================================================================

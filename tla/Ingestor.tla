------------------------------ MODULE Ingestor ------------------------------
(***************************************************************************)
(* ingestor/main.go and shared/storage/postgres/block_store.go: processes  *)
(* that read the table of networks once, poll the head of each enabled one *)
(* and insert it into the table of blocks, until they are stopped.  Two    *)
(* run at a time while an orchestrator replaces one.                       *)
(*                                                                         *)
(* The table of networks is filled by gateways that start on an empty one  *)
(* (seedDefaultConfig of gateway/main.go) and by the administrator, who    *)
(* also deletes networks, in a transaction that looks for their blocks.    *)
(* The routes that would change a network answer without a change.         *)
(*                                                                         *)
(* A block is its number and its version: a reorganisation shows another   *)
(* version of a number.  The client of a network is what RpcClient says,   *)
(* reduced to an answer or none.                                           *)
(***************************************************************************)
EXTENDS Naturals, FiniteSets

CONSTANTS
    Ingestors,      \* ingestor processes, each started again when it has ended
    Gateways,       \* gateways that start
    Networks,       \* identities of networks, used and to come
    Settling,       \* environment: networks whose nodes may agree for good
    NoNetwork, NoBlock,
    MaxNumber,      \* bound: numbers of blocks
    Versions,       \* bound: versions of a block with one number
    MaxNews         \* bound: heads after the first of each network

ASSUME IngestorAssumption ==
    /\ Settling \subseteq Networks /\ NoNetwork \notin Networks
    /\ MaxNumber \in Nat \ {0}
    /\ Versions # {}
    /\ MaxNews \in Nat
    /\ NoBlock \notin [number : 1 .. MaxNumber, version : Versions]

Blocks == [number : 1 .. MaxNumber, version : Versions]

\* Each chain begins with it.
First == CHOOSE b \in Blocks : b.number = 1

VARIABLES
    config,                 \* blockchain_configs: the state of each identity
    deleting,               \* the network whose deletion is under way
    seed,                   \* seedDefaultConfig of each gateway
    head, shown, settled,   \* each network's chain: its head, all that it had,
                            \* those whose nodes agree and answer for good
    rows,                   \* blocks: the versions stored for each network
    main,                   \* main of each ingestor
    polled, inHand,         \* the loops that run, what each has to store
    cutShort                \* history: ingestors with a list cut short

tableVars == << config, deleting >>
chainVars == << head, shown, settled >>
loopVars  == << main, polled, inHand, cutShort >>
vars == << tableVars, seed, chainVars, rows, loopVars >>

Configured == {n \in Networks : config[n] \in {"enabled", "disabled"}}
Enabled == {n \in Networks : config[n] = "enabled"}

Init ==
    /\ config = [n \in Networks |-> "unborn"]
    /\ deleting = NoNetwork
    /\ seed = [g \in Gateways |-> "starting"]
    /\ head = [n \in Networks |-> First]
    /\ shown = [n \in Networks |-> {head[n]}]
    /\ settled = {}
    /\ rows = [n \in Networks |-> {}]
    /\ main = [i \in Ingestors |-> "starting"]
    /\ polled = [i \in Ingestors |-> {}]
    /\ inHand = [i \in Ingestors |-> [n \in Networks |-> NoBlock]]
    /\ cutShort = {}

-----------------------------------------------------------------------------
(* The table of networks                                                   *)

\* SaveBlockchainConfig
Save(n, state) ==
    /\ config[n] = "unborn"
    /\ config' = [config EXCEPT ![n] = state]
    /\ UNCHANGED << deleting, chainVars, rows, loopVars >>

\* Mutant: the configuration is there whenever it is not nil, which it never is.
SeedReadsPointer(g) ==
    /\ seed[g] = "starting"
    /\ seed' = [seed EXCEPT ![g] = "done"]
    /\ UNCHANGED << tableVars, chainVars, rows, loopVars >>

\* GetDefaultBlockchainConfig; an error is taken for a table without networks.
SeedReads(g) ==
    /\ seed[g] = "starting"
    /\ \/ Enabled # {} /\ seed' = [seed EXCEPT ![g] = "done"]
       \/ seed' = [seed EXCEPT ![g] = "inserting"]
    /\ UNCHANGED << tableVars, chainVars, rows, loopVars >>

\* Nothing keeps a second gateway from it.
SeedInserts(g) ==
    /\ seed[g] = "inserting"
    /\ seed' = [seed EXCEPT ![g] = "done"]
    /\ \E n \in Networks : Save(n, "enabled")

\* No endpoint is given, or the INSERT fails: there is a warning.
SeedFails(g) ==
    /\ seed[g] = "inserting"
    /\ seed' = [seed EXCEPT ![g] = "failed"]
    /\ UNCHANGED << tableVars, chainVars, rows, loopVars >>

\* The administrator adds a network, enabled or not.
Create(n) ==
    /\ \E state \in {"enabled", "disabled"} : Save(n, state)
    /\ UNCHANGED seed

\* The UPDATE of blocks: it would set a column of the primary key to NULL, and
\* fails if there is a row.
DeleteUnlinks(n) ==
    /\ deleting = NoNetwork /\ n \in Configured
    /\ rows[n] = {}
    /\ deleting' = n
    /\ UNCHANGED << config, seed, chainVars, rows, loopVars >>

\* Mutant: the foreign key does not hold the DELETE back.
DeleteUnchecked ==
    /\ deleting # NoNetwork
    /\ deleting' = NoNetwork
    /\ config' = [config EXCEPT ![deleting] = "deleted"]
    /\ UNCHANGED << seed, chainVars, rows, loopVars >>

\* The DELETE and the commit: blocks that were stored meanwhile keep the network.
DeleteCommits ==
    /\ deleting # NoNetwork
    /\ rows[deleting] = {}
    /\ deleting' = NoNetwork
    /\ config' = [config EXCEPT ![deleting] = "deleted"]
    /\ UNCHANGED << seed, chainVars, rows, loopVars >>

\* An error, or the end of the process.
DeleteRollsBack ==
    /\ deleting # NoNetwork
    /\ deleting' = NoNetwork
    /\ UNCHANGED << config, seed, chainVars, rows, loopVars >>

-----------------------------------------------------------------------------
(* The chains                                                              *)

\* Heads after the first.
News == {x \in Networks \X Blocks : x[2] \in shown[x[1]] \ {First}}

\* The next block, or a reorganisation.
NewHead(n, b) ==
    /\ n \notin settled /\ Cardinality(News) < MaxNews
    /\ b \notin shown[n] /\ b.number \leq head[n].number + 1
    /\ head' = [head EXCEPT ![n] = b]
    /\ shown' = [shown EXCEPT ![n] = @ \union {b}]
    /\ UNCHANGED << tableVars, seed, settled, rows, loopVars >>

\* From now on the nodes of a network answer with this head.
Settle(n) ==
    /\ n \in Settling \ settled
    /\ settled' = settled \union {n}
    /\ UNCHANGED << tableVars, seed, head, shown, rows, loopVars >>

-----------------------------------------------------------------------------
(* The ingestor                                                            *)

\* ListBlockchainConfigs, which takes an error in the middle of the rows for
\* their end, and a loop for each enabled network.
Lists(i) ==
    /\ main[i] = "starting"
    /\ main' = [main EXCEPT ![i] = "running"]
    /\ \E listed \in SUBSET Enabled :
          /\ polled' = [polled EXCEPT ![i] = listed]
          /\ cutShort' = IF listed = Enabled THEN cutShort ELSE cutShort \union {i}
    /\ UNCHANGED << tableVars, seed, chainVars, rows, inHand >>

\* Mutant: a head whose number cannot be parsed is taken for number 0.
PollsUnparsed(i, n) ==
    /\ main[i] = "running" /\ n \in polled[i] /\ inHand[i][n] = NoBlock
    /\ \E b \in shown[n] \union [number : {0}, version : Versions] :
          inHand' = [inHand EXCEPT ![i][n] = b]
    /\ UNCHANGED << tableVars, seed, chainVars, rows, main, polled, cutShort >>

\* The head, or that of a node which lags; without an answer there is nothing
\* in hand, and the next tick polls again.
Polls(i, n) ==
    /\ main[i] = "running" /\ n \in polled[i] /\ inHand[i][n] = NoBlock
    /\ \E b \in IF n \in settled THEN {head[n]} ELSE shown[n] :
          inHand' = [inHand EXCEPT ![i][n] = b]
    /\ UNCHANGED << tableVars, seed, chainVars, rows, main, polled, cutShort >>

\* Mutant: ON CONFLICT DO UPDATE.
StoreReplaces(i, n) ==
    /\ main[i] \in {"running", "stopping"} /\ inHand[i][n] # NoBlock
    /\ n \in Configured
    /\ rows' = [rows EXCEPT ![n] =
                   {b \in @ : b.number # inHand[i][n].number} \union {inHand[i][n]}]
    /\ inHand' = [inHand EXCEPT ![i][n] = NoBlock]
    /\ UNCHANGED << tableVars, seed, chainVars, main, polled, cutShort >>

\* StoreBlock: ON CONFLICT DO NOTHING.  The foreign key asks for the network.
Stores(i, n) ==
    /\ main[i] \in {"running", "stopping"} /\ inHand[i][n] # NoBlock
    /\ n \in Configured
    /\ rows' = [rows EXCEPT ![n] =
                   IF \E b \in @ : b.number = inHand[i][n].number
                   THEN @ ELSE @ \union {inHand[i][n]}]
    /\ inHand' = [inHand EXCEPT ![i][n] = NoBlock]
    /\ UNCHANGED << tableVars, seed, chainVars, main, polled, cutShort >>

\* Mutant: an error ends the loop.
StoreFailsForGood(i, n) ==
    /\ main[i] \in {"running", "stopping"} /\ inHand[i][n] # NoBlock
    /\ inHand' = [inHand EXCEPT ![i][n] = NoBlock]
    /\ polled' = [polled EXCEPT ![i] = @ \ {n}]
    /\ UNCHANGED << tableVars, seed, chainVars, rows, main, cutShort >>

\* The network is gone, the database is, or the context is done.
StoreFails(i, n) ==
    /\ main[i] \in {"running", "stopping"} /\ inHand[i][n] # NoBlock
    /\ inHand' = [inHand EXCEPT ![i][n] = NoBlock]
    /\ UNCHANGED << tableVars, seed, chainVars, rows, main, polled, cutShort >>

\* The select finds the context done.
LoopExits(i, n) ==
    /\ main[i] = "stopping" /\ n \in polled[i] /\ inHand[i][n] = NoBlock
    /\ polled' = [polled EXCEPT ![i] = @ \ {n}]
    /\ UNCHANGED << tableVars, seed, chainVars, rows, main, inHand, cutShort >>

\* SIGTERM: the context of the loops is cancelled.
Signal(i) ==
    /\ main[i] = "running"
    /\ main' = [main EXCEPT ![i] = "stopping"]
    /\ UNCHANGED << tableVars, seed, chainVars, rows, polled, inHand, cutShort >>

\* Half a second after the signal whatever its loops do, with an error before
\* the list was read, or killed.
Ends(i) ==
    /\ main[i] # "ended"
    /\ main' = [main EXCEPT ![i] = "ended"]
    /\ polled' = [polled EXCEPT ![i] = {}]
    /\ inHand' = [inHand EXCEPT ![i] = [n \in Networks |-> NoBlock]]
    /\ UNCHANGED << tableVars, seed, chainVars, rows, cutShort >>

\* The orchestrator starts it again.
Restarts(i) ==
    /\ main[i] = "ended"
    /\ main' = [main EXCEPT ![i] = "starting"]
    /\ cutShort' = cutShort \ {i}
    /\ UNCHANGED << tableVars, seed, chainVars, rows, polled, inHand >>

-----------------------------------------------------------------------------
Next ==
    \/ \E g \in Gateways : SeedReads(g) \/ SeedInserts(g) \/ SeedFails(g)
    \/ \E n \in Networks :
          \/ Create(n) \/ DeleteUnlinks(n) \/ Settle(n)
          \/ \E b \in Blocks : NewHead(n, b)
    \/ DeleteCommits \/ DeleteRollsBack
    \/ \E i \in Ingestors :
          \/ Lists(i) \/ Signal(i) \/ Ends(i) \/ Restarts(i)
          \/ \E n \in Networks :
                Polls(i, n) \/ Stores(i, n) \/ StoreFails(i, n) \/ LoopExits(i, n)

\* The loops run, the nodes of a settled network answer, and the database takes
\* a block again and again.
Fairness ==
    \A i \in Ingestors :
        /\ WF_vars(Lists(i))
        /\ \A n \in Networks : WF_vars(n \in settled /\ Polls(i, n)) /\ SF_vars(Stores(i, n))

Spec == Init /\ [][Next]_vars /\ Fairness

-----------------------------------------------------------------------------
(* Properties                                                              *)

\* Type invariant.
TypeOK ==
    /\ config \in [Networks -> {"unborn", "enabled", "disabled", "deleted"}]
    /\ deleting \in Networks \union {NoNetwork}
    /\ seed \in [Gateways -> {"starting", "inserting", "done", "failed"}]
    /\ head \in [Networks -> Blocks]
    /\ shown \in [Networks -> SUBSET Blocks]
    /\ settled \subseteq Networks
    /\ rows \in [Networks -> SUBSET Blocks]
    /\ main \in [Ingestors -> {"starting", "running", "stopping", "ended"}]
    /\ polled \in [Ingestors -> SUBSET Networks]
    /\ inHand \in [Ingestors -> [Networks -> Blocks \union {NoBlock}]]
    /\ cutShort \subseteq Ingestors

\* Reorganisations, nodes that lag, several ingestors, their ends and deletions of
\* networks between two statements notwithstanding, the table of blocks is an
\* Archive: the first version of each number that was stored stays, it is one that
\* its own network has shown, and a network that has blocks is not deleted
\* (block_store.go:12-14, blockchain_config_store.go:83-93).
A == INSTANCE Archive WITH known <- Configured
ArchiveSpec == A!Spec

\* seedDefaultConfig: a gateway that is done with it without a warning leaves a
\* default network, unless the administrator has deleted some, whatever other
\* gateways seed at the time and whatever reads fail (gateway/main.go:160-175).
SeededHasDefault ==
    \A g \in Gateways :
        seed[g] = "done" => Enabled # {} \/ \E n \in Networks : config[n] = "deleted"

\* The number of the head is stored, maybe with another version of the block.
Archived(n) == \E b \in rows[n] : b.number = head[n].number

\* A network that is enabled when an ingestor starts, and whose nodes settle, has
\* its head stored in the end, although polls, stores and deletions fail again
\* and again; unless the process ends, or the list of networks it read once
\* was cut short (ingestor/main.go:29-43, 78-86).
CatchesUp ==
    \A i \in Ingestors, n \in Settling :
        main[i] = "starting" /\ n \in Enabled /\ n \in settled
            ~> \/ Archived(n) \/ n \notin Configured
               \/ i \in cutShort \/ main[i] \in {"stopping", "ended"}
=============================================================================

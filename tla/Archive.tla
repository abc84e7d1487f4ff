------------------------------ MODULE Archive ------------------------------
(***************************************************************************)
(* What the table of blocks promises, whoever writes it: the first block   *)
(* with a number that a node of a network has shown is kept as it is, each *)
(* number once for each network, and a network that has blocks stays.      *)
(***************************************************************************)
CONSTANTS
    Networks,
    Blocks      \* records with a number

VARIABLES
    known,      \* networks that are configured
    shown,      \* blocks that were the head of each network
    rows        \* the blocks of each network that are kept

archive == << known, shown, rows >>

Init ==
    /\ known \subseteq Networks
    /\ shown \in [Networks -> SUBSET Blocks]
    /\ rows = [n \in Networks |-> {}]

Show(n, b) ==
    /\ shown' = [shown EXCEPT ![n] = @ \union {b}]
    /\ UNCHANGED << known, rows >>

Add(n) ==
    /\ n \notin known
    /\ known' = known \union {n}
    /\ UNCHANGED << shown, rows >>

Remove(n) ==
    /\ n \in known /\ rows[n] = {}
    /\ known' = known \ {n}
    /\ UNCHANGED << shown, rows >>

Keep(n, b) ==
    /\ n \in known /\ b \in shown[n]
    /\ \A c \in rows[n] : c.number # b.number
    /\ rows' = [rows EXCEPT ![n] = @ \union {b}]
    /\ UNCHANGED << known, shown >>

Next ==
    \E n \in Networks :
        \/ Add(n) \/ Remove(n)
        \/ \E b \in Blocks : Show(n, b) \/ Keep(n, b)

Spec == Init /\ [][Next]_archive

-----------------------------------------------------------------------------
\* What follows for those who read the table: a network has one version of each
\* number, which it has shown, and is configured (block_store.go:12-14,
\* blockchain_config_store.go:83-93).
OneChainOfEachNetwork ==
    \A n \in Networks :
        /\ rows[n] \subseteq shown[n]
        /\ rows[n] # {} => n \in known
        /\ \A b, c \in rows[n] : b.number = c.number => b = c
=============================================================================

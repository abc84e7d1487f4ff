----------------------------- MODULE Directory -----------------------------
(***************************************************************************)
(* What the network manager promises those who ask it for a client: what   *)
(* it shows is the table of networks as some reload read it, all of it and *)
(* from one reading, and never one that was read before what it showed     *)
(* last.  A reading may lack rows, and nothing is shown for a network that *)
(* is not in use, or when the manager is closed.                           *)
(***************************************************************************)
CONSTANTS
    Networks,
    Contents,   \* what can be shown of a network in use
    None

VARIABLES
    table,      \* the networks as they are
    listed,     \* as they were read last
    shown       \* as whoever asks finds them

directory == << table, listed, shown >>

Init ==
    /\ table \in [Networks -> Contents \union {None}]
    /\ listed = table /\ shown = table

Change(n) ==
    /\ \E c \in Contents \union {None} : table' = [table EXCEPT ![n] = c]
    /\ UNCHANGED << listed, shown >>

List(lost) ==
    /\ listed' = [n \in Networks |-> IF n \in lost THEN None ELSE table[n]]
    /\ UNCHANGED << table, shown >>

Replace ==
    /\ shown' = listed
    /\ UNCHANGED << table, listed >>

Close ==
    /\ shown' = [n \in Networks |-> None]
    /\ UNCHANGED << table, listed >>

Next ==
    \/ \E n \in Networks : Change(n)
    \/ \E lost \in SUBSET Networks : List(lost)
    \/ Replace \/ Close

Spec == Init /\ [][Next]_directory
=============================================================================

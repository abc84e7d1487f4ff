------------------------------- MODULE Ledger -------------------------------
(***************************************************************************)
(* What the telemetry recorder promises about each record handed to it, as *)
(* a bookkeeping of its own: a record is refused or accepted when it is    *)
(* handed over, an accepted one is stored or dropped (and then counted),   *)
(* exactly one of the two and once, and only a recorder that is closed may *)
(* lose an accepted record without counting it.                            *)
(***************************************************************************)
CONSTANT Jobs

VARIABLES
    status,     \* what has become of each record
    closed      \* the recorder was told to stop, or its process has ended

ledger == << status, closed >>

Status == {"new", "pending", "stored", "dropped", "lost"}

Init ==
    /\ status = [j \in Jobs |-> "new"]
    /\ closed = FALSE

Move(j, from, to) ==
    /\ status[j] = from
    /\ status' = [status EXCEPT ![j] = to]
    /\ UNCHANGED closed

Accept(j) == Move(j, "new", "pending")
Refuse(j) == Move(j, "new", "dropped")
Store(j)  == Move(j, "pending", "stored")
Drop(j)   == Move(j, "pending", "dropped")
Lose(j)   == closed /\ Move(j, "pending", "lost")

Close ==
    /\ ~closed
    /\ closed' = TRUE
    /\ UNCHANGED status

Next ==
    \/ \E j \in Jobs : Accept(j) \/ Refuse(j) \/ Store(j) \/ Drop(j) \/ Lose(j)
    \/ Close

\* While the recorder is open an accepted record does not wait for ever.
Settle(j) == ~closed /\ (Store(j) \/ Drop(j))

Spec == Init /\ [][Next]_ledger /\ \A j \in Jobs : WF_ledger(Settle(j))
=============================================================================

---------------------------- MODULE HealthChecks ----------------------------
(***************************************************************************)
(* What an RPC client promises the network manager about its health        *)
(* checks: they come in rounds, healthMu is kept in a round only, and when *)
(* they are asked to end they do so between two rounds.  RpcClient keeps   *)
(* the promise; NetworkManager relies on no more than it.                  *)
(***************************************************************************)
VARIABLES
    checks,     \* none, in a round, or between two
    asked,      \* their context is done
    busy        \* healthMu is held

client == << checks, asked, busy >>

Init ==
    /\ checks \in {"none", "round"}
    /\ asked = FALSE
    /\ busy \in BOOLEAN /\ (busy => checks = "round")

\* A client that is used for the first time, or made anew; its context may be
\* done already.
Start ==
    /\ checks = "none" /\ checks' = "round"
    /\ asked' \in BOOLEAN /\ busy' \in BOOLEAN

RoundBegins ==
    /\ checks = "between" /\ checks' = "round"
    /\ busy' \in BOOLEAN
    /\ UNCHANGED asked

Holds ==
    /\ checks = "round" /\ busy' = TRUE
    /\ UNCHANGED << checks, asked >>

Releases ==
    /\ busy /\ busy' = FALSE
    /\ UNCHANGED << checks, asked >>

RoundEnds ==
    /\ checks = "round" /\ checks' = "between"
    /\ busy' = FALSE
    /\ UNCHANGED asked

Stop ==
    /\ asked' = TRUE
    /\ UNCHANGED << checks, busy >>

End ==
    /\ checks = "between" /\ asked
    /\ checks' = "none"
    /\ UNCHANGED << asked, busy >>

Next == Start \/ RoundBegins \/ Holds \/ Releases \/ RoundEnds \/ Stop \/ End

\* Nobody keeps the mutex, rounds are over in the end, and so are the checks.
Fairness == WF_client(Releases) /\ WF_client(RoundEnds) /\ SF_client(End)

Spec == Init /\ [][Next]_client /\ Fairness
=============================================================================

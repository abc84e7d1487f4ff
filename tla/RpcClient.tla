----------------------------- MODULE RpcClient ------------------------------
(***************************************************************************)
(* shared/blockchain/client.go: one client per network.  Requests try the  *)
(* network's endpoints one after the other, in an order taken from the     *)
(* health table once, when the request begins; a background goroutine      *)
(* probes all endpoints concurrently in rounds.  Both write the health     *)
(* table under a mutex, which a probe keeps while it reads the body of its *)
(* response.                                                               *)
(*                                                                         *)
(* A request runs in a slot: one handler goroutine of the gateway in Call  *)
(* or ProxyRaw.  An endpoint's answer is reduced to what the code looks    *)
(* at: a transport error (also a timeout or a cancelled context), the HTTP *)
(* status class and whether the body is a JSON-RPC response.  An exchange  *)
(* runs without the mutex; it is one step with the write of the health     *)
(* table that follows it, since what an endpoint answers is settled by     *)
(* nothing the table holds.                                                *)
(*                                                                         *)
(* A client is made with a list of addresses, and nothing checks that they *)
(* differ.  The health table has an entry per address; requests and rounds *)
(* go through the places of the list, so an address that is there twice is *)
(* asked, probed and counted twice.                                        *)
(***************************************************************************)
EXTENDS Naturals, Sequences

CONSTANTS
    Endpoints,      \* addresses
    N,              \* how many addresses a client is made with
    Configurations, \* the lists it may be made with
    Slots,          \* handler goroutines that may be in the client at once
    Latencies,      \* measured round-trip times
    MaxFails,       \* bound: ConsecutiveFails is counted up to here
    Settling        \* bound: the endpoints that may settle, see steady

Places == 1 .. N

ASSUME RpcClientAssumption ==
    /\ N \in Nat /\ Configurations \subseteq [Places -> Endpoints]
    /\ Latencies \subseteq Nat /\ 0 \in Latencies
    /\ MaxFails \in Nat /\ MaxFails \geq 3
    /\ Settling \subseteq Endpoints

FailThreshold == 3

\* No place of the list: nobody has the mutex.
Free == 0

Answer == {"transport", "error_status_json", "error_status_text",
           "garbled", "rpc_error", "result"}
OkStatus == {"garbled", "rpc_error", "result"}

VARIABLES
    url,                        \* the list of addresses, c.endpoints
    healthy, fails, latency,    \* the health table, per address
    lock,                       \* healthMu: Free, or the place whose probe holds it
    checker,                    \* the health-check goroutine
    cancelled,                  \* its context is done
    stopper,                    \* the caller of StopHealthChecks
    probe, heard,               \* each place's probe, the answer it reads
    pc, kind, plan, answer,     \* each slot's request
    gone,                       \* slots whose client has disconnected
    sure,                       \* history: who had settled when the request began
    steady                      \* environment: endpoints that have settled
                                \* to answer every exchange with a result

table     == << healthy, fails, latency >>
checkVars == << checker, cancelled, stopper >>
probeVars == << probe, heard >>
slotVars  == << pc, kind, plan, answer, gone, sure >>
vars == << url, table, lock, checkVars, probeVars, slotVars, steady >>

Init ==
    /\ url \in Configurations
    /\ healthy = [e \in Endpoints |-> TRUE]
    /\ fails = [e \in Endpoints |-> 0]
    /\ latency = [e \in Endpoints |-> 0]
    /\ lock = Free
    /\ checker = "off"
    /\ cancelled = FALSE
    /\ stopper = "idle"
    /\ probe = [i \in Places |-> "none"]
    /\ heard = [i \in Places |-> "none"]
    /\ pc = [s \in Slots |-> "idle"]
    /\ kind = [s \in Slots |-> "call"]
    /\ plan = [s \in Slots |-> << >>]
    /\ answer = [s \in Slots |-> "none"]
    /\ gone = {}
    /\ sure = [s \in Slots |-> {}]
    /\ steady \in SUBSET Settling

-----------------------------------------------------------------------------
(* The health table                                                        *)

RecordFailure(e) ==
    LET n == IF fails[e] < MaxFails THEN fails[e] + 1 ELSE MaxFails
    IN  /\ fails' = [fails EXCEPT ![e] = n]
        /\ healthy' = [healthy EXCEPT ![e] = @ /\ n < FailThreshold]

\* Mutant: a success takes one failure back.
RecordSuccessTakesBack(e) ==
    /\ fails' = [fails EXCEPT ![e] = @ - 1]
    /\ healthy' = [healthy EXCEPT ![e] = TRUE]

\* Mutant: a success leaves the endpoint down.
RecordSuccessOnlyCounts(e) ==
    /\ fails' = [fails EXCEPT ![e] = 0]
    /\ UNCHANGED healthy

RecordSuccess(e) ==
    /\ fails' = [fails EXCEPT ![e] = 0]
    /\ healthy' = [healthy EXCEPT ![e] = TRUE]

markSuccess(e) ==
    /\ RecordSuccess(e)
    /\ \E t \in Latencies : latency' = [latency EXCEPT ![e] = t]

markFailure(e) ==
    /\ RecordFailure(e)
    /\ UNCHANGED latency

\* The places, each once, in any order.
Listings == {p \in [Places -> Places] : \A i \in Places : \E k \in Places : p[k] = i}

\* Healthy endpoints come first and by latency, the others as configured.
Precedes(i, k) ==
    \/ healthy[url[i]] /\ ~healthy[url[k]]
    \/ healthy[url[i]] /\ healthy[url[k]] /\ latency[url[i]] < latency[url[k]]
    \/ ~healthy[url[i]] /\ ~healthy[url[k]] /\ i < k

\* Mutant: unhealthy endpoints are left out.
endpointsForCallHealthy ==
    LET IsHealthy(i) == healthy[url[i]]
    IN  {SelectSeq([i \in Places |-> i], IsHealthy)}

\* Its results: sort.Slice leaves the order of equal latencies open.
endpointsForCall ==
    {p \in Listings : \A i, k \in Places : i < k => ~Precedes(p[k], p[i])}

-----------------------------------------------------------------------------
(* Call and ProxyRaw                                                       *)

Accepts(k) ==
    IF k = "call" THEN {"result", "rpc_error", "error_status_json"} ELSE OkStatus

Begin(s, k) ==
    /\ pc[s] = "idle"
    /\ lock = Free
    /\ pc' = [pc EXCEPT ![s] = "trying"]
    /\ kind' = [kind EXCEPT ![s] = k]
    /\ \E p \in endpointsForCall : plan' = [plan EXCEPT ![s] = p]
    /\ sure' = [sure EXCEPT ![s] = steady]
    /\ UNCHANGED << url, table, lock, checkVars, probeVars, answer, gone, steady >>

\* The client of the request disconnects: its context is done.
Disconnect(s) ==
    /\ pc[s] = "trying"
    /\ s \notin gone
    /\ gone' = gone \cup {s}
    /\ UNCHANGED << url, table, lock, checkVars, probeVars, pc, kind, plan, answer,
                    sure, steady >>

\* What an exchange with e can yield.  Once its context is done it fails, unless
\* the answer was there before.
Outcomes(e, done) ==
    (IF e \in steady THEN {"result"} ELSE Answer)
        \cup (IF done THEN {"transport", "garbled"} ELSE {})

\* One turn of the loop over the endpoints: the endpoint is asked, and its
\* answer returned or counted as a failure.
Returns(s, a) ==
    /\ pc' = [pc EXCEPT ![s] = "answered"]
    /\ answer' = [answer EXCEPT ![s] = a]
    /\ kind' = [kind EXCEPT ![s] = "call"]
    /\ plan' = [plan EXCEPT ![s] = << >>]

Continues(s) ==
    /\ plan' = [plan EXCEPT ![s] = Tail(@)]
    /\ UNCHANGED << pc, answer, kind >>

Try(s) ==
    /\ pc[s] = "trying"
    /\ plan[s] # << >>
    /\ lock = Free
    /\ LET e == url[Head(plan[s])]
       IN  \E a \in Outcomes(e, s \in gone) :
               \/ a \in Accepts(kind[s]) /\ markSuccess(e) /\ Returns(s, a)
               \/ a \notin Accepts(kind[s]) /\ markFailure(e) /\ Continues(s)
    /\ UNCHANGED << url, lock, checkVars, probeVars, gone, sure, steady >>

\* "all endpoints failed"
Exhaust(s) ==
    /\ pc[s] = "trying"
    /\ plan[s] = << >>
    /\ pc' = [pc EXCEPT ![s] = "failed"]
    /\ kind' = [kind EXCEPT ![s] = "call"]
    /\ UNCHANGED << url, table, lock, checkVars, probeVars, plan, answer, gone, sure,
                    steady >>

\* The handler has its result; the slot is free for another request.
Leave(s) ==
    /\ pc[s] \in {"answered", "failed"}
    /\ pc' = [pc EXCEPT ![s] = "idle"]
    /\ answer' = [answer EXCEPT ![s] = "none"]
    /\ gone' = gone \ {s}
    /\ sure' = [sure EXCEPT ![s] = {}]
    /\ UNCHANGED << url, table, lock, checkVars, probeVars, kind, plan, steady >>

-----------------------------------------------------------------------------
(* StartHealthChecks, StopHealthChecks and the rounds of probes            *)

StartHealthChecks ==
    /\ checker = "off"
    /\ checker' = "probing"
    /\ probe' = [i \in Places |-> "sent"]
    /\ UNCHANGED << url, table, lock, cancelled, stopper, heard, slotVars, steady >>

\* The ticker fires.  Its case may also win a select in which the context is
\* done: that round only collects transport errors.
Tick ==
    /\ checker = "idle"
    /\ checker' = "probing"
    /\ probe' = [i \in Places |-> "sent"]
    /\ UNCHANGED << url, table, lock, cancelled, stopper, heard, slotVars, steady >>

\* The probe has its response, takes healthMu and records the latency, of a
\* failure too.
ProbeLocks(i) ==
    /\ probe[i] = "sent"
    /\ lock = Free
    /\ \E t \in Latencies : latency' = [latency EXCEPT ![url[i]] = t]
    /\ \/ /\ "transport" \in Outcomes(url[i], cancelled)
          /\ RecordFailure(url[i])
          /\ probe' = [probe EXCEPT ![i] = "none"]
          /\ UNCHANGED << lock, heard >>
       \/ /\ \E a \in Outcomes(url[i], cancelled) \ {"transport"} :
                heard' = [heard EXCEPT ![i] = IF a = "result" THEN a ELSE "rejected"]
          /\ lock' = i
          /\ probe' = [probe EXCEPT ![i] = "reading"]
          /\ UNCHANGED << healthy, fails >>
    /\ UNCHANGED << url, checkVars, slotVars, steady >>

\* Mutant: the branch of a rejected body returns without the unlock.
ProbeRecordsLocked(i) ==
    /\ probe[i] = "reading"
    /\ IF heard[i] = "result" THEN RecordSuccess(url[i]) ELSE RecordFailure(url[i])
    /\ lock' = IF heard[i] = "result" THEN Free ELSE lock
    /\ probe' = [probe EXCEPT ![i] = "none"]
    /\ heard' = [heard EXCEPT ![i] = "none"]
    /\ UNCHANGED << url, latency, checkVars, slotVars, steady >>

\* The body has been read, or discarded; healthMu is released.
ProbeRecords(i) ==
    /\ probe[i] = "reading"
    /\ IF heard[i] = "result" THEN RecordSuccess(url[i]) ELSE RecordFailure(url[i])
    /\ lock' = Free
    /\ probe' = [probe EXCEPT ![i] = "none"]
    /\ heard' = [heard EXCEPT ![i] = "none"]
    /\ UNCHANGED << url, latency, checkVars, slotVars, steady >>

\* Mutant: runHealthCheck does not wait for its probes.
RoundEndsUnwaited ==
    /\ checker = "probing"
    /\ checker' = "idle"
    /\ UNCHANGED << url, table, lock, cancelled, stopper, probeVars, slotVars, steady >>

\* wg.Wait at the end of runHealthCheck
RoundEnds ==
    /\ checker = "probing"
    /\ \A i \in Places : probe[i] = "none"
    /\ checker' = "idle"
    /\ UNCHANGED << url, table, lock, cancelled, stopper, probeVars, slotVars, steady >>

CheckerEnds ==
    /\ checker = "idle"
    /\ cancelled
    /\ checker' = "ended"
    /\ UNCHANGED << url, table, lock, cancelled, stopper, probeVars, slotVars, steady >>

\* StopHealthChecks; before StartHealthChecks it does nothing.
StopCancels ==
    /\ stopper = "idle"
    /\ checker # "off"
    /\ stopper' = "waiting"
    /\ cancelled' = TRUE
    /\ UNCHANGED << url, table, lock, checker, probeVars, slotVars, steady >>

\* Mutant: no checkWg.Wait.
StopReturnsAtOnce ==
    /\ stopper = "waiting"
    /\ stopper' = "returned"
    /\ UNCHANGED << url, table, lock, checker, cancelled, probeVars, slotVars, steady >>

\* checkWg.Wait
StopReturns ==
    /\ stopper = "waiting"
    /\ checker = "ended"
    /\ stopper' = "returned"
    /\ UNCHANGED << url, table, lock, checker, cancelled, probeVars, slotVars, steady >>

-----------------------------------------------------------------------------
\* An endpoint settles.
Settle(e) ==
    /\ e \in Settling
    /\ steady' = steady \cup {e}
    /\ UNCHANGED << url, table, lock, checkVars, probeVars, slotVars >>

Request(s) == Try(s) \/ Exhaust(s) \/ Leave(s)
Probe(i) == ProbeLocks(i) \/ ProbeRecords(i)

Next ==
    \/ \E s \in Slots : (\E k \in {"call", "raw"} : Begin(s, k))
                            \/ Disconnect(s) \/ Request(s)
    \/ \E i \in Places : Probe(i)
    \/ \E e \in Endpoints : Settle(e)
    \/ StartHealthChecks \/ Tick \/ RoundEnds \/ CheckerEnds
    \/ StopCancels \/ StopReturns

\* Every exchange ends (the HTTP client has a timeout of 10 seconds), Go's
\* mutex lets every waiter in, the ticker ticks, and StartHealthChecks is
\* called once the client is made.
Fairness ==
    /\ \A s \in Slots : SF_vars(Request(s))
    /\ \A i \in Places : SF_vars(Probe(i))
    /\ WF_vars(StartHealthChecks)
    /\ WF_vars(Tick \/ CheckerEnds) /\ SF_vars(CheckerEnds)
    /\ WF_vars(RoundEnds) /\ WF_vars(StopReturns)

Spec == Init /\ [][Next]_vars /\ Fairness

-----------------------------------------------------------------------------
(* Properties                                                              *)

\* Type invariant.
TypeOK ==
    /\ url \in Configurations
    /\ healthy \in [Endpoints -> BOOLEAN]
    /\ fails \in [Endpoints -> 0 .. MaxFails]
    /\ latency \in [Endpoints -> Latencies]
    /\ lock \in {Free} \cup Places
    /\ checker \in {"off", "probing", "idle", "ended"}
    /\ cancelled \in BOOLEAN
    /\ stopper \in {"idle", "waiting", "returned"}
    /\ probe \in [Places -> {"none", "sent", "reading"}]
    /\ heard \in [Places -> {"none", "result", "rejected"}]
    /\ pc \in [Slots -> {"idle", "trying", "answered", "failed"}]
    /\ kind \in [Slots -> {"call", "raw"}]
    /\ plan \in [Slots -> Seq(Places)]
    /\ answer \in [Slots -> Answer \cup {"none"}]
    /\ gone \subseteq Slots
    /\ sure \in [Slots -> SUBSET steady]
    /\ steady \subseteq Settling

\* markSuccess, markFailure and the three failure branches of a probe, whatever
\* their interleaving: an endpoint is unhealthy exactly while its last three
\* recorded exchanges have failed.
UnhealthyIffThreeFails == \A e \in Endpoints : healthy[e] <=> fails[e] < FailThreshold

\* Call and ProxyRaw: a request whose client stays fails only when none of its
\* endpoints had settled before it began.  One that answers is enough, however stale
\* the order, whoever marks it failed meanwhile (other clients that disconnect,
\* probes), and also when an address is configured twice (client.go:219-295, 376-417).
OneEndpointIsEnough ==
    \A s \in Slots : pc[s] = "failed" =>
        s \in gone \/ \A i \in Places : url[i] \notin sure[s]

\* runHealthCheck: healthMu is held by a probe that is reading its response, and
\* by no other; a round that is over has no probe left.
LockIsHeldByItsProbe ==
    /\ \A i \in Places : probe[i] = "reading" <=> lock = i
    /\ checker # "probing" => \A i \in Places : probe[i] = "none"

\* endpointsForCall: a request begins with a healthy endpoint if there is one,
\* and the healthy ones come first, in order of latency.
BeginsWithFastestHealthy ==
    [][\A s \in Slots : pc[s] = "idle" /\ pc'[s] = "trying" =>
        \A i, k \in DOMAIN plan'[s] : i < k /\ healthy[url[plan'[s][k]]] =>
            /\ healthy[url[plan'[s][i]]]
            /\ latency[url[plan'[s][i]]] \leq latency[url[plan'[s][k]]]]_vars

\* StopHealthChecks: after it has returned no probe is sent, and the health
\* table changes only by requests that are still in the client.
QuietAfterStop ==
    [][stopper = "returned" =>
        /\ UNCHANGED << probe, lock >>
        /\ UNCHANGED table \/ \E s \in Slots : pc[s] = "trying"]_vars

\* Every request returns, however slow the endpoints and whatever probes hold the
\* mutex.
RequestsReturn == \A s \in Slots : pc[s] = "trying" ~> pc[s] \in {"answered", "failed"}

\* What the manager sees of the health checks.
Checks ==
    CASE checker = "probing" -> "round"
      [] checker = "idle" -> "between"
      [] OTHER -> "none"

\* StartHealthChecks, StopHealthChecks and the rounds keep the promise the manager
\* relies on: concurrent probes hold healthMu in a round only and let it go, rounds
\* end, and after a Stop so do the checks, so that its wait does (client.go:64-92, 106-203).
HC == INSTANCE HealthChecks WITH
          checks <- Checks, asked <- cancelled, busy <- (lock # Free)
ChecksSpec == HC!Spec

ProbeGoesOn(i) == probe[i] = "reading" \/ (probe[i] = "sent" /\ lock = Free)

CheckGoesOn ==
    \/ checker = "idle" /\ cancelled
    \/ checker = "probing" /\ \A i \in Places : probe[i] = "none"
    \/ \E i \in Places : ProbeGoesOn(i)

\* Whoever waits, waits for someone who can go on: a request that wants healthMu
\* for the probe that has it, a probe likewise, and StopHealthChecks, whose caller
\* may hold the mutex of the manager, for a step of the checks (client.go:64-92,
\* 106-203, 376-440).
NoCircularWait ==
    /\ \A i \in Places : lock = i => ProbeGoesOn(i)
    /\ checker = "probing" => CheckGoesOn
    /\ stopper = "waiting" => checker = "ended" \/ CheckGoesOn

\* "Recovery: 1 successful probe marks endpoint healthy": while the checks run,
\* an endpoint that has come back for good is healthy again and again, even when
\* clients that disconnect keep marking it failed.
SteadyRecovers ==
    \A i \in Places :
        <>[](url[i] \in steady /\ ~cancelled) => []<>healthy[url[i]]

=============================================================================

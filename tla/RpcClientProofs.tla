-------------------------- MODULE RpcClientProofs ---------------------------
(***************************************************************************)
(* Proofs about RpcClient for every set of endpoints, slots and latencies: *)
(* the health table, the mutex, the order of failover and the stopping of  *)
(* the health checks.                                                      *)
(***************************************************************************)
EXTENDS RpcClient, SequenceTheorems, TLAPS

-----------------------------------------------------------------------------
(* The inductive invariant                                                 *)

\* While its client stays, a request has still to try every endpoint that had settled
\* before it began; it gives up when it has none to try.
PlanOK(s) ==
    /\ s \in gone \/ \A i \in Places : url[i] \in sure[s] => \E k \in DOMAIN plan[s] : plan[s][k] = i
    /\ pc[s] = "failed" => plan[s] = << >>

PlansOK == \A s \in Slots : pc[s] \in {"trying", "failed"} => PlanOK(s)

\* StopHealthChecks returns only when the health-check goroutine has ended.
StopOK == stopper = "returned" => checker = "ended"

Inv ==
    /\ TypeOK
    /\ UnhealthyIffThreeFails
    /\ LockIsHeldByItsProbe
    /\ PlansOK
    /\ StopOK

TableOK ==
    /\ healthy \in [Endpoints -> BOOLEAN]
    /\ fails \in [Endpoints -> 0 .. MaxFails]
    /\ UnhealthyIffThreeFails

-----------------------------------------------------------------------------
(* The helpers                                                             *)

\* Counting a failure keeps the table right, whatever it was.
LEMMA FailureKeepsTable ==
    ASSUME TableOK, NEW e \in Endpoints, RecordFailure(e)
    PROVE  TableOK'
<1> DEFINE n == IF fails[e] < MaxFails THEN fails[e] + 1 ELSE MaxFails
<1>1. /\ fails' = [fails EXCEPT ![e] = n]
      /\ healthy' = [healthy EXCEPT ![e] = @ /\ n < FailThreshold]
    BY DEF RecordFailure
<1>2. fails[e] \in 0 .. MaxFails /\ MaxFails \in Nat /\ MaxFails \geq 3
    BY RpcClientAssumption DEF TableOK
<1>3. n \in 0 .. MaxFails
    BY <1>2
<1>4. (healthy[e] /\ n < FailThreshold) <=> n < FailThreshold
  <2>1. healthy[e] <=> fails[e] < FailThreshold
      BY DEF TableOK, UnhealthyIffThreeFails
  <2>2. n < FailThreshold => fails[e] < FailThreshold
      BY <1>2 DEF FailThreshold
  <2> QED
      BY <2>1, <2>2
<1> HIDE DEF n
<1>5. fails' \in [Endpoints -> 0 .. MaxFails] /\ fails'[e] = n
    BY <1>1, <1>3 DEF TableOK
<1>6. healthy' \in [Endpoints -> BOOLEAN]
    BY <1>1 DEF TableOK
<1>7. healthy'[e] <=> n < FailThreshold
  <2>1. healthy'[e] = (healthy[e] /\ n < FailThreshold)
      BY <1>1 DEF TableOK
  <2> QED
      BY <2>1, <1>4
<1>8. \A f \in Endpoints : f # e => healthy'[f] = healthy[f] /\ fails'[f] = fails[f]
    BY <1>1 DEF TableOK
<1>9. UnhealthyIffThreeFails'
  <2> SUFFICES ASSUME NEW f \in Endpoints
               PROVE  healthy'[f] <=> fails'[f] < FailThreshold
      BY DEF UnhealthyIffThreeFails
  <2>1. CASE f = e
      BY <2>1, <1>5, <1>7
  <2>2. CASE f # e
    <3>1. healthy[f] <=> fails[f] < FailThreshold
        BY DEF TableOK, UnhealthyIffThreeFails
    <3> QED
        BY <2>2, <3>1, <1>8
  <2> QED
      BY <2>1, <2>2
<1> QED
    BY <1>5, <1>6, <1>9 DEF TableOK

\* So does a success.
LEMMA SuccessKeepsTable ==
    ASSUME TableOK, NEW e \in Endpoints, RecordSuccess(e)
    PROVE  TableOK'
<1>1. fails' = [fails EXCEPT ![e] = 0] /\ healthy' = [healthy EXCEPT ![e] = TRUE]
    BY DEF RecordSuccess
<1>2. fails' \in [Endpoints -> 0 .. MaxFails] /\ healthy' \in [Endpoints -> BOOLEAN]
    BY <1>1, RpcClientAssumption DEF TableOK
<1>3. UnhealthyIffThreeFails'
  <2> SUFFICES ASSUME NEW f \in Endpoints
               PROVE  healthy'[f] <=> fails'[f] < FailThreshold
      BY DEF UnhealthyIffThreeFails
  <2>1. CASE f = e
    <3>1. fails'[f] = 0 /\ healthy'[f] = TRUE
        BY <2>1, <1>1 DEF TableOK
    <3>2. 0 < FailThreshold
        BY DEF FailThreshold
    <3> QED
        BY <3>1, <3>2
  <2>2. CASE f # e
    <3>1. fails'[f] = fails[f] /\ healthy'[f] = healthy[f]
        BY <2>2, <1>1 DEF TableOK
    <3>2. healthy[f] <=> fails[f] < FailThreshold
        BY DEF TableOK, UnhealthyIffThreeFails
    <3> QED
        BY <3>1, <3>2
  <2> QED
      BY <2>1, <2>2
<1> QED
    BY <1>2, <1>3 DEF TableOK

\* endpointsForCall lists every place.
LEMMA OrderIsComplete ==
    ASSUME NEW p \in endpointsForCall
    PROVE  /\ p \in Seq(Places) /\ DOMAIN p = Places
           /\ \A i \in Places : \E k \in DOMAIN p : p[k] = i
<1>1. p \in [1 .. N -> Places] /\ N \in Nat
    BY RpcClientAssumption DEF endpointsForCall, Listings, Places
<1>2. \A i \in Places : \E k \in Places : p[k] = i
    BY DEF endpointsForCall, Listings
<1> QED
    BY <1>1, <1>2 DEF Places
-----------------------------------------------------------------------------
(* Steps of a request                                                      *)

LEMMA InitInv ==
    ASSUME Init
    PROVE  Inv
<1> USE RpcClientAssumption DEF Init
<1>1. TypeOK
  <2>1. << >> \in Seq(Places)
      OBVIOUS
  <2>2. plan \in [Slots -> Seq(Places)]
      BY <2>1
  <2>3. 0 \in 0 .. MaxFails /\ 0 \in Latencies
      OBVIOUS
  <2>4. /\ healthy \in [Endpoints -> BOOLEAN] /\ fails \in [Endpoints -> 0 .. MaxFails]
        /\ latency \in [Endpoints -> Latencies] /\ steady \subseteq Settling
        /\ sure \in [Slots -> SUBSET steady] /\ url \in Configurations
      BY <2>3
  <2> QED
      BY <2>2, <2>4 DEF TypeOK
<1>2. UnhealthyIffThreeFails
  <2>1. \A e \in Endpoints : healthy[e] = TRUE /\ fails[e] = 0
      OBVIOUS
  <2>2. 0 < FailThreshold
      BY DEF FailThreshold
  <2> QED
      BY <2>1, <2>2 DEF UnhealthyIffThreeFails
<1>3. LockIsHeldByItsProbe
    BY DEF LockIsHeldByItsProbe, Places, Free
<1>4. PlansOK /\ StopOK
    BY DEF PlansOK, StopOK
<1> QED
    BY <1>1, <1>2, <1>3, <1>4 DEF Inv

\* Only the slots that a step changes can lose their plan.
LEMMA PlanFrame ==
    ASSUME Inv, NEW s \in Slots, UNCHANGED url,
           pc'[s] \in {"trying", "failed"} => PlanOK(s)',
           \A q \in Slots : q # s =>
               pc'[q] = pc[q] /\ plan'[q] = plan[q] /\ sure'[q] = sure[q] /\ (q \in gone' <=> q \in gone)
    PROVE  PlansOK'
<1> SUFFICES ASSUME NEW q \in Slots, pc'[q] \in {"trying", "failed"}
             PROVE  PlanOK(q)'
    BY DEF PlansOK
<1>1. CASE q = s
    BY <1>1
<1>2. CASE q # s
    BY <1>2 DEF Inv, PlansOK, PlanOK
<1> QED
    BY <1>1, <1>2

LEMMA BeginInv ==
    ASSUME Inv, NEW s \in Slots, NEW k \in {"call", "raw"}, Begin(s, k)
    PROVE  Inv'
<1>1. PICK p \in endpointsForCall : plan' = [plan EXCEPT ![s] = p]
    BY DEF Begin
<1>2. /\ pc' = [pc EXCEPT ![s] = "trying"] /\ kind' = [kind EXCEPT ![s] = k]
      /\ sure' = [sure EXCEPT ![s] = steady]
      /\ UNCHANGED << url, healthy, fails, latency, lock, checker, cancelled, stopper,
                      probe, heard, answer, gone, steady >>
    BY DEF Begin, table, checkVars, probeVars
<1>3. p \in Seq(Places) /\ \A i \in Places : \E j \in DOMAIN p : p[j] = i
    BY OrderIsComplete
<1>4. TypeOK'
    BY <1>1, <1>2, <1>3 DEF Inv, TypeOK
<1>5. UnhealthyIffThreeFails' /\ LockIsHeldByItsProbe' /\ StopOK'
    BY <1>2 DEF Inv, UnhealthyIffThreeFails, LockIsHeldByItsProbe, StopOK
<1>6. plan'[s] = p /\ pc'[s] = "trying"
    BY <1>1, <1>2 DEF Inv, TypeOK
<1>7. PlanOK(s)'
    BY <1>3, <1>6 DEF PlanOK
<1>8. \A q \in Slots : q # s =>
          pc'[q] = pc[q] /\ plan'[q] = plan[q] /\ sure'[q] = sure[q] /\ (q \in gone' <=> q \in gone)
    BY <1>1, <1>2 DEF Inv, TypeOK
<1>9. PlansOK'
    BY <1>2, <1>7, <1>8, PlanFrame
<1> QED
    BY <1>4, <1>5, <1>9 DEF Inv

LEMMA DisconnectInv ==
    ASSUME Inv, NEW s \in Slots, Disconnect(s)
    PROVE  Inv'
<1>1. /\ gone' = gone \cup {s}
      /\ UNCHANGED << url, healthy, fails, latency, lock, checker, cancelled, stopper,
                      probe, heard, pc, kind, plan, answer, sure, steady >>
    BY DEF Disconnect, table, checkVars, probeVars
<1>2. TypeOK'
    BY <1>1 DEF Inv, TypeOK
<1>3. UnhealthyIffThreeFails' /\ LockIsHeldByItsProbe' /\ StopOK' /\ PlansOK'
    BY <1>1 DEF Inv, UnhealthyIffThreeFails, LockIsHeldByItsProbe, StopOK, PlansOK, PlanOK
<1> QED
    BY <1>2, <1>3 DEF Inv

LEMMA TailOfPlan ==
    ASSUME NEW p \in Seq(Places), p # << >>
    PROVE  /\ Head(p) \in Places /\ Head(p) = p[1] /\ Tail(p) \in Seq(Places)
           /\ DOMAIN Tail(p) = 1 .. Len(p) - 1 /\ DOMAIN p = 1 .. Len(p)
           /\ Len(p) \in Nat /\ Len(p) > 0
           /\ \A i \in DOMAIN Tail(p) : Tail(p)[i] = p[i + 1]
BY HeadTailProperties

\* Only the place that was tried is missing from what is left to try.
LEMMA TailKeeps ==
    ASSUME NEW p \in Seq(Places), p # << >>, NEW k \in DOMAIN p, p[k] # Head(p)
    PROVE  \E m \in DOMAIN Tail(p) : Tail(p)[m] = p[k]
<1>1. k \in 1 .. Len(p) /\ Len(p) \in Nat /\ k # 1
    BY TailOfPlan
<1>2. k - 1 \in 1 .. Len(p) - 1 /\ (k - 1) + 1 = k
    BY <1>1
<1> QED
    BY <1>2, TailOfPlan

LEMMA TryInv ==
    ASSUME Inv, NEW s \in Slots, Try(s)
    PROVE  Inv'
<1> DEFINE first == Head(plan[s])
           e == url[first]
<1>1. /\ pc[s] = "trying" /\ plan[s] # << >> /\ plan[s] \in Seq(Places)
      /\ UNCHANGED << url, lock, checker, cancelled, stopper, probe, heard, gone, sure, steady >>
    BY DEF Inv, TypeOK, Try, checkVars, probeVars
<1>2. first \in Places /\ e \in Endpoints
    BY <1>1, TailOfPlan, RpcClientAssumption DEF Inv, TypeOK
<1>3. PICK a \in Outcomes(e, s \in gone) :
        \/ markSuccess(e) /\ Returns(s, a)
        \/ a \notin Accepts(kind[s]) /\ markFailure(e) /\ Continues(s)
    BY DEF Try
<1>4. a \in Answer
    BY DEF Outcomes, Answer
<1>5. LockIsHeldByItsProbe' /\ StopOK'
    BY <1>1 DEF Inv, LockIsHeldByItsProbe, StopOK
<1>6. TableOK
    BY DEF Inv, TypeOK, TableOK
<1> HIDE DEF e, first
<1>7. CASE markSuccess(e) /\ Returns(s, a)
  <2>1. TableOK'
      BY <1>2, <1>6, <1>7, SuccessKeepsTable DEF markSuccess
  <2>2. latency' \in [Endpoints -> Latencies]
      BY <1>7 DEF markSuccess, Inv, TypeOK
  <2>3. /\ pc' \in [Slots -> {"idle", "trying", "answered", "failed"}]
        /\ kind' \in [Slots -> {"call", "raw"}]
      BY <1>7 DEF Inv, TypeOK, Returns
  <2>4. answer' \in [Slots -> Answer \cup {"none"}] /\ plan' \in [Slots -> Seq(Places)]
    <3>1. << >> \in Seq(Places)
        OBVIOUS
    <3> QED
        BY <3>1, <1>4, <1>7 DEF Inv, TypeOK, Returns
  <2>5. TypeOK'
      BY <2>1, <2>2, <2>3, <2>4, <1>1 DEF Inv, TypeOK, TableOK
  <2>6. PlansOK'
    <3>1. pc'[s] = "answered"
        BY <1>7 DEF Inv, TypeOK, Returns
    <3>2. \A q \in Slots : q # s =>
              pc'[q] = pc[q] /\ plan'[q] = plan[q] /\ sure'[q] = sure[q] /\ (q \in gone' <=> q \in gone)
        BY <1>1, <1>7 DEF Inv, TypeOK, Returns
    <3> QED
        BY <1>1, <3>1, <3>2, PlanFrame
  <2> QED
      BY <2>1, <2>5, <2>6, <1>5 DEF Inv, TableOK
<1>8. CASE a \notin Accepts(kind[s]) /\ markFailure(e) /\ Continues(s)
  <2>1. TableOK'
      BY <1>2, <1>6, <1>8, FailureKeepsTable DEF markFailure
  <2>2. UNCHANGED latency
      BY <1>8 DEF markFailure
  <2>3. plan'[s] = Tail(plan[s]) /\ UNCHANGED pc
      BY <1>8 DEF Inv, TypeOK, Continues
  <2>4. plan' \in [Slots -> Seq(Places)]
    <3>1. Tail(plan[s]) \in Seq(Places)
        BY <1>1, TailOfPlan
    <3> QED
        BY <3>1, <1>8 DEF Inv, TypeOK, Continues
  <2>5. TypeOK'
      BY <2>1, <2>2, <2>4, <1>1, <1>8 DEF Inv, TypeOK, TableOK, Continues
  <2>6. s \in gone \/ e \notin sure[s]
    <3> SUFFICES ASSUME s \notin gone, e \in steady PROVE FALSE
        BY DEF Inv, TypeOK
    <3>1. a = "result"
        BY <1>3 DEF Outcomes
    <3> QED
        BY <1>8, <3>1 DEF Accepts, OkStatus
  <2>7. PlanOK(s)'
    <3> SUFFICES ASSUME s \notin gone, NEW i \in Places, url[i] \in sure[s]
                 PROVE  \E m \in DOMAIN Tail(plan[s]) : Tail(plan[s])[m] = i
        BY <1>1, <2>3 DEF PlanOK
    <3>1. PICK k \in DOMAIN plan[s] : plan[s][k] = i
        BY <1>1 DEF Inv, PlansOK, PlanOK
    <3>2. i # first
        BY <2>6 DEF e
    <3> QED
        BY <1>1, <3>1, <3>2, TailKeeps DEF first
  <2>8. \A q \in Slots : q # s =>
            pc'[q] = pc[q] /\ plan'[q] = plan[q] /\ sure'[q] = sure[q] /\ (q \in gone' <=> q \in gone)
      BY <1>1, <1>8 DEF Inv, TypeOK, Continues
  <2>9. PlansOK'
      BY <1>1, <2>7, <2>8, PlanFrame
  <2> QED
      BY <2>1, <2>5, <2>9, <1>5 DEF Inv, TableOK
<1> QED
    BY <1>3, <1>7, <1>8

LEMMA ExhaustInv ==
    ASSUME Inv, NEW s \in Slots, Exhaust(s)
    PROVE  Inv'
<1>1. /\ pc[s] = "trying" /\ plan[s] = << >> /\ pc' = [pc EXCEPT ![s] = "failed"]
      /\ kind' = [kind EXCEPT ![s] = "call"]
      /\ UNCHANGED << url, healthy, fails, latency, lock, checker, cancelled, stopper,
                      probe, heard, plan, answer, gone, sure, steady >>
    BY DEF Exhaust, table, checkVars, probeVars
<1>2. TypeOK'
    BY <1>1 DEF Inv, TypeOK
<1>3. UnhealthyIffThreeFails' /\ LockIsHeldByItsProbe' /\ StopOK'
    BY <1>1 DEF Inv, UnhealthyIffThreeFails, LockIsHeldByItsProbe, StopOK
<1>4. PlansOK'
  <2>1. PlanOK(s)'
      BY <1>1 DEF Inv, PlansOK, PlanOK
  <2>2. \A q \in Slots : q # s =>
            pc'[q] = pc[q] /\ plan'[q] = plan[q] /\ sure'[q] = sure[q] /\ (q \in gone' <=> q \in gone)
      BY <1>1 DEF Inv, TypeOK
  <2> QED
      BY <1>1, <2>1, <2>2, PlanFrame
<1> QED
    BY <1>2, <1>3, <1>4 DEF Inv

LEMMA LeaveInv ==
    ASSUME Inv, NEW s \in Slots, Leave(s)
    PROVE  Inv'
<1>1. /\ pc' = [pc EXCEPT ![s] = "idle"] /\ answer' = [answer EXCEPT ![s] = "none"]
      /\ gone' = gone \ {s} /\ sure' = [sure EXCEPT ![s] = {}]
      /\ UNCHANGED << url, healthy, fails, latency, lock, checker, cancelled, stopper,
                      probe, heard, kind, plan, steady >>
    BY DEF Leave, table, checkVars, probeVars
<1>2. TypeOK'
    BY <1>1 DEF Inv, TypeOK
<1>3. UnhealthyIffThreeFails' /\ LockIsHeldByItsProbe' /\ StopOK'
    BY <1>1 DEF Inv, UnhealthyIffThreeFails, LockIsHeldByItsProbe, StopOK
<1>4. PlansOK'
  <2>1. pc'[s] = "idle"
      BY <1>1 DEF Inv, TypeOK
  <2>2. \A q \in Slots : q # s =>
            pc'[q] = pc[q] /\ plan'[q] = plan[q] /\ sure'[q] = sure[q] /\ (q \in gone' <=> q \in gone)
      BY <1>1 DEF Inv, TypeOK
  <2> QED
      BY <1>1, <2>1, <2>2, PlanFrame
<1> QED
    BY <1>2, <1>3, <1>4 DEF Inv

-----------------------------------------------------------------------------
(* Steps of the health checks                                              *)

\* StartHealthChecks and the ticker begin a round when no probe is left.
LEMMA RoundInv ==
    ASSUME Inv, StartHealthChecks \/ Tick
    PROVE  Inv'
<1>1. /\ checker \in {"off", "idle"} /\ checker' = "probing"
      /\ probe' = [i \in Places |-> "sent"]
      /\ UNCHANGED << url, healthy, fails, latency, lock, cancelled, stopper, heard,
                      pc, kind, plan, answer, gone, sure, steady >>
    BY DEF StartHealthChecks, Tick, table, slotVars
<1>2. TypeOK'
    BY <1>1 DEF Inv, TypeOK
<1>3. UnhealthyIffThreeFails' /\ PlansOK' /\ StopOK'
    BY <1>1 DEF Inv, UnhealthyIffThreeFails, PlansOK, PlanOK, StopOK
<1>4. LockIsHeldByItsProbe'
  <2>1. \A i \in Places : probe[i] = "none"
      BY <1>1 DEF Inv, LockIsHeldByItsProbe
  <2>2. \A i \in Places : lock # i
      BY <2>1 DEF Inv, LockIsHeldByItsProbe
  <2> QED
      BY <1>1, <2>2 DEF LockIsHeldByItsProbe
<1> QED
    BY <1>2, <1>3, <1>4 DEF Inv

LEMMA FreeIsNoPlace == Free \notin Places
BY RpcClientAssumption DEF Free, Places

LEMMA Configured ==
    ASSUME TypeOK, NEW i \in Places
    PROVE  url[i] \in Endpoints
BY RpcClientAssumption DEF TypeOK

LEMMA ProbeLocksInv ==
    ASSUME Inv, NEW i \in Places, ProbeLocks(i)
    PROVE  Inv'
<1>1. /\ probe[i] = "sent" /\ lock = Free /\ latency' \in [Endpoints -> Latencies]
      /\ UNCHANGED << url, checker, cancelled, stopper, pc, kind, plan, answer, gone,
                      sure, steady >>
    BY DEF ProbeLocks, Inv, TypeOK, checkVars, slotVars
<1>2. PlansOK' /\ StopOK'
    BY <1>1 DEF Inv, PlansOK, PlanOK, StopOK
<1>3. checker = "probing"
    BY <1>1 DEF Inv, LockIsHeldByItsProbe
<1>4. TableOK
    BY DEF Inv, TypeOK, TableOK
<1>5. CASE /\ RecordFailure(url[i])
           /\ probe' = [probe EXCEPT ![i] = "none"]
           /\ UNCHANGED << lock, heard >>
  <2>1. TableOK'
    <3>1. url[i] \in Endpoints
        BY Configured DEF Inv
    <3> QED
        BY <1>4, <1>5, <3>1, FailureKeepsTable
  <2>2. TypeOK'
      BY <2>1, <1>1, <1>5 DEF Inv, TypeOK, TableOK
  <2>3. LockIsHeldByItsProbe'
      BY <1>1, <1>3, <1>5, FreeIsNoPlace DEF Inv, TypeOK, LockIsHeldByItsProbe
  <2> QED
      BY <2>1, <2>2, <2>3, <1>2 DEF Inv, TableOK
<1>6. CASE /\ \E a \in Outcomes(url[i], cancelled) \ {"transport"} :
                 heard' = [heard EXCEPT ![i] = IF a = "result" THEN a ELSE "rejected"]
           /\ lock' = i
           /\ probe' = [probe EXCEPT ![i] = "reading"]
           /\ UNCHANGED << healthy, fails >>
  <2>1. heard' \in [Places -> {"none", "result", "rejected"}]
      BY <1>6 DEF Inv, TypeOK
  <2>2. TypeOK'
      BY <2>1, <1>1, <1>6 DEF Inv, TypeOK
  <2>3. LockIsHeldByItsProbe'
    <3>1. \A f \in Places : probe[f] # "reading"
        BY <1>1, FreeIsNoPlace DEF Inv, LockIsHeldByItsProbe
    <3> QED
        BY <3>1, <1>1, <1>3, <1>6 DEF Inv, TypeOK, LockIsHeldByItsProbe
  <2>4. UnhealthyIffThreeFails'
      BY <1>6 DEF Inv, UnhealthyIffThreeFails
  <2> QED
      BY <2>2, <2>3, <2>4, <1>2 DEF Inv
<1> QED
    BY <1>5, <1>6 DEF ProbeLocks

LEMMA ProbeRecordsInv ==
    ASSUME Inv, NEW i \in Places, ProbeRecords(i)
    PROVE  Inv'
<1>1. /\ probe[i] = "reading" /\ lock' = Free
      /\ probe' = [probe EXCEPT ![i] = "none"] /\ heard' = [heard EXCEPT ![i] = "none"]
      /\ RecordSuccess(url[i]) \/ RecordFailure(url[i])
      /\ UNCHANGED << url, latency, checker, cancelled, stopper, pc, kind, plan, answer,
                      gone, sure, steady >>
    BY DEF ProbeRecords, checkVars, slotVars
<1>2. TableOK'
  <2>1. TableOK
      BY DEF Inv, TypeOK, TableOK
  <2>2. url[i] \in Endpoints
      BY Configured DEF Inv
  <2> QED
      BY <1>1, <2>1, <2>2, FailureKeepsTable, SuccessKeepsTable
<1>3. TypeOK'
    BY <1>1, <1>2 DEF Inv, TypeOK, TableOK
<1>4. PlansOK' /\ StopOK'
    BY <1>1 DEF Inv, PlansOK, PlanOK, StopOK
<1>5. LockIsHeldByItsProbe'
  <2>1. lock = i
      BY <1>1 DEF Inv, LockIsHeldByItsProbe
  <2>2. \A f \in Places : f # i => probe[f] # "reading"
      BY <2>1 DEF Inv, LockIsHeldByItsProbe
  <2>3. \A f \in Places : probe'[f] # "reading"
      BY <1>1, <2>2 DEF Inv, TypeOK
  <2>4. \A f \in Places : lock' # f
      BY <1>1, FreeIsNoPlace
  <2>5. checker = "probing"
      BY <1>1 DEF Inv, LockIsHeldByItsProbe
  <2> QED
      BY <1>1, <2>3, <2>4, <2>5 DEF LockIsHeldByItsProbe
<1> QED
    BY <1>2, <1>3, <1>4, <1>5 DEF Inv, TableOK

\* The steps of the health-check goroutine, of its stopper and of an endpoint.
LEMMA CheckerInv ==
    ASSUME Inv,
           \/ RoundEnds \/ CheckerEnds \/ StopCancels \/ StopReturns
           \/ \E e \in Endpoints : Settle(e)
           \/ UNCHANGED vars
    PROVE  Inv'
<1>1. UNCHANGED << url, healthy, fails, latency, lock, probe, heard, pc, kind, plan,
                   answer, gone, sure >>
    BY DEF RoundEnds, CheckerEnds, StopCancels, StopReturns, Settle, vars, table,
           probeVars, slotVars
<1>2. UnhealthyIffThreeFails' /\ PlansOK'
    BY <1>1 DEF Inv, UnhealthyIffThreeFails, PlansOK, PlanOK
<1>3. CASE RoundEnds
    BY <1>1, <1>2, <1>3 DEF RoundEnds, Inv, TypeOK, LockIsHeldByItsProbe, StopOK
<1>4. CASE CheckerEnds
    BY <1>1, <1>2, <1>4 DEF CheckerEnds, Inv, TypeOK, LockIsHeldByItsProbe, StopOK
<1>5. CASE StopCancels
    BY <1>1, <1>2, <1>5 DEF StopCancels, Inv, TypeOK, LockIsHeldByItsProbe, StopOK
<1>6. CASE StopReturns
    BY <1>1, <1>2, <1>6 DEF StopReturns, Inv, TypeOK, LockIsHeldByItsProbe, StopOK
<1>7. ASSUME NEW e \in Endpoints, Settle(e)
      PROVE  Inv'
    BY <1>1, <1>2, <1>7 DEF Settle, checkVars, Inv, TypeOK, LockIsHeldByItsProbe, StopOK
<1>8. CASE UNCHANGED vars
    BY <1>1, <1>2, <1>8 DEF vars, checkVars, Inv, TypeOK, LockIsHeldByItsProbe, StopOK
<1> QED
    BY <1>3, <1>4, <1>5, <1>6, <1>7, <1>8

LEMMA StepInv ==
    ASSUME Inv, [Next]_vars
    PROVE  Inv'
<1>1. ASSUME NEW s \in Slots, \E k \in {"call", "raw"} : Begin(s, k)
      PROVE  Inv'
    BY <1>1, BeginInv
<1>2. ASSUME NEW s \in Slots, Disconnect(s) \/ Request(s)
      PROVE  Inv'
    BY <1>2, DisconnectInv, TryInv, ExhaustInv, LeaveInv DEF Request
<1>3. ASSUME NEW i \in Places, Probe(i)
      PROVE  Inv'
    BY <1>3, ProbeLocksInv, ProbeRecordsInv DEF Probe
<1> QED
    BY <1>1, <1>2, <1>3, RoundInv, CheckerInv DEF Next

-----------------------------------------------------------------------------
(* Theorems                                                                *)

\* The inductive invariant of requests, probes and the health table.
THEOREM Invariance == Spec => []Inv
<1>1. Init => Inv
    BY InitInv
<1>2. Inv /\ [Next]_vars => Inv'
    BY StepInv
<1> QED
    BY <1>1, <1>2, PTL DEF Spec

\* Every variable of the client stays within its type.
THEOREM TypeCorrect == Spec => []TypeOK
<1>1. Inv => TypeOK
    BY DEF Inv
<1> QED
    BY <1>1, Invariance, PTL

\* markSuccess, markFailure and the probes agree: an endpoint is unhealthy
\* exactly while at least its last three recorded exchanges failed.
THEOREM HealthIsThreeFails == Spec => []UnhealthyIffThreeFails
<1>1. Inv => UnhealthyIffThreeFails
    BY DEF Inv
<1> QED
    BY <1>1, Invariance, PTL

\* runHealthCheck: healthMu is held by a probe that reads, and by no other, and
\* a round that is over leaves no probe.
THEOREM LockDiscipline == Spec => []LockIsHeldByItsProbe
<1>1. Inv => LockIsHeldByItsProbe
    BY DEF Inv
<1> QED
    BY <1>1, Invariance, PTL

\* A request whose client stays fails only when none of its endpoints had settled
\* before it began, whatever happens to the health table and however many requests
\* and probes run meanwhile (client.go:219-295, 376-417).
THEOREM FailoverFindsEndpoint == Spec => []OneEndpointIsEnough
<1>1. Inv => OneEndpointIsEnough
  <2> SUFFICES ASSUME Inv, NEW s \in Slots, pc[s] = "failed", s \notin gone,
                      NEW i \in Places, url[i] \in sure[s]
               PROVE  FALSE
      BY DEF OneEndpointIsEnough
  <2>1. PlanOK(s) /\ plan[s] = << >>
      BY DEF Inv, PlansOK, PlanOK
  <2> QED
      BY <2>1 DEF PlanOK
<1> QED
    BY <1>1, Invariance, PTL

\* endpointsForCall: a request tries the healthy endpoints first, by latency.
THEOREM HealthyFirst == Spec => BeginsWithFastestHealthy
<1> DEFINE Begins == \A s \in Slots : pc[s] = "idle" /\ pc'[s] = "trying" =>
               \A i, k \in DOMAIN plan'[s] : i < k /\ healthy[url[plan'[s][k]]] =>
                   /\ healthy[url[plan'[s][i]]]
                   /\ latency[url[plan'[s][i]]] \leq latency[url[plan'[s][k]]]
<1>1. Inv /\ [Next]_vars => [Begins]_vars
  <2> SUFFICES ASSUME Inv, Next, NEW s \in Slots, pc[s] = "idle", pc'[s] = "trying",
                      NEW i \in DOMAIN plan'[s], NEW k \in DOMAIN plan'[s],
                      i < k, healthy[url[plan'[s][k]]]
               PROVE  /\ healthy[url[plan'[s][i]]]
                      /\ latency[url[plan'[s][i]]] \leq latency[url[plan'[s][k]]]
      BY DEF Begins
  <2>1. pc \in [Slots -> {"idle", "trying", "answered", "failed"}]
      BY DEF Inv, TypeOK
  <2>2. \A q \in Slots : Disconnect(q) \/ Request(q) => FALSE
    <3>1. ASSUME NEW q \in Slots, Disconnect(q)
          PROVE  FALSE
        BY <3>1 DEF Disconnect
    <3>2. ASSUME NEW q \in Slots, Try(q)
          PROVE  FALSE
        BY <2>1, <3>2 DEF Try, Returns, Continues
    <3>3. ASSUME NEW q \in Slots, Exhaust(q) \/ Leave(q)
          PROVE  FALSE
        BY <2>1, <3>3 DEF Exhaust, Leave
    <3> QED
        BY <3>1, <3>2, <3>3 DEF Request
  <2>3. pc' # pc
      OBVIOUS
  <2>4. \E q \in Slots, m \in {"call", "raw"} : Begin(q, m)
      BY <2>2, <2>3 DEF Next, Probe, ProbeLocks, ProbeRecords, Settle,
         StartHealthChecks, Tick, RoundEnds, CheckerEnds, StopCancels, StopReturns, slotVars
  <2>5. PICK q \in Slots, m \in {"call", "raw"} : Begin(q, m)
      BY <2>4
  <2>6. PICK p \in endpointsForCall : plan' = [plan EXCEPT ![q] = p]
      BY <2>5 DEF Begin
  <2>7. q = s
      BY <2>1, <2>5 DEF Begin
  <2>8. plan'[s] = p
      BY <2>6, <2>7 DEF Inv, TypeOK
  <2>9. ~Precedes(p[k], p[i])
      BY <2>8, OrderIsComplete DEF endpointsForCall
  <2>10. p[i] \in Places /\ p[k] \in Places
      BY <2>8, OrderIsComplete, ElementOfSeq
  <2>11. url[p[i]] \in Endpoints /\ url[p[k]] \in Endpoints
      BY <2>10, Configured DEF Inv
  <2>12. latency[url[p[i]]] \in Nat /\ latency[url[p[k]]] \in Nat
      BY <2>11, RpcClientAssumption DEF Inv, TypeOK
  <2> QED
      BY <2>8, <2>9, <2>12 DEF Precedes
<1> QED
    BY <1>1, Invariance, PTL DEF Spec, BeginsWithFastestHealthy, Begins

\* StopHealthChecks: once it has returned no probe is sent or recorded.
THEOREM StopIsFinal == Spec => QuietAfterStop
<1> DEFINE Quiet == stopper = "returned" =>
               /\ UNCHANGED << probe, lock >>
               /\ UNCHANGED table \/ \E s \in Slots : pc[s] = "trying"
<1>1. Inv /\ [Next]_vars => [Quiet]_vars
  <2> SUFFICES ASSUME Inv, Next, stopper = "returned"
               PROVE  /\ UNCHANGED << probe, lock >>
                      /\ UNCHANGED table \/ \E s \in Slots : pc[s] = "trying"
      BY DEF Quiet
  <2>1. checker = "ended" /\ \A i \in Places : probe[i] = "none"
      BY DEF Inv, StopOK, LockIsHeldByItsProbe
  <2>2. \A i \in Places : ~Probe(i)
      BY <2>1 DEF Probe, ProbeLocks, ProbeRecords
  <2>3. ~StartHealthChecks /\ ~Tick
      BY <2>1 DEF StartHealthChecks, Tick
  <2>4. ASSUME NEW s \in Slots, Try(s)
        PROVE  UNCHANGED << probe, lock >> /\ pc[s] = "trying"
      BY <2>4 DEF Try, probeVars
  <2>5. ASSUME NEW s \in Slots,
               (\E k \in {"call", "raw"} : Begin(s, k)) \/ Disconnect(s) \/ Exhaust(s) \/ Leave(s)
        PROVE  UNCHANGED << probe, lock >> /\ UNCHANGED table
      BY <2>5 DEF Begin, Disconnect, Exhaust, Leave, probeVars
  <2>6. ASSUME \/ RoundEnds \/ CheckerEnds \/ StopCancels \/ StopReturns
               \/ \E e \in Endpoints : Settle(e)
        PROVE  UNCHANGED << probe, lock >> /\ UNCHANGED table
      BY <2>6 DEF RoundEnds, CheckerEnds, StopCancels, StopReturns, Settle, probeVars
  <2> QED
      BY <2>2, <2>3, <2>4, <2>5, <2>6 DEF Next, Request
<1> QED
    BY <1>1, Invariance, PTL DEF Spec, QuietAfterStop, Quiet

\* A StopHealthChecks that waits has found checks to wait for, and cancelled them.
WaitInv == stopper = "waiting" => checker # "off" /\ cancelled

\* No request, probe or StopHealthChecks waits in a circle, whatever the number of
\* endpoints and requests (client.go:64-92, 106-203, 376-440).
THEOREM WaitingEnds == Spec => []NoCircularWait
<1>1. Init => WaitInv
    BY DEF Init, WaitInv
<1>2. WaitInv /\ [Next]_vars => WaitInv'
  <2> SUFFICES ASSUME WaitInv, Next \/ UNCHANGED vars PROVE WaitInv'
      OBVIOUS
  <2>1. ASSUME UNCHANGED checkVars PROVE WaitInv'
      BY <2>1 DEF WaitInv, checkVars
  <2>2. CASE \/ StartHealthChecks \/ Tick \/ RoundEnds \/ CheckerEnds
             \/ StopCancels \/ StopReturns
      BY <2>2 DEF WaitInv, StartHealthChecks, Tick, RoundEnds, CheckerEnds, StopCancels,
                  StopReturns
  <2>3. ASSUME NEW s \in Slots,
               (\E k \in {"call", "raw"} : Begin(s, k)) \/ Disconnect(s) \/ Request(s)
        PROVE  UNCHANGED checkVars
      BY <2>3 DEF Begin, Disconnect, Request, Try, Exhaust, Leave
  <2>4. ASSUME (\E i \in Places : Probe(i)) \/ (\E e \in Endpoints : Settle(e))
        PROVE  UNCHANGED checkVars
      BY <2>4 DEF Probe, ProbeLocks, ProbeRecords, Settle
  <2>5. CASE UNCHANGED vars
      BY <2>1, <2>5 DEF vars
  <2> QED
      BY <2>1, <2>2, <2>3, <2>4, <2>5 DEF Next
<1>3. Inv /\ WaitInv => NoCircularWait
  <2> SUFFICES ASSUME Inv, WaitInv PROVE NoCircularWait
      OBVIOUS
  <2> USE DEF ProbeGoesOn, Inv, LockIsHeldByItsProbe
  <2>1. \A i \in Places : lock = i => ProbeGoesOn(i)
      OBVIOUS
  <2>2. ASSUME NEW i \in Places, probe[i] # "none"
        PROVE  \E k \in Places : ProbeGoesOn(k)
    <3>1. probe[i] \in {"sent", "reading"} /\ lock \in {Free} \cup Places
        BY <2>2 DEF TypeOK
    <3> QED
        BY <2>1, <3>1
  <2>3. checker = "probing" => CheckGoesOn
      BY <2>2 DEF CheckGoesOn
  <2>4. stopper = "waiting" => checker = "ended" \/ CheckGoesOn
      BY <2>3 DEF CheckGoesOn, WaitInv, TypeOK
  <2> QED
      BY <2>1, <2>3, <2>4 DEF NoCircularWait
<1> QED
    BY <1>1, <1>2, <1>3, Invariance, PTL DEF Spec

\* The client keeps the promise of HealthChecks, which the manager relies on, but
\* for its fairness: concurrent probes hold healthMu in a round only, and the checks
\* end between rounds and when asked (client.go:64-92, 106-203).
THEOREM KeepsPromise == Spec => HC!Init /\ [][HC!Next]_(HC!client)
<1>1. Init => HC!Init
    BY DEF Init, HC!Init, Checks
<1>2. Inv /\ [Next]_vars => [HC!Next]_(HC!client)
  <2> SUFFICES ASSUME Inv, [Next]_vars
               PROVE  [HC!Next]_(HC!client)
      OBVIOUS
  <2> USE DEF HC!Next, HC!client, Checks
  <2>1. CASE UNCHANGED << lock, checker, cancelled >>
      BY <2>1
  <2>2. CASE StartHealthChecks \/ Tick
    <3>1. (lock # Free) \in BOOLEAN /\ cancelled \in BOOLEAN
        BY DEF Inv, TypeOK
    <3>2. checker' = "probing" /\ UNCHANGED << lock, cancelled >>
        BY <2>2 DEF StartHealthChecks, Tick
    <3>3. CASE StartHealthChecks
        BY <3>1, <3>2, <3>3 DEF StartHealthChecks, HC!Start
    <3>4. CASE Tick
        BY <3>1, <3>2, <3>4 DEF Tick, HC!RoundBegins
    <3> QED
        BY <2>2, <3>3, <3>4
  <2>3. ASSUME NEW i \in Places, Probe(i)
        PROVE  [HC!Next]_(HC!client)
    <3>1. checker = "probing" /\ UNCHANGED << checker, cancelled >>
        BY <2>3 DEF Probe, ProbeLocks, ProbeRecords, checkVars, Inv, LockIsHeldByItsProbe
    <3> QED
        BY <3>1 DEF HC!Holds, HC!Releases
  <2>4. CASE RoundEnds
    <3>1. lock = Free
        BY <2>4 DEF RoundEnds, Inv, TypeOK, LockIsHeldByItsProbe
    <3> QED
        BY <2>4, <3>1 DEF RoundEnds, HC!RoundEnds
  <2>5. CASE CheckerEnds
      BY <2>5 DEF CheckerEnds, HC!End
  <2>6. CASE StopCancels
      BY <2>6 DEF StopCancels, HC!Stop
  <2>7. CASE \/ \E s \in Slots : (\E k \in {"call", "raw"} : Begin(s, k)) \/ Disconnect(s) \/ Request(s)
             \/ \E e \in Endpoints : Settle(e)
             \/ StopReturns \/ UNCHANGED vars
    <3>1. UNCHANGED << lock, checker, cancelled >>
        BY <2>7 DEF Begin, Disconnect, Request, Try, Exhaust, Leave, Settle, StopReturns,
                    vars, checkVars
    <3> QED
        BY <2>1, <3>1
  <2> QED
      BY <2>2, <2>3, <2>4, <2>5, <2>6, <2>7 DEF Next
<1> QED
    BY <1>1, <1>2, Invariance, PTL DEF Spec
=============================================================================

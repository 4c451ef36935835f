-------------------------- MODULE LinuxMonitorProofs --------------------------
(***************************************************************************)
(* Proofs about LinuxMonitor: its inductive invariant, what a paid call    *)
(* rests on and what a finding may cost, for every number of findings,     *)
(* retries and calls, and that the simulated response implements           *)
(* OneShotDispatch.                                                        *)
(***************************************************************************)
EXTENDS LinuxMonitor, TLAPS

-----------------------------------------------------------------------------
(* Operators of the model.                                                 *)

\* Appending a row adds its finding to the stored ones.
LEMMA AppendToSet ==
  ASSUME NEW s \in Seq(Findings), NEW f \in Findings
  PROVE  /\ Append(s, f) \in Seq(Findings)
         /\ ToSet(Append(s, f)) = ToSet(s) \cup {f}
  <1>1. /\ Append(s, f) \in Seq(Findings) /\ Len(Append(s, f)) = Len(s) + 1
        /\ \A i \in 1 .. Len(s) : Append(s, f)[i] = s[i]
        /\ Append(s, f)[Len(s) + 1] = f /\ Len(s) \in Nat
    OBVIOUS
  <1>2. /\ ToSet(s) = {s[i] : i \in 1 .. Len(s)}
        /\ ToSet(Append(s, f)) = {Append(s, f)[i] : i \in 1 .. Len(s) + 1}
    BY <1>1 DEF ToSet
  <1>3. 1 .. Len(s) + 1 = 1 .. Len(s) \cup {Len(s) + 1}
    BY <1>1
  <1>4. QED
    BY <1>1, <1>2, <1>3

\* What the attempts so far allow: nothing before the first, one investigation more per
\* attempt within the retries, and never more than the whole.
LEMMA AllowedCalls ==
  /\ Allowed(0) = 0
  /\ \A a \in Nat : Allowed(a) \in Nat /\ Allowed(a) <= Allowed(a + 1)
  /\ \A a \in Nat : a < RetryLimit => Allowed(a) + MaxCalls = Allowed(a + 1)
  /\ \A a \in Nat : Allowed(a) + MaxCalls <= MaxCalls * (RetryLimit + 1)
  <1> USE MonitorAssumption
  <1>1. ASSUME NEW x \in Nat, NEW y \in Nat, x <= y
        PROVE  /\ MaxCalls * x \in Nat /\ MaxCalls * x <= MaxCalls * y
               /\ MaxCalls * (x + 1) = MaxCalls * x + MaxCalls
    BY <1>1
  <1>2. MaxCalls * 0 = 0 /\ MaxCalls \in Nat /\ RetryLimit \in Nat
    OBVIOUS
  <1>3. ASSUME NEW a \in Nat
        PROVE  /\ Allowed(a) \in Nat /\ Allowed(a) <= Allowed(a + 1)
               /\ a < RetryLimit => Allowed(a) + MaxCalls = Allowed(a + 1)
               /\ Allowed(a) + MaxCalls <= MaxCalls * (RetryLimit + 1)
    <2> DEFINE capped(n) == IF n <= RetryLimit THEN n ELSE RetryLimit
    <2>1. /\ capped(a) \in Nat /\ capped(a + 1) \in Nat /\ capped(a) <= capped(a + 1)
          /\ capped(a) <= RetryLimit /\ (a < RetryLimit => capped(a + 1) = capped(a) + 1)
      BY <1>2
    <2>2. Allowed(a) = MaxCalls * capped(a) /\ Allowed(a + 1) = MaxCalls * capped(a + 1)
      BY DEF Allowed
    <2> HIDE DEF capped
    <2>3. MaxCalls * capped(a) \in Nat /\ MaxCalls * capped(a) <= MaxCalls * capped(a + 1)
      BY <1>1, <2>1
    <2>4. MaxCalls * (capped(a) + 1) = MaxCalls * capped(a) + MaxCalls
      BY <1>1, <2>1
    <2>5. MaxCalls * (capped(a) + 1) <= MaxCalls * (RetryLimit + 1)
      <3>1. /\ capped(a) + 1 \in Nat /\ RetryLimit + 1 \in Nat
            /\ capped(a) + 1 <= RetryLimit + 1
        BY <1>2, <2>1
      <3>2. QED
        BY <1>1, <3>1
    <2>6. QED
      BY <2>1, <2>2, <2>3, <2>4, <2>5
  <1>4. QED
    BY <1>2, <1>3 DEF Allowed

\* A row, a job and a counter of the right type.
LEMMA Typing ==
  ASSUME TypeOK
  PROVE  /\ \A f \in Findings : /\ rows[f] \in Row /\ rows[f].status \in Statuses
                                /\ rows[f].attempts \in Attempts /\ rows[f].due \in BOOLEAN
         /\ job.finding \in Findings \cup {NoFinding} /\ job.attempt \in Attempts
         /\ job.calls \in 0 .. MaxCalls /\ job.uncertain \in BOOLEAN
         /\ breaker.failures \in 0 .. CircuitFailures /\ breaker.circuit \in BOOLEAN
         /\ stored.failures \in 0 .. CircuitFailures /\ stored.circuit \in BOOLEAN
  BY DEF TypeOK, Row, Job, Breakers

\* What no operation on the jobs touches.
LEMMA RequestStays ==
  ASSUME IInv, UNCHANGED <<request, sim, handled>>,
         pc' \notin {"recover", "recover_simulation"} \/ pc \in {"recover", "recover_simulation"}
  PROVE  RequestIsReserved'
  BY DEF IInv, RequestIsReserved

-----------------------------------------------------------------------------
(* The initial state, start, recovery and death.                           *)

\* The monitor starts on an empty ledger.
LEMMA InitInvariant == Init => IInv
  <1> SUFFICES ASSUME Init
               PROVE  IInv
    OBVIOUS
  <1> USE MonitorAssumption DEF Init
  <1>1. TypeOK
    <2>1. /\ Closed \in Breakers /\ NoJob \in Job /\ Unstored \in Row
          /\ ToSet(order) = {} /\ order \in Seq(Findings)
      BY DEF Breakers, Closed, Job, NoJob, Attempts, Row, Unstored, Statuses, ToSet
    <2>2. \A f \in Findings : rows[f].status = "NONE"
      BY DEF Unstored
    <2>3. QED
      BY <2>1, <2>2 DEF TypeOK, NoRequest
  <1>2. HistoryOK
    BY DEF HistoryOK, ToSet
  <1>3. JobIsRunning /\ UnansweredIsOver /\ RequestIsReserved
    BY DEF JobIsRunning, UnansweredIsOver, RequestIsReserved, Unsettled, Holding, Unstored, NoRequest
  <1>4. CircuitIsKept
    BY DEF CircuitIsKept, Unsettled, Holding, Closed
  <1>5. CallsAccounted /\ CostIsBounded
    <2>1. 0 <= MaxCalls * (RetryLimit + 1)
      BY AllowedCalls
    <2>2. QED
      BY <2>1 DEF CallsAccounted, CostIsBounded, Unstored
  <1>6. QED
    BY <1>1, <1>2, <1>3, <1>4, <1>5 DEF IInv

\* A constructed monitor holds a breaker that was stored.
LEMMA ConstructStep ==
  ASSUME IInv, Construct
  PROVE  IInv'
  <1> USE DEF IInv
  <1>1. /\ constructed' \subseteq constructed \cup {stored}
        /\ UNCHANGED <<mode, detected, changed, missed, ledger, simulation, pc, job, breaker, calls>>
    BY DEF Construct
  <1>2. TypeOK' /\ HistoryOK' /\ CostIsBounded'
    BY <1>1 DEF TypeOK, HistoryOK, CostIsBounded, ledger, simulation, calls
  <1>3. JobIsRunning' /\ UnansweredIsOver' /\ CallsAccounted'
    BY <1>1 DEF JobIsRunning, UnansweredIsOver, CallsAccounted, Paid, ledger, calls
  <1>4. CircuitIsKept'
    BY <1>1 DEF CircuitIsKept, ledger
  <1>5. RequestIsReserved'
    BY <1>1, RequestStays DEF simulation
  <1>6. QED
    BY <1>2, <1>3, <1>4, <1>5

\* The new process takes over a circuit that was stored, the last one or an earlier one.
LEMMA StartStep ==
  ASSUME IInv, Start
  PROVE  IInv'
  <1> USE DEF IInv
  <1>1. /\ pc = "stopped" /\ pc' = "recover" /\ request = NoRequest /\ breaker' \in constructed
        /\ missed' = (stored.circuit /\ ~breaker'.circuit)
        /\ UNCHANGED <<mode, detected, changed, constructed, ledger, simulation, job, calls>>
    BY DEF Start
  <1>2. TypeOK' /\ HistoryOK' /\ CostIsBounded'
    <2>1. stored.circuit \in BOOLEAN /\ missed' \in BOOLEAN
      BY <1>1, Typing
    <2>2. QED
      BY <1>1, <2>1 DEF TypeOK, HistoryOK, CostIsBounded, ledger, simulation, calls
  <1>3. JobIsRunning' /\ UnansweredIsOver' /\ CallsAccounted'
    BY <1>1 DEF JobIsRunning, UnansweredIsOver, CallsAccounted, Unsettled, Holding, Paid,
                ledger, calls
  <1>4. CircuitIsKept'
    BY <1>1 DEF CircuitIsKept, Unsettled, Holding, ledger
  <1>5. RequestIsReserved'
    BY <1>1 DEF RequestIsReserved, NoRequest, simulation
  <1>6. QED
    BY <1>2, <1>3, <1>4, <1>5

\* A paid row that ran when a process died is blocked: nothing runs any more.
LEMMA RecoverStep ==
  ASSUME IInv, Recover
  PROVE  IInv'
  <1> USE DEF IInv
  <1>1. /\ pc = "recover" /\ pc' = "recover_simulation"
        /\ rows' = [f \in Findings |-> AfterCrash(rows[f])]
        /\ UNCHANGED <<world, order, stored, stop, simulation, job, breaker, calls>>
    BY DEF Recover, Goes
  <1>2. \A f \in Findings :
          /\ rows'[f] \in Row /\ rows'[f].status # "RUNNING"
          /\ rows'[f].status = "NONE" <=> rows[f].status = "NONE"
          /\ \/ rows'[f] = rows[f]
             \/ /\ rows[f].status = "RUNNING"
                /\ rows'[f].status = IF Paid THEN "BLOCKED" ELSE "PENDING"
                /\ rows'[f].attempts = rows[f].attempts
    <2> SUFFICES ASSUME NEW f \in Findings
                 PROVE  /\ rows'[f] \in Row /\ rows'[f].status # "RUNNING"
                        /\ rows'[f].status = "NONE" <=> rows[f].status = "NONE"
                        /\ \/ rows'[f] = rows[f]
                           \/ /\ rows[f].status = "RUNNING"
                              /\ rows'[f].status = IF Paid THEN "BLOCKED" ELSE "PENDING"
                              /\ rows'[f].attempts = rows[f].attempts
      OBVIOUS
    <2>1. rows[f] \in Row /\ rows'[f] = AfterCrash(rows[f])
      BY <1>1, Typing
    <2>2. QED
      BY <2>1 DEF AfterCrash, Row, Statuses, Final
  <1>3. TypeOK' /\ HistoryOK' /\ CostIsBounded'
    <2>1. rows' \in [Findings -> Row]
      BY <1>1, <1>2
    <2>2. {f \in Findings : rows'[f].status # "NONE"} = {f \in Findings : rows[f].status # "NONE"}
      BY <1>2
    <2>3. QED
      BY <1>1, <2>1, <2>2 DEF TypeOK, HistoryOK, CostIsBounded, world, simulation, calls
  <1>4. JobIsRunning' /\ CircuitIsKept'
    BY <1>1, <1>2 DEF JobIsRunning, CircuitIsKept, Unsettled, Holding, Paid, world
  <1>5. UnansweredIsOver'
    BY <1>1, <1>2 DEF UnansweredIsOver, HistoryOK, Final, Paid, world, calls
  <1>6. CallsAccounted'
    <2>1. \A f \in Findings : rows[f].attempts \in Nat
      BY Typing, MonitorAssumption DEF Attempts
    <2>2. QED
      BY <1>1, <1>2, <2>1, AllowedCalls DEF CallsAccounted, Paid, world, calls
  <1>7. RequestIsReserved'
    BY <1>1, RequestStays DEF simulation
  <1>8. QED
    BY <1>3, <1>4, <1>5, <1>6, <1>7

\* An interrupted simulation is uncertain; no request is in progress.
LEMMA RecoverSimulationStep ==
  ASSUME IInv, RecoverSimulation
  PROVE  IInv'
  <1> USE DEF IInv
  <1>1. /\ pc = "recover_simulation" /\ pc' = "idle" /\ stop' = FALSE
        /\ sim' = [f \in Findings |-> RecoveredRecord(sim[f])]
        /\ UNCHANGED <<world, rows, order, stored, enabled, request, handled, job, breaker, calls>>
    BY DEF RecoverSimulation, Goes
  <1>2. TypeOK' /\ HistoryOK' /\ CostIsBounded'
    BY <1>1 DEF TypeOK, HistoryOK, CostIsBounded, world, calls, RecoveredRecord
  <1>3. JobIsRunning' /\ UnansweredIsOver' /\ CallsAccounted' /\ CircuitIsKept'
    BY <1>1 DEF JobIsRunning, UnansweredIsOver, CallsAccounted, CircuitIsKept, Unsettled, Holding,
                Paid, world, calls
  <1>4. RequestIsReserved'
    BY <1>1 DEF RequestIsReserved, RecoveredRecord
  <1>5. QED
    BY <1>2, <1>3, <1>4

\* The process is gone with its job and its breaker; a call on its way stays unanswered.
LEMMA StopsStep ==
  ASSUME IInv, pc # "stopped", Stops,
         UNCHANGED <<world, ledger, enabled, sim, handled, submitted>>
  PROVE  IInv'
  <1> USE DEF IInv
  <1>1. /\ pc' = "stopped" /\ job' = NoJob /\ breaker' = Closed /\ request' = NoRequest
        /\ unanswered' = unanswered \/ (pc = "call" /\ unanswered' = unanswered \cup {job.finding})
    BY DEF Stops
  <1>2. TypeOK'
    <2>1. Closed \in Breakers /\ NoJob \in Job
      BY MonitorAssumption DEF Breakers, Closed, Job, NoJob, Attempts
    <2>2. QED
      BY <1>1, <2>1 DEF TypeOK, NoRequest, world, ledger
  <1>3. pc = "call" => job.finding \in Findings /\ Paid /\ rows[job.finding].status = "RUNNING"
    BY DEF JobIsRunning, Unsettled, Holding
  <1>4. HistoryOK' /\ CostIsBounded'
    BY <1>1, <1>3 DEF HistoryOK, CostIsBounded, world, ledger
  <1>5. JobIsRunning' /\ CallsAccounted'
    BY <1>1 DEF JobIsRunning, CallsAccounted, Unsettled, Holding, Paid, world, ledger
  <1>6. UnansweredIsOver'
    BY <1>1, <1>3 DEF UnansweredIsOver, HistoryOK, Paid, world, ledger
  <1>7. CircuitIsKept'
    BY <1>1, MonitorAssumption DEF CircuitIsKept, Unsettled, Holding, Closed, world, ledger
  <1>8. RequestIsReserved'
    BY <1>1 DEF RequestIsReserved, NoRequest
  <1>9. QED
    BY <1>2, <1>4, <1>5, <1>6, <1>7, <1>8

\* A stop request and the simulation mode move nothing else.
LEMMA FlagStep ==
  ASSUME IInv, RequestStop \/ SetEnabled
  PROVE  IInv'
  <1> USE DEF IInv
  <1>1. /\ UNCHANGED <<world, rows, order, stored, sim, request, handled, pc, job, breaker, calls>>
        /\ stop' \in BOOLEAN /\ enabled' \in BOOLEAN
    BY DEF RequestStop, SetEnabled, simulation, ledger, TypeOK
  <1>2. TypeOK' /\ HistoryOK' /\ CostIsBounded'
    BY <1>1 DEF TypeOK, HistoryOK, CostIsBounded, world, calls
  <1>3. JobIsRunning' /\ UnansweredIsOver' /\ CallsAccounted' /\ CircuitIsKept' /\ RequestIsReserved'
    BY <1>1 DEF JobIsRunning, UnansweredIsOver, CallsAccounted, CircuitIsKept, RequestIsReserved,
                Paid, world, calls
  <1>4. QED
    BY <1>2, <1>3

-----------------------------------------------------------------------------
(* Collection, correlation and the steps that only move the tick.          *)

\* New findings are detected, and investigated ones get later evidence.
LEMMA CollectStep ==
  ASSUME IInv, Collect
  PROVE  IInv'
  <1> USE DEF IInv
  <1>1. /\ pc = "idle" /\ pc' = "correlate"
        /\ detected \subseteq detected' /\ detected' \subseteq detected \cup Findings
        /\ changed' \subseteq changed \cup {f \in Findings : rows[f].status = "DONE"}
        /\ UNCHANGED <<mode, constructed, missed, ledger, simulation, job, breaker, calls>>
    BY DEF Collect, Goes
  <1>2. {f \in Findings : rows[f].status = "DONE"} \subseteq detected
    BY DEF TypeOK, HistoryOK
  <1>3. TypeOK' /\ HistoryOK' /\ CostIsBounded'
    BY <1>1, <1>2 DEF TypeOK, HistoryOK, CostIsBounded, ledger, simulation, calls
  <1>4. JobIsRunning' /\ UnansweredIsOver' /\ CallsAccounted' /\ CircuitIsKept'
    BY <1>1 DEF JobIsRunning, UnansweredIsOver, CallsAccounted, CircuitIsKept, Unsettled, Holding,
                Paid, ledger, calls
  <1>5. RequestIsReserved'
    BY <1>1, RequestStays DEF simulation
  <1>6. QED
    BY <1>3, <1>4, <1>5

\* Steps of the tick that change nothing but where it stands.
LEMMA QuietStep ==
  ASSUME IInv,
         \/ Correlate \/ AllPut \/ NothingToInvestigate
         \/ ValidateSource \/ ReadFails \/ TickEnds
  PROVE  IInv'
  <1> USE DEF IInv
  <1>1. /\ UNCHANGED <<world, ledger, simulation, job, breaker, calls>>
        /\ \/ pc \in {"correlate", "put", "claim", "prepare"} /\ pc' \in {"put", "claim", "prepare", "idle"}
           \/ pc \in {"validate", "read"} /\ pc' \in {"read", "fail"}
    BY DEF Correlate, AllPut, NothingToInvestigate, ValidateSource, ReadFails, TickEnds, Goes
  <1>2. TypeOK' /\ HistoryOK' /\ CostIsBounded'
    BY <1>1 DEF TypeOK, HistoryOK, CostIsBounded, world, ledger, simulation, calls
  <1>3. JobIsRunning' /\ CallsAccounted' /\ CircuitIsKept'
    BY <1>1 DEF JobIsRunning, CallsAccounted, CircuitIsKept, Unsettled, Holding,
                Paid, world, ledger, calls
  <1>4. UnansweredIsOver'
    BY <1>1 DEF UnansweredIsOver, JobIsRunning, HistoryOK, Unsettled, Holding, Paid, world, ledger, calls
  <1>5. RequestIsReserved'
    BY <1>1, RequestStays DEF simulation
  <1>6. QED
    BY <1>2, <1>3, <1>4, <1>5

\* A finding is recorded once, with its first snapshot, or the full backlog ends the process.
LEMMA PutStep ==
  ASSUME IInv, Put
  PROVE  IInv'
  <1> USE DEF IInv
  <1>1. PICK f \in detected \ ToSet(order) :
          \/ /\ rows' = [rows EXCEPT ![f] = [Unstored EXCEPT !.status = "PENDING"]]
             /\ order' = Append(order, f)
             /\ UNCHANGED <<pc, job, breaker, request, unanswered>>
          \/ Stops /\ UNCHANGED <<rows, order>>
    BY DEF Put
  <1>2. pc = "put" /\ UNCHANGED <<world, stored, stop, enabled, sim, handled, submitted>>
    BY DEF Put
  <1>3. CASE Stops /\ UNCHANGED <<rows, order>>
    BY <1>2, <1>3, StopsStep DEF ledger
  <1>4. CASE /\ rows' = [rows EXCEPT ![f] = [Unstored EXCEPT !.status = "PENDING"]]
             /\ order' = Append(order, f)
             /\ UNCHANGED <<pc, job, breaker, request, unanswered>>
    <2> DEFINE new == [Unstored EXCEPT !.status = "PENDING"]
    <2>1. new \in Row /\ new.status = "PENDING" /\ new.attempts = 0
      <3>1. Unstored \in Row /\ Unstored.attempts = 0
        BY MonitorAssumption DEF Attempts, Unstored, Row, Statuses
      <3>2. QED
        BY <3>1 DEF Row, Statuses
    <2>2. f \in Findings /\ rows[f].status = "NONE"
      BY <1>1 DEF HistoryOK, TypeOK
    <2> HIDE DEF new
    <2>3. order' \in Seq(Findings) /\ ToSet(order') = ToSet(order) \cup {f}
      BY <1>4, <2>2, AppendToSet DEF TypeOK
    <2>4. rows' \in [Findings -> Row] /\ rows' = [rows EXCEPT ![f] = new]
      BY <1>4, <2>1, <2>2 DEF TypeOK, new
    <2>5. TypeOK' /\ HistoryOK' /\ CostIsBounded'
      <3>1. ToSet(order') = {g \in Findings : rows'[g].status # "NONE"}
        BY <2>1, <2>2, <2>3, <2>4 DEF TypeOK
      <3>2. QED
        BY <1>1, <1>2, <1>4, <2>3, <2>4, <3>1 DEF TypeOK, HistoryOK, CostIsBounded, world
    <2>6. JobIsRunning' /\ CircuitIsKept'
      BY <1>2, <1>4, <2>1, <2>4 DEF JobIsRunning, CircuitIsKept, Unsettled, Holding, Paid, world, TypeOK
    <2>7. UnansweredIsOver'
      BY <1>2, <1>4, <2>1, <2>2, <2>4 DEF UnansweredIsOver, Final, Paid, world, TypeOK
    <2>8. CallsAccounted'
      <3>1. submitted[f] = 0 /\ 0 <= Allowed(0)
        BY <2>2, AllowedCalls DEF CallsAccounted
      <3>2. rows'[f] = new /\ \A g \in Findings \ {f} : rows'[g] = rows[g]
        BY <2>2, <2>4 DEF TypeOK
      <3>3. QED
        BY <1>2, <1>4, <2>1, <3>1, <3>2 DEF CallsAccounted, Unsettled, Holding, Paid, world
    <2>9. RequestIsReserved'
      BY <1>2, <1>4, RequestStays
    <2>10. QED
      BY <2>5, <2>6, <2>7, <2>8, <2>9
  <1>5. QED
    BY <1>1, <1>3, <1>4

\* A row whose backoff has passed still waits.
LEMMA BackoffStep ==
  ASSUME IInv, NEW f \in Findings, BackoffPasses(f)
  PROVE  IInv'
  <1> USE DEF IInv
  <1> DEFINE new == [rows[f] EXCEPT !.due = TRUE]
  <1>1. rows[f] \in Row
    BY Typing
  <1>2. new \in Row /\ new.status = rows[f].status /\ new.attempts = rows[f].attempts
    BY <1>1 DEF Row
  <1>3. /\ rows' = [rows EXCEPT ![f] = new]
        /\ UNCHANGED <<world, order, stored, stop, simulation, pc, job, breaker, calls>>
    BY <1>1 DEF BackoffPasses, Row
  <1> HIDE DEF new
  <1>4. /\ rows' \in [Findings -> Row]
        /\ \A g \in Findings : rows'[g].status = rows[g].status /\ rows'[g].attempts = rows[g].attempts
    BY <1>2, <1>3 DEF TypeOK
  <1>5. TypeOK' /\ HistoryOK' /\ CostIsBounded'
    <2>1. {g \in Findings : rows'[g].status # "NONE"} = {g \in Findings : rows[g].status # "NONE"}
      BY <1>4
    <2>2. QED
      BY <1>3, <1>4, <2>1 DEF TypeOK, HistoryOK, CostIsBounded, world, simulation, calls
  <1>6. JobIsRunning' /\ CallsAccounted' /\ CircuitIsKept'
    BY <1>3, <1>4 DEF JobIsRunning, CallsAccounted, CircuitIsKept, Unsettled, Holding, Paid, world, calls
  <1>7. UnansweredIsOver'
    BY <1>3, <1>4 DEF UnansweredIsOver, HistoryOK, Paid, world, calls
  <1>8. RequestIsReserved'
    BY <1>3, RequestStays DEF simulation
  <1>9. QED
    BY <1>5, <1>6, <1>7, <1>8

-----------------------------------------------------------------------------
(* The investigation.                                                      *)

\* A row that is written: nothing but the job, the rows and where the tick stands has moved.
LEMMA RowStep ==
  ASSUME IInv, NEW g \in Findings, NEW new \in Row,
         rows' = [rows EXCEPT ![g] = new], rows[g].status # "NONE", new.status # "NONE", job' \in Job,
         UNCHANGED <<world, order, stored, stop, simulation, breaker, calls>>
  PROVE  TypeOK' /\ HistoryOK' /\ CostIsBounded'
  <1> USE DEF IInv
  <1>1. /\ rows' \in [Findings -> Row] /\ rows'[g] = new
        /\ \A f \in Findings \ {g} : rows'[f] = rows[f]
    BY DEF TypeOK
  <1>2. {f \in Findings : rows'[f].status # "NONE"} = {f \in Findings : rows[f].status # "NONE"}
    BY <1>1
  <1>3. QED
    BY <1>1, <1>2 DEF TypeOK, HistoryOK, CostIsBounded, world, simulation, calls

\* The oldest due row is claimed behind a closed circuit, or settled when it is out of attempts.
LEMMA ClaimStep ==
  ASSUME IInv, Claim
  PROVE  IInv'
  <1> USE DEF IInv
  <1>1. PICK i \in DOMAIN order :
          /\ order[i] \in Due
          /\ IF OutOfAttempts(rows[order[i]])
             THEN /\ rows' = [rows EXCEPT ![order[i]].status = "FAILED"]
                  /\ Goes("prepare")
                  /\ UNCHANGED job
             ELSE /\ rows' = [rows EXCEPT ![order[i]].status = "RUNNING", ![order[i]].attempts = @ + 1]
                  /\ job' = [NoJob EXCEPT !.finding = order[i], !.attempt = rows[order[i]].attempts + 1]
                  /\ Goes("validate")
    BY DEF Claim
  <1> DEFINE f == order[i]
  <1>2. /\ pc = "claim" /\ ~breaker.circuit
        /\ UNCHANGED <<world, order, stored, stop, simulation, breaker, calls>>
    BY DEF Claim
  <1>3. f \in Findings /\ rows[f].status = "PENDING" /\ rows[f] \in Row
    BY <1>1, Typing DEF Due
  <1>4. RequestIsReserved'
    BY <1>1, <1>2, RequestStays DEF simulation, Goes
  <1>5. CASE OutOfAttempts(rows[f])
    <2> DEFINE new == [rows[f] EXCEPT !.status = "FAILED"]
    <2>1. new \in Row /\ new.status = "FAILED"
      BY <1>3 DEF Row, Statuses, Final
    <2>2. rows' = [rows EXCEPT ![f] = new] /\ pc' = "prepare" /\ UNCHANGED job
      BY <1>1, <1>3, <1>5 DEF Goes, Row
    <2> HIDE DEF new
    <2>3. TypeOK' /\ HistoryOK' /\ CostIsBounded'
      BY <1>2, <1>3, <2>1, <2>2, RowStep DEF TypeOK
    <2>4. JobIsRunning' /\ UnansweredIsOver' /\ CircuitIsKept' /\ CallsAccounted'
      BY <1>2, <1>3, <2>1, <2>2 DEF JobIsRunning, UnansweredIsOver, CircuitIsKept, CallsAccounted,
         Unsettled, Holding, Final, Paid, world, calls, TypeOK
    <2>5. QED
      BY <1>4, <2>3, <2>4
  <1>6. CASE ~OutOfAttempts(rows[f])
    <2> DEFINE new == [rows[f] EXCEPT !.status = "RUNNING", !.attempts = @ + 1]
               claimed == [NoJob EXCEPT !.finding = f, !.attempt = rows[f].attempts + 1]
    <2>1. /\ rows[f].attempts \in Nat /\ rows[f].attempts + 1 \in Attempts
          /\ rows[f].attempts + 1 > 0 /\ rows[f].attempts + 1 - 1 = rows[f].attempts
      BY <1>3, <1>6, MonitorAssumption DEF Row, Attempts, OutOfAttempts
    <2>2. new \in Row /\ new.status = "RUNNING" /\ new.attempts = rows[f].attempts + 1
      BY <1>3, <2>1 DEF Row, Statuses
    <2>3. /\ claimed \in Job /\ claimed.finding = f /\ claimed.attempt = rows[f].attempts + 1
          /\ claimed.calls = 0
      <3>1. NoJob \in Job /\ NoJob.calls = 0
        BY MonitorAssumption DEF Job, NoJob, Attempts
      <3>2. QED
        BY <1>3, <2>1, <3>1 DEF Job
    <2>4. rows' = [rows EXCEPT ![f] = new] /\ pc' = "validate" /\ job' = claimed
      BY <1>1, <1>3, <1>6 DEF Goes, Row
    <2> HIDE DEF new, claimed
    <2>5. TypeOK' /\ HistoryOK' /\ CostIsBounded'
      BY <1>2, <1>3, <2>2, <2>3, <2>4, RowStep
    <2>6. /\ rows'[f] = new /\ \A g \in Findings \ {f} : rows'[g] = rows[g]
      BY <1>3, <2>4 DEF TypeOK
    <2>7. JobIsRunning' /\ UnansweredIsOver' /\ CircuitIsKept'
      BY <1>2, <1>3, <2>1, <2>2, <2>3, <2>4, <2>6
      DEF JobIsRunning, UnansweredIsOver, HistoryOK, CircuitIsKept, Unsettled, Holding, Final, Paid, world, calls
    <2>8. CallsAccounted'
      <3>1. submitted[f] \in Nat /\ Allowed(rows[f].attempts) \in Nat
        BY <1>3, <2>1, AllowedCalls DEF HistoryOK
      <3>2. QED
        BY <1>2, <1>3, <2>1, <2>2, <2>3, <2>4, <2>6, <3>1
        DEF CallsAccounted, JobIsRunning, Unsettled, Holding, Paid, world, calls
    <2>9. QED
      BY <1>4, <2>5, <2>7, <2>8
  <1>7. QED
    BY <1>5, <1>6

\* A call is only made with the budget of its attempt.
LEMMA SubmitStep ==
  ASSUME IInv, Submit
  PROVE  IInv'
  <1> USE DEF IInv
  <1>1. /\ pc = "read" /\ Paid /\ job.calls < MaxCalls
        /\ \/ /\ job' = [job EXCEPT !.calls = @ + 1, !.uncertain = TRUE]
              /\ submitted' = [submitted EXCEPT ![job.finding] = @ + 1]
              /\ pc' = "call"
           \/ pc' = "fail" /\ UNCHANGED <<job, submitted>>
        /\ UNCHANGED <<world, ledger, simulation, breaker, unanswered>>
    BY DEF Submit, Goes
  <1>2. /\ job.finding \in Findings /\ rows[job.finding].status = "RUNNING"
        /\ job.finding \notin unanswered /\ ~breaker.circuit
    BY <1>1 DEF JobIsRunning, UnansweredIsOver, CircuitIsKept, Unsettled, Holding
  <1>3. RequestIsReserved'
    BY <1>1, RequestStays DEF simulation
  <1>4. CASE pc' = "fail" /\ UNCHANGED <<job, submitted>>
    <2>1. TypeOK' /\ HistoryOK' /\ CostIsBounded'
      BY <1>1, <1>4 DEF TypeOK, HistoryOK, CostIsBounded, world, ledger, simulation
    <2>2. JobIsRunning' /\ CallsAccounted' /\ CircuitIsKept' /\ UnansweredIsOver'
      BY <1>1, <1>2, <1>4 DEF JobIsRunning, CallsAccounted, CircuitIsKept, UnansweredIsOver,
         HistoryOK, Unsettled, Holding, Paid, world, ledger
    <2>3. QED
      BY <1>3, <2>1, <2>2
  <1>5. CASE /\ job' = [job EXCEPT !.calls = @ + 1, !.uncertain = TRUE]
             /\ submitted' = [submitted EXCEPT ![job.finding] = @ + 1]
             /\ pc' = "call"
    <2> DEFINE new == [job EXCEPT !.calls = @ + 1, !.uncertain = TRUE]
               f == job.finding
    <2>1. job \in Job /\ job.calls \in 0 .. MaxCalls
      BY Typing DEF TypeOK
    <2>2. /\ new \in Job /\ new.calls = job.calls + 1 /\ new.calls > 0 /\ new.uncertain
          /\ new.finding = f /\ new.attempt = job.attempt
      <3>1. /\ job.calls + 1 \in 0 .. MaxCalls /\ job.calls + 1 > 0
        BY <1>1, <2>1, MonitorAssumption
      <3>2. QED
        BY <2>1, <3>1 DEF Job
    <2>3. job' = new
      BY <1>5
    <2> HIDE DEF new
    <2>4. /\ submitted' \in [Findings -> Nat] /\ submitted'[f] = submitted[f] + 1
          /\ \A g \in Findings \ {f} : submitted'[g] = submitted[g]
          /\ submitted[f] \in Nat
      BY <1>2, <1>5 DEF HistoryOK
    <2>5. TypeOK' /\ HistoryOK'
      BY <1>1, <2>2, <2>3, <2>4 DEF TypeOK, HistoryOK, world, ledger, simulation
    <2>6. JobIsRunning' /\ CircuitIsKept' /\ UnansweredIsOver'
      BY <1>1, <1>2, <1>5, <2>2, <2>3 DEF JobIsRunning, CircuitIsKept, UnansweredIsOver,
         HistoryOK, Unsettled, Holding, Paid, world, ledger
    <2>7. /\ rows[f].attempts - 1 \in Nat
          /\ Allowed(rows[f].attempts - 1) \in Nat
          /\ Allowed(rows[f].attempts - 1) + MaxCalls <= MaxCalls * (RetryLimit + 1)
          /\ submitted[f] <= Allowed(rows[f].attempts - 1) + job.calls
      <3>1. rows[f].attempts \in Nat /\ rows[f].attempts > 0
        BY <1>1, <1>2, Typing, MonitorAssumption DEF JobIsRunning, Unsettled, Holding, Attempts
      <3>2. rows[f].attempts - 1 \in Nat
        BY <3>1
      <3>3. QED
        BY <1>1, <1>2, <3>2, AllowedCalls DEF CallsAccounted, Unsettled, Holding
    <2>8. CallsAccounted'
      BY <1>1, <1>2, <1>5, <2>1, <2>2, <2>3, <2>4, <2>7
      DEF CallsAccounted, JobIsRunning, Unsettled, Holding, Paid, world, ledger
    <2>9. CostIsBounded'
      <3>1. submitted[f] + 1 <= MaxCalls * (RetryLimit + 1)
        <4>1. MaxCalls * (RetryLimit + 1) \in Nat
          BY MonitorAssumption
        <4> DEFINE whole == MaxCalls * (RetryLimit + 1)
        <4> HIDE DEF whole
        <4>2. Allowed(rows[f].attempts - 1) + MaxCalls <= whole /\ whole \in Nat
          BY <2>7, <4>1 DEF whole
        <4>3. submitted[f] + 1 <= whole
          BY <1>1, <2>1, <2>4, <2>7, <4>2, MonitorAssumption
        <4>4. QED
          BY <4>3 DEF whole
      <3>2. QED
        BY <1>2, <2>4, <3>1 DEF CostIsBounded
    <2>10. QED
      BY <1>3, <2>5, <2>6, <2>8, <2>9
  <1>6. QED
    BY <1>1, <1>4, <1>5

\* A recorded answer settles the call; an unrecorded one leaves the job uncertain.
LEMMA AnswerStep ==
  ASSUME IInv, Response \/ Refusal
  PROVE  IInv'
  <1> USE DEF IInv
  <1> DEFINE new == [job EXCEPT !.uncertain = FALSE]
  <1>1. /\ pc = "call" /\ pc' \in {"read", "fail"}
        /\ job' = new \/ (pc' = "fail" /\ job' = job)
        /\ UNCHANGED <<world, ledger, simulation, breaker, calls>>
    BY DEF Response, Refusal, Goes
  <1>2. /\ new \in Job /\ new.calls = job.calls /\ new.finding = job.finding
        /\ new.attempt = job.attempt
    BY DEF TypeOK, Job
  <1> HIDE DEF new
  <1>3. TypeOK' /\ HistoryOK' /\ CostIsBounded'
    BY <1>1, <1>2 DEF TypeOK, HistoryOK, CostIsBounded, world, ledger, simulation, calls
  <1>4. JobIsRunning' /\ CallsAccounted' /\ CircuitIsKept'
    BY <1>1, <1>2 DEF JobIsRunning, CallsAccounted, CircuitIsKept, Unsettled, Holding,
                Paid, world, ledger, calls
  <1>5. UnansweredIsOver'
    BY <1>1, <1>2 DEF UnansweredIsOver, JobIsRunning, HistoryOK, Unsettled, Holding, Paid, world, ledger, calls
  <1>6. RequestIsReserved'
    BY <1>1, RequestStays DEF simulation
  <1>7. QED
    BY <1>3, <1>4, <1>5, <1>6

\* A call that nobody answers leaves its job uncertain, or cancelled with a call counted.
LEMMA NoAnswerStep ==
  ASSUME IInv, NoAnswer \/ Cancel
  PROVE  IInv'
  <1> USE DEF IInv
  <1>1. /\ UNCHANGED <<world, ledger, simulation, job, breaker, submitted>>
        /\ \/ /\ pc = "call" /\ unanswered' = unanswered \cup {job.finding}
              /\ pc' \in {"cancelled", "fail"}
           \/ pc = "read" /\ UNCHANGED unanswered /\ pc' = "cancelled"
    BY DEF NoAnswer, Cancel, Goes
  <1>2. /\ job.finding \in Findings /\ rows[job.finding].status = "RUNNING"
        /\ pc = "call" => Paid /\ job.calls > 0 /\ job.uncertain
    BY <1>1 DEF JobIsRunning, Unsettled, Holding
  <1>3. TypeOK' /\ HistoryOK' /\ CostIsBounded'
    BY <1>1, <1>2 DEF TypeOK, HistoryOK, CostIsBounded, world, ledger, simulation
  <1>4. JobIsRunning' /\ CallsAccounted' /\ CircuitIsKept'
    BY <1>1 DEF JobIsRunning, CallsAccounted, CircuitIsKept, Unsettled, Holding,
                Paid, world, ledger
  <1>5. UnansweredIsOver'
    BY <1>1, <1>2 DEF UnansweredIsOver, JobIsRunning, HistoryOK, Unsettled, Holding, Paid, world, ledger
  <1>6. RequestIsReserved'
    BY <1>1, RequestStays DEF simulation
  <1>7. QED
    BY <1>3, <1>4, <1>5, <1>6

\* Settling writes the status of the row that the job holds.
LEMMA Settled ==
  ASSUME IInv, NEW status \in Statuses \ {"NONE"}, NEW due \in BOOLEAN, pc \in Unsettled,
         Settle(status, due)
  PROVE  /\ job.finding \in Findings /\ rows[job.finding].status # "NONE"
         /\ rows'[job.finding] \in Row /\ rows'[job.finding].status = status
         /\ rows'[job.finding].attempts = rows[job.finding].attempts
         /\ rows' = [rows EXCEPT ![job.finding] = rows'[job.finding]]
         /\ \A f \in Findings \ {job.finding} : rows'[f] = rows[f]
  <1> DEFINE f == job.finding
             new == [rows[f] EXCEPT !.status = status, !.due = due]
  <1>1. f \in Findings /\ rows[f] \in Row /\ rows[f].status # "NONE"
    BY Typing DEF IInv, JobIsRunning
  <1>2. new \in Row /\ new.status = status /\ new.attempts = rows[f].attempts
    BY <1>1 DEF Row
  <1>3. rows' = [rows EXCEPT ![f] = new]
    BY <1>1 DEF Settle, Row
  <1> HIDE DEF new
  <1>4. rows'[f] = new /\ \A g \in Findings \ {f} : rows'[g] = rows[g]
    BY <1>1, <1>3 DEF IInv, TypeOK
  <1>5. QED
    BY <1>1, <1>2, <1>3, <1>4

\* A completed investigation is settled, also when its commit only seems to fail.
LEMMA SucceedStep ==
  ASSUME IInv, Succeed
  PROVE  IInv'
  <1> USE DEF IInv
  <1>1. /\ pc = "read" /\ pc \in Unsettled
        /\ \/ Settle("DONE", TRUE) /\ pc' \in {"reset", "fail"}
           \/ pc' = "fail" /\ UNCHANGED rows
        /\ UNCHANGED <<world, order, stored, stop, simulation, job, breaker, calls>>
    BY DEF Succeed, Goes, Unsettled, Holding
  <1>2. RequestIsReserved'
    BY <1>1, RequestStays DEF simulation
  <1>3. job.finding \notin unanswered
    BY <1>1 DEF UnansweredIsOver, JobIsRunning, Unsettled, Holding
  <1>4. CASE UNCHANGED rows
    <2>1. TypeOK' /\ HistoryOK' /\ CostIsBounded'
      BY <1>1, <1>4 DEF TypeOK, HistoryOK, CostIsBounded, world, simulation, calls
    <2>2. JobIsRunning' /\ CallsAccounted' /\ CircuitIsKept' /\ UnansweredIsOver'
      <3>1. pc' = "fail" \/ rows[job.finding].status = "DONE"
        BY <1>1, <1>4, Settled DEF Statuses, Final
      <3>2. rows[job.finding].status = "RUNNING"
        BY <1>1 DEF JobIsRunning, Unsettled, Holding
      <3>3. QED
        BY <1>1, <1>3, <1>4, <3>1, <3>2 DEF JobIsRunning, CallsAccounted, CircuitIsKept, UnansweredIsOver,
           HistoryOK, Unsettled, Holding, Paid, world, calls
    <2>3. QED
      BY <1>2, <2>1, <2>2
  <1>5. CASE Settle("DONE", TRUE) /\ pc' \in {"reset", "fail"}
    <2> DEFINE f == job.finding
    <2>1. /\ f \in Findings /\ rows[f].status # "NONE"
          /\ rows'[f] \in Row /\ rows'[f].status = "DONE"
          /\ rows'[f].attempts = rows[f].attempts
          /\ rows' = [rows EXCEPT ![f] = rows'[f]]
          /\ \A g \in Findings \ {f} : rows'[g] = rows[g]
      BY <1>1, <1>5, Settled DEF Statuses, Final
    <2>2. TypeOK' /\ HistoryOK' /\ CostIsBounded'
      BY <1>1, <2>1, RowStep DEF TypeOK
    <2>3. JobIsRunning' /\ CallsAccounted' /\ CircuitIsKept'
      BY <1>1, <1>5, <2>1 DEF JobIsRunning, CallsAccounted, CircuitIsKept,
         Unsettled, Holding, Paid, world, calls
    <2>4. UnansweredIsOver'
      BY <1>1, <1>3, <1>5, <2>1 DEF UnansweredIsOver, JobIsRunning, HistoryOK, Unsettled, Holding, Final, Paid, world, calls
    <2>5. QED
      BY <1>2, <2>2, <2>3, <2>4
  <1>6. QED
    BY <1>1, <1>4, <1>5

\* After a success the failures in a row start again.
LEMMA ResetStep ==
  ASSUME IInv, ResetCircuit
  PROVE  IInv'
  <1> USE DEF IInv
  <1> DEFINE new == [breaker EXCEPT !.failures = 0]
  <1>1. /\ pc = "reset" /\ pc' = "prepare" /\ stored' = Closed /\ job' = NoJob /\ breaker' = new
        /\ missed' = FALSE /\ UNCHANGED <<mode, detected, changed, constructed, rows, order, stop, simulation, calls>>
    BY DEF ResetCircuit, Goes
  <1>2. breaker \in Breakers /\ Closed \in Breakers /\ NoJob \in Job
    BY MonitorAssumption DEF TypeOK, Breakers, Closed, Job, NoJob, Attempts
  <1>3. new \in Breakers /\ new.failures = 0 /\ new.circuit = breaker.circuit
    BY <1>2, MonitorAssumption DEF Breakers
  <1> HIDE DEF new
  <1>4. TypeOK' /\ HistoryOK' /\ CostIsBounded'
    BY <1>1, <1>2, <1>3 DEF TypeOK, HistoryOK, CostIsBounded, simulation, calls
  <1>5. JobIsRunning' /\ CallsAccounted' /\ UnansweredIsOver'
    BY <1>1 DEF JobIsRunning, CallsAccounted, UnansweredIsOver, HistoryOK,
       Unsettled, Holding, Paid, calls
  <1>6. CircuitIsKept'
    BY <1>1, <1>3, MonitorAssumption DEF CircuitIsKept, Unsettled, Holding, Closed
  <1>7. RequestIsReserved'
    BY <1>1, RequestStays DEF simulation
  <1>8. QED
    BY <1>4, <1>5, <1>6, <1>7

\* A failure is counted; a retry is due to a job that is not uncertain and not the last.
LEMMA FailStep ==
  ASSUME IInv, Fail
  PROVE  IInv'
  <1> USE DEF IInv
  <1>1. pc = "fail" /\ UNCHANGED <<world, order, stored, stop, enabled, sim, handled, submitted>>
    BY DEF Fail
  <1>2. CASE rows[job.finding].status # "RUNNING" /\ Stops /\ UNCHANGED rows
    BY <1>1, <1>2, StopsStep DEF ledger
  <1>3. CASE /\ rows[job.finding].status = "RUNNING"
             /\ IF Retries THEN Settle("PENDING", FALSE) ELSE Settle("FAILED", TRUE)
             /\ breaker' = [breaker EXCEPT !.failures = @ + 1]
             /\ pc' = "account"
             /\ UNCHANGED <<job, request, unanswered>>
    <2> DEFINE f == job.finding
               new == [breaker EXCEPT !.failures = @ + 1]
    <2>1. /\ f \in Findings /\ rows[f].status # "NONE" /\ rows'[f] \in Row
          /\ rows'[f].status = IF Retries THEN "PENDING" ELSE "FAILED"
          /\ rows'[f].attempts = rows[f].attempts
          /\ rows' = [rows EXCEPT ![f] = rows'[f]]
          /\ \A g \in Findings \ {f} : rows'[g] = rows[g]
      <3>1. pc \in Unsettled
        BY <1>1 DEF Unsettled
      <3>2. CASE Retries
        BY <1>3, <3>1, <3>2, Settled DEF Statuses
      <3>3. CASE ~Retries
        BY <1>3, <3>1, <3>3, Settled DEF Statuses, Final
      <3>4. QED
        BY <3>2, <3>3
    <2>2. breaker \in Breakers /\ ~breaker.circuit /\ breaker.failures < CircuitFailures
      BY <1>1 DEF TypeOK, CircuitIsKept, Unsettled
    <2>3. new \in Breakers /\ new.circuit = breaker.circuit
      BY <2>2, MonitorAssumption DEF Breakers
    <2>4. breaker' = new
      BY <1>3
    <2> HIDE DEF new
    <2>5. TypeOK' /\ HistoryOK' /\ CostIsBounded'
      <3>1. rows' \in [Findings -> Row]
        BY <2>1 DEF TypeOK
      <3>2. {g \in Findings : rows'[g].status # "NONE"} = {g \in Findings : rows[g].status # "NONE"}
        BY <2>1
      <3>3. QED
        BY <1>1, <1>3, <2>3, <2>4, <3>1, <3>2 DEF TypeOK, HistoryOK, CostIsBounded, world
    <2>6. JobIsRunning' /\ CircuitIsKept'
      BY <1>1, <1>3, <2>1, <2>2, <2>3, <2>4 DEF JobIsRunning, CircuitIsKept, Unsettled, Holding, Paid, world
    <2>7. UnansweredIsOver'
      BY <1>1, <1>3, <2>1 DEF UnansweredIsOver, JobIsRunning, HistoryOK, Retries, Final, Unsettled, Holding, Paid, world
    <2>8. CallsAccounted'
      <3>1. /\ rows[f].attempts = job.attempt /\ job.attempt \in Nat /\ job.attempt > 0
            /\ submitted[f] \in Nat /\ job.calls \in 0 .. MaxCalls
        BY <1>1, <2>1, Typing, MonitorAssumption DEF JobIsRunning, Unsettled, Attempts, HistoryOK
      <3> DEFINE before == job.attempt - 1
      <3>2. before \in Nat /\ before + 1 = job.attempt
        BY <3>1
      <3> HIDE DEF before
      <3>3. Retries => Allowed(before) + MaxCalls = Allowed(job.attempt) /\ Allowed(before) \in Nat
        BY <3>1, <3>2, AllowedCalls, MonitorAssumption DEF Retries
      <3>4. submitted[f] <= Allowed(before) + job.calls
        BY <1>1, <1>3, <2>1, <3>1 DEF CallsAccounted, Unsettled, before
      <3>5. Retries => submitted[f] <= Allowed(job.attempt)
        BY <3>1, <3>3, <3>4, MonitorAssumption
      <3>6. QED
        BY <1>1, <1>3, <2>1, <3>1, <3>5 DEF CallsAccounted, JobIsRunning, Unsettled, Holding, Paid, world
    <2>9. RequestIsReserved'
      BY <1>1, <1>3, RequestStays
    <2>10. QED
      BY <2>5, <2>6, <2>7, <2>8, <2>9
  <1>4. QED
    BY <1>2, <1>3 DEF Fail, Goes

\* The last of too many failures opens the circuit, in memory and in the ledger.
LEMMA AccountStep ==
  ASSUME IInv, AccountFailure
  PROVE  IInv'
  <1> USE DEF IInv
  <1> DEFINE new == [breaker EXCEPT !.circuit = breaker.failures >= CircuitFailures]
  <1>1. /\ pc = "account" /\ pc' = "prepare" /\ breaker' = new /\ stored' = new /\ job' = NoJob
        /\ missed' = FALSE /\ UNCHANGED <<mode, detected, changed, constructed, rows, order, stop, simulation, calls>>
    BY DEF AccountFailure, Goes
  <1>2. breaker \in Breakers /\ NoJob \in Job
    BY MonitorAssumption DEF TypeOK, Job, NoJob, Attempts
  <1>3. /\ new \in Breakers /\ new.failures = breaker.failures
        /\ ~new.circuit => new.failures < CircuitFailures
    <2>1. breaker.failures \in Int /\ CircuitFailures \in Int
      BY <1>2, MonitorAssumption DEF Breakers
    <2>2. CASE breaker.failures >= CircuitFailures
      <3>1. new = [breaker EXCEPT !.circuit = TRUE]
        BY <2>2
      <3>2. QED
        BY <1>2, <3>1 DEF Breakers
    <2>3. CASE ~(breaker.failures >= CircuitFailures)
      <3>1. breaker.failures < CircuitFailures
        BY <2>1, <2>3
      <3>2. (breaker.failures >= CircuitFailures) = FALSE
        BY <2>3
      <3>3. new = [breaker EXCEPT !.circuit = FALSE]
        BY <3>2
      <3>4. QED
        BY <1>2, <3>1, <3>3 DEF Breakers
    <2>4. QED
      BY <2>2, <2>3
  <1> HIDE DEF new
  <1>4. TypeOK' /\ HistoryOK' /\ CostIsBounded'
    BY <1>1, <1>2, <1>3 DEF TypeOK, HistoryOK, CostIsBounded, simulation, calls
  <1>5. JobIsRunning' /\ CallsAccounted' /\ UnansweredIsOver' /\ CircuitIsKept'
    BY <1>1, <1>3 DEF JobIsRunning, CallsAccounted, UnansweredIsOver, HistoryOK, CircuitIsKept,
       Unsettled, Holding, Paid, calls
  <1>6. RequestIsReserved'
    BY <1>1, RequestStays DEF simulation
  <1>7. QED
    BY <1>4, <1>5, <1>6

\* A cancelled investigation that called a model is never run again.
LEMMA FinishCancelledStep ==
  ASSUME IInv, FinishCancelled
  PROVE  IInv'
  <1> USE DEF IInv
  <1> DEFINE f == job.finding
  <1>1. /\ pc = "cancelled" /\ pc \in Unsettled
        /\ Settle(IF job.calls > 0 THEN "BLOCKED" ELSE "PENDING", TRUE)
        /\ pc' = "stopped" /\ job' = NoJob /\ breaker' = Closed /\ request' = NoRequest
        /\ UNCHANGED <<world, order, stored, stop, enabled, sim, handled, calls>>
    BY DEF FinishCancelled, Stops, Unsettled, Holding, calls
  <1>2. /\ f \in Findings /\ rows[f].status # "NONE" /\ rows'[f] \in Row
        /\ rows'[f].status = IF job.calls > 0 THEN "BLOCKED" ELSE "PENDING"
        /\ rows'[f].attempts = rows[f].attempts
        /\ rows' = [rows EXCEPT ![f] = rows'[f]]
        /\ \A g \in Findings \ {f} : rows'[g] = rows[g]
    <2>1. CASE job.calls > 0
      BY <1>1, <2>1, Settled DEF Statuses, Final
    <2>2. CASE ~(job.calls > 0)
      BY <1>1, <2>2, Settled DEF Statuses
    <2>3. QED
      BY <2>1, <2>2
  <1>3. TypeOK' /\ HistoryOK' /\ CostIsBounded'
    <2>1. rows' \in [Findings -> Row]
      BY <1>2 DEF TypeOK
    <2>2. {g \in Findings : rows'[g].status # "NONE"} = {g \in Findings : rows[g].status # "NONE"}
      BY <1>2
    <2>3. Closed \in Breakers /\ NoJob \in Job
      BY MonitorAssumption DEF Breakers, Closed, Job, NoJob, Attempts
    <2>4. QED
      BY <1>1, <2>1, <2>2, <2>3 DEF TypeOK, HistoryOK, CostIsBounded, NoRequest, world, calls
  <1>4. JobIsRunning'
    BY <1>1 DEF JobIsRunning, Unsettled, Holding
  <1>5. UnansweredIsOver'
    BY <1>1, <1>2 DEF UnansweredIsOver, JobIsRunning, HistoryOK, Final, Paid, world, calls
  <1>6. CircuitIsKept'
    BY <1>1, MonitorAssumption DEF CircuitIsKept, Unsettled, Holding, Closed, world
  <1>7. CallsAccounted'
    <2>1. /\ rows[f].attempts \in Nat /\ rows[f].attempts > 0 /\ submitted[f] \in Nat
          /\ job.calls \in 0 .. MaxCalls
      BY <1>1, <1>2, Typing, MonitorAssumption DEF JobIsRunning, Attempts, HistoryOK
    <2> DEFINE before == rows[f].attempts - 1
    <2>2. before \in Nat /\ before + 1 = rows[f].attempts
      BY <2>1
    <2> HIDE DEF before
    <2>3. /\ Allowed(before) \in Nat /\ Allowed(rows[f].attempts) \in Nat
          /\ Allowed(before) <= Allowed(rows[f].attempts)
      BY <2>1, <2>2, AllowedCalls
    <2>4. rows[f].status = "RUNNING" /\ submitted[f] <= Allowed(before) + job.calls
      BY <1>1, <1>2 DEF CallsAccounted, JobIsRunning, before
    <2>5. ~(job.calls > 0) => submitted[f] <= Allowed(rows[f].attempts)
      BY <2>1, <2>3, <2>4, MonitorAssumption
    <2>6. QED
      BY <1>1, <1>2, <2>5 DEF CallsAccounted, Unsettled, Holding, Paid, world, calls
  <1>8. RequestIsReserved'
    BY <1>1 DEF RequestIsReserved, NoRequest
  <1>9. QED
    BY <1>3, <1>4, <1>5, <1>6, <1>7, <1>8

-----------------------------------------------------------------------------
(* The simulated response.                                                 *)

\* Steps of the requests leave the jobs as they were.
LEMMA JobsStay ==
  ASSUME IInv, UNCHANGED <<world, ledger, pc, job, breaker, calls>>,
         enabled' = enabled, handled' \in [Findings -> 0..1],
         sim' \in [Findings -> {"NONE", "PENDING_REVIEW", "APPROVED", "REJECTED", "STARTED",
                                "SIMULATED", "UNCERTAIN"}],
         request' \in [finding : Findings \cup {NoFinding}, at : {"none", "reserved", "handled"}]
  PROVE  /\ TypeOK' /\ HistoryOK' /\ JobIsRunning' /\ UnansweredIsOver' /\ CircuitIsKept'
         /\ CallsAccounted' /\ CostIsBounded'
  <1> USE DEF IInv
  <1>1. TypeOK' /\ HistoryOK' /\ CostIsBounded'
    BY DEF TypeOK, HistoryOK, CostIsBounded, world, ledger, calls
  <1>2. JobIsRunning' /\ UnansweredIsOver' /\ CircuitIsKept' /\ CallsAccounted'
    BY DEF JobIsRunning, UnansweredIsOver, CircuitIsKept, CallsAccounted, Paid, world, ledger, calls
  <1>3. QED
    BY <1>1, <1>2

\* A record for review, or evidence that changed ends the process.
LEMMA PrepareStep ==
  ASSUME IInv, Prepare
  PROVE  IInv'
  <1> USE DEF IInv
  <1>1. PICK f \in Unrequested :
          \/ /\ sim' = [sim EXCEPT ![f] = "PENDING_REVIEW"]
             /\ UNCHANGED <<pc, job, breaker, request, unanswered>>
          \/ Stops /\ UNCHANGED sim
    BY DEF Prepare
  <1>2. pc = "prepare" /\ UNCHANGED <<world, ledger, enabled, handled, submitted>>
    BY DEF Prepare
  <1>3. CASE Stops /\ UNCHANGED sim
    BY <1>2, <1>3, StopsStep
  <1>4. CASE /\ sim' = [sim EXCEPT ![f] = "PENDING_REVIEW"]
             /\ UNCHANGED <<pc, job, breaker, request, unanswered>>
    <2>1. f \in Findings /\ sim[f] = "NONE"
      BY DEF Unrequested
    <2>2. RequestIsReserved'
      BY <1>2, <1>4, <2>1 DEF RequestIsReserved, TypeOK
    <2>3. QED
      BY <1>2, <1>4, <2>1, <2>2, JobsStay DEF TypeOK, HistoryOK, calls
  <1>5. QED
    BY <1>1, <1>3, <1>4

\* A review, a reservation, a handler call, a receipt and an abandoned request.
LEMMA RequestStep ==
  ASSUME IInv, Handle \/ Complete \/ GiveUp \/ \E f \in Findings : Review(f) \/ Reserve(f)
  PROVE  IInv'
  <1> USE DEF IInv
  <1>1. UNCHANGED <<world, ledger, enabled, pc, job, breaker, calls>>
    BY DEF Handle, Complete, GiveUp, Review, Reserve
  <1>2. SUFFICES /\ RequestIsReserved' /\ handled' \in [Findings -> 0..1]
                 /\ sim' \in [Findings -> {"NONE", "PENDING_REVIEW", "APPROVED", "REJECTED",
                                           "STARTED", "SIMULATED", "UNCERTAIN"}]
                 /\ request' \in [finding : Findings \cup {NoFinding},
                                  at : {"none", "reserved", "handled"}]
    BY <1>1, JobsStay
  <1>3. pc \notin {"recover", "recover_simulation"}
    BY DEF Handle, Complete, GiveUp, Review, Reserve, MayRequest, Yields
  <1> USE DEF TypeOK, HistoryOK
  <1>4. CASE Handle
    <2> DEFINE f == request.finding
    <2>1. f \in Findings /\ sim[f] = "STARTED" /\ handled[f] = 0
      BY <1>4 DEF Handle, RequestIsReserved
    <2>2. /\ handled' = [handled EXCEPT ![f] = 1] /\ UNCHANGED sim
          /\ request' = [request EXCEPT !.at = "handled"]
      BY <1>4, <2>1 DEF Handle
    <2>3. request'.at = "handled" /\ request'.finding = f
      BY <2>2
    <2>4. RequestIsReserved'
      BY <1>1, <1>3, <2>1, <2>2, <2>3 DEF RequestIsReserved
    <2>5. request' \in [finding : Findings \cup {NoFinding}, at : {"none", "reserved", "handled"}]
      BY <2>2
    <2>6. handled' \in [Findings -> 0..1]
      BY <2>1, <2>2
    <2>7. QED
      BY <2>2, <2>4, <2>5, <2>6
  <1>5. CASE Complete
    <2> DEFINE f == request.finding
    <2>1. f \in Findings /\ handled[f] = 1
      BY <1>5 DEF Complete, RequestIsReserved
    <2>2. sim' = [sim EXCEPT ![f] = "SIMULATED"] /\ request' = NoRequest /\ UNCHANGED handled
      BY <1>5 DEF Complete
    <2>3. QED
      BY <2>1, <2>2 DEF RequestIsReserved, NoRequest
  <1>6. CASE GiveUp
    BY <1>6 DEF GiveUp, RequestIsReserved, NoRequest
  <1>7. ASSUME NEW f \in Findings, Review(f)
        PROVE  /\ RequestIsReserved' /\ handled' \in [Findings -> 0..1]
               /\ sim' \in [Findings -> {"NONE", "PENDING_REVIEW", "APPROVED", "REJECTED",
                                         "STARTED", "SIMULATED", "UNCERTAIN"}]
               /\ request' \in [finding : Findings \cup {NoFinding},
                                at : {"none", "reserved", "handled"}]
    <2>1. /\ request = NoRequest /\ UNCHANGED <<request, handled>> /\ sim[f] = "PENDING_REVIEW"
          /\ \E decision \in {"APPROVED", "REJECTED"} : sim' = [sim EXCEPT ![f] = decision]
      BY <1>7 DEF Review, MayRequest
    <2>2. QED
      BY <1>7, <2>1 DEF RequestIsReserved, NoRequest
  <1>8. ASSUME NEW f \in Findings, Reserve(f)
        PROVE  /\ RequestIsReserved' /\ handled' \in [Findings -> 0..1]
               /\ sim' \in [Findings -> {"NONE", "PENDING_REVIEW", "APPROVED", "REJECTED",
                                         "STARTED", "SIMULATED", "UNCERTAIN"}]
               /\ request' \in [finding : Findings \cup {NoFinding},
                                at : {"none", "reserved", "handled"}]
    <2>1. /\ sim[f] = "APPROVED" /\ sim' = [sim EXCEPT ![f] = "STARTED"] /\ UNCHANGED handled
          /\ request' \in {NoRequest, [finding |-> f, at |-> "reserved"]}
      BY <1>8 DEF Reserve
    <2>2. handled[f] = 0
      BY <1>8, <2>1 DEF RequestIsReserved
    <2>3. RequestIsReserved'
      BY <1>1, <1>3, <1>8, <2>1, <2>2 DEF RequestIsReserved, NoRequest
    <2>4. QED
      BY <1>8, <2>1, <2>3 DEF NoRequest
  <1>9. QED
    BY <1>4, <1>5, <1>6, <1>7, <1>8

-----------------------------------------------------------------------------
(* The theorems.                                                           *)

\* Every step preserves the inductive invariant.
LEMMA NextInvariant == IInv /\ [Next]_vars => IInv'
  <1> SUFFICES ASSUME IInv, [Next]_vars
               PROVE  IInv'
    OBVIOUS
  <1>1. ASSUME Dies \/ StopBetweenTicks
        PROVE  IInv'
    BY <1>1, StopsStep DEF Dies, StopBetweenTicks
  <1>2. CASE Operate
    BY <1>2, FlagStep, RequestStep DEF Operate
  <1>3. CASE Investigate
    BY <1>3, QuietStep, ClaimStep, SubmitStep, AnswerStep, NoAnswerStep, SucceedStep, ResetStep,
       FailStep, AccountStep, FinishCancelledStep DEF Investigate
  <1>4. CASE Tick
    BY <1>1, <1>3, <1>4, RecoverStep, RecoverSimulationStep, CollectStep, QuietStep, PutStep,
       PrepareStep DEF Tick
  <1>5. CASE UNCHANGED vars
    BY <1>5 DEF vars, world, ledger, simulation, calls, IInv, TypeOK, HistoryOK, JobIsRunning,
       UnansweredIsOver, CircuitIsKept, CallsAccounted, CostIsBounded, RequestIsReserved, Paid
  <1>6. QED
    BY <1>1, <1>2, <1>4, <1>5, ConstructStep, StartStep, FlagStep, NoAnswerStep, BackoffStep DEF Next

\* The inductive invariant of the monitor's ledger and process.
THEOREM Invariance == Spec => []IInv
  BY InitInvariant, NextInvariant, PTL DEF Spec

\* The ledger and the process hold values of their types (RuntimeStore).
THEOREM TypeCorrectness == Spec => []TypeOK
  <1>1. IInv => TypeOK
    BY DEF IInv
  <1>2. QED
    BY <1>1, Invariance, PTL

\* A finding costs at most the calls of RetryLimit + 1 attempts (RuntimeStore.claim, finish).
THEOREM BoundedCost == Spec => []CostIsBounded
  <1>1. IInv => CostIsBounded
    BY DEF IInv
  <1>2. QED
    BY <1>1, Invariance, PTL

\* No call for a finding with an unanswered one, and none behind the stored open circuit,
\* except by a monitor that was constructed before another one opened it (BudgetClient,
\* LinuxMonitor.__init__ and investigate_one).
THEOREM JustifiedCalls == Spec => CallsAreJustified
  <1>1. ASSUME IInv, [Next]_vars, NEW f \in Findings, submitted'[f] # submitted[f]
        PROVE  f \notin unanswered /\ (stored.circuit => missed)
    <2>1. Submit
      BY <1>1 DEF Next, Construct, Start, RequestStop, Dies, Cancel, Tick, Operate, BackoffPasses, Recover,
         RecoverSimulation, StopBetweenTicks, Collect, Correlate, Put, AllPut, Investigate, Prepare,
         TickEnds, NothingToInvestigate, Claim, ValidateSource, Response, Refusal, NoAnswer,
         ReadFails, Succeed, ResetCircuit, Fail, AccountFailure, FinishCancelled, SetEnabled,
         Handle, Complete, GiveUp, Review, Reserve, vars, calls
    <2>2. pc = "read" /\ f = job.finding
      BY <1>1, <2>1 DEF Submit, IInv, HistoryOK
    <2>3. QED
      BY <1>1, <2>2 DEF IInv, JobIsRunning, UnansweredIsOver, CircuitIsKept, Unsettled, Holding
  <1>2. IInv /\ [Next]_vars =>
          [\A f \in Findings :
             submitted'[f] # submitted[f] => f \notin unanswered /\ (stored.circuit => missed)]_vars
    BY <1>1
  <1>3. QED
    BY <1>2, Invariance, PTL DEF Spec, CallsAreJustified

-----------------------------------------------------------------------------
(* The simulated response implements OneShotDispatch.                      *)

VerdictOf == [f \in Findings |-> Verdict(f)]
AuthorOf == [f \in Findings |-> VerdictBy(f)]

\* The verdict of a finding, by the status of its record.
LEMMA VerdictIs ==
  /\ \A f : sim[f] = "SIMULATED" => Verdict(f) = "succeeded" /\ VerdictBy(f) = "program"
  /\ \A f : sim[f] = "REJECTED" => Verdict(f) = "failed" /\ VerdictBy(f) = "program"
  /\ \A f : sim[f] \notin {"SIMULATED", "REJECTED"} => Verdict(f) = "open" /\ VerdictBy(f) = "nobody"
  BY DEF Verdict, VerdictBy

\* A new status that is no other verdict is invisible.
LEMMA Invisible ==
  ASSUME UNCHANGED handled,
         \A f \in Findings : sim'[f] = sim[f]
                            \/ {sim[f], sim'[f]} \cap {"SIMULATED", "REJECTED"} = {}
  PROVE  UNCHANGED <<handled, VerdictOf, AuthorOf>>
  <1>1. \A f \in Findings : Verdict(f)' = Verdict(f) /\ VerdictBy(f)' = VerdictBy(f)
    BY DEF Verdict, VerdictBy
  <1>2. QED
    BY <1>1 DEF VerdictOf, AuthorOf

\* A rejection and a receipt settle their finding.
LEMMA Visible ==
  ASSUME IInv, NEW f \in Findings, NEW status \in {"SIMULATED", "REJECTED"},
         sim[f] \notin {"SIMULATED", "REJECTED"}, sim' = [sim EXCEPT ![f] = status],
         UNCHANGED handled, status = "SIMULATED" => handled[f] > 0
  PROVE  Promised!Next
  <1> DEFINE v == IF status = "SIMULATED" THEN "succeeded" ELSE "failed"
  <1>1. sim'[f] = status /\ \A g \in Findings \ {f} : sim'[g] = sim[g]
    BY DEF IInv, TypeOK
  <1>2. /\ Verdict(f)' = v /\ VerdictBy(f)' = "program" /\ Verdict(f) = "open"
        /\ \A g \in Findings \ {f} : Verdict(g)' = Verdict(g) /\ VerdictBy(g)' = VerdictBy(g)
    BY <1>1 DEF Verdict, VerdictBy
  <1>3. /\ VerdictOf' = [VerdictOf EXCEPT ![f] = v] /\ AuthorOf' = [AuthorOf EXCEPT ![f] = "program"]
        /\ VerdictOf[f] = "open"
    BY <1>2 DEF VerdictOf, AuthorOf
  <1>4. Promised!Settle(f, v, "program")
    BY <1>3 DEF Promised!Settle, VerdictOf, AuthorOf
  <1>5. QED
    BY <1>4 DEF Promised!Next

\* Every step of the monitor is a Fire, a Settle or invisible to the promise.
LEMMA StepSimulates ==
  ASSUME IInv, [Next]_vars
  PROVE  Promised!Next \/ UNCHANGED <<handled, VerdictOf, AuthorOf>>
  <1> USE DEF IInv
  <1>1. ASSUME UNCHANGED <<sim, handled>>
        PROVE  UNCHANGED <<handled, VerdictOf, AuthorOf>>
    BY <1>1, Invisible
  <1>2. CASE RecoverSimulation
    BY <1>2, Invisible DEF RecoverSimulation, RecoveredRecord
  <1>3. CASE Prepare
    <2>1. UNCHANGED handled /\ \A f \in Findings :
            sim'[f] = sim[f] \/ (sim[f] = "NONE" /\ sim'[f] = "PENDING_REVIEW")
      BY <1>3 DEF Prepare, Unrequested, TypeOK
    <2>2. QED
      BY <2>1, Invisible
  <1>4. ASSUME NEW f \in Findings, Review(f)
        PROVE  Promised!Next \/ UNCHANGED <<handled, VerdictOf, AuthorOf>>
    <2>1. PICK decision \in {"APPROVED", "REJECTED"} : sim' = [sim EXCEPT ![f] = decision]
      BY <1>4 DEF Review
    <2>2. UNCHANGED handled /\ sim[f] = "PENDING_REVIEW"
      BY <1>4 DEF Review
    <2>3. CASE decision = "APPROVED"
      <3>1. \A g \in Findings :
              sim'[g] = sim[g] \/ (sim[g] = "PENDING_REVIEW" /\ sim'[g] = "APPROVED")
        BY <2>1, <2>2, <2>3 DEF TypeOK
      <3>2. QED
        BY <2>2, <3>1, Invisible
    <2>4. CASE decision = "REJECTED"
      BY <2>1, <2>2, <2>4, Visible
    <2>5. QED
      BY <2>3, <2>4
  <1>5. ASSUME NEW f \in Findings, Reserve(f)
        PROVE  UNCHANGED <<handled, VerdictOf, AuthorOf>>
    <2>1. UNCHANGED handled /\ \A g \in Findings :
            sim'[g] = sim[g] \/ (sim[g] = "APPROVED" /\ sim'[g] = "STARTED")
      BY <1>5 DEF Reserve, TypeOK
    <2>2. QED
      BY <2>1, Invisible
  <1>6. CASE Handle
    <2> DEFINE f == request.finding
    <2>1. /\ f \in Findings /\ sim[f] = "STARTED" /\ handled[f] = 0
          /\ handled' = [handled EXCEPT ![f] = 1] /\ UNCHANGED sim
      <3>1. f \in Findings /\ sim[f] = "STARTED" /\ handled[f] = 0
        BY <1>6 DEF Handle, RequestIsReserved
      <3>2. QED
        BY <1>6, <3>1 DEF Handle
    <2>2. AuthorOf[f] # "program" /\ UNCHANGED <<VerdictOf, AuthorOf>>
      BY <2>1, VerdictIs DEF AuthorOf, VerdictOf, Verdict, VerdictBy
    <2>3. Promised!Fire(f)
      BY <2>1, <2>2 DEF Promised!Fire, AuthorOf, VerdictOf
    <2>4. QED
      BY <2>1, <2>3 DEF Promised!Next
  <1>7. CASE Complete
    <2> DEFINE f == request.finding
    <2>1. /\ f \in Findings /\ sim[f] = "STARTED" /\ handled[f] = 1
          /\ sim' = [sim EXCEPT ![f] = "SIMULATED"] /\ UNCHANGED handled
      BY <1>7 DEF Complete, RequestIsReserved
    <2>2. handled[f] > 0 /\ sim[f] \notin {"SIMULATED", "REJECTED"}
      BY <2>1
    <2>3. QED
      BY <2>1, <2>2, Visible
  <1>8. QED
    BY <1>1, <1>2, <1>3, <1>4, <1>5, <1>6, <1>7
    DEF Next, Construct, Start, RequestStop, Dies, Cancel, Tick, Operate, BackoffPasses, Recover,
        StopBetweenTicks, Collect, Correlate, Put, AllPut, Investigate, TickEnds,
        NothingToInvestigate, Claim, ValidateSource, Submit, Response, Refusal, NoAnswer,
        ReadFails, Succeed, ResetCircuit, Fail, AccountFailure, FinishCancelled, SetEnabled,
        GiveUp, vars, simulation

\* The simulated response implements OneShotDispatch: its handler runs at most once, never
\* after a rejection, and SIMULATED is only said of a handler that ran.
THEOREM Refinement == Spec => SimulatedOnce
  <1>1. Init => Promised!Init
    BY VerdictIs DEF Init, Promised!Init
  <1>2. IInv /\ [Next]_vars => [Promised!Next]_(Promised!abstract)
    <2>1. Promised!abstract = <<handled, VerdictOf, AuthorOf>>
      BY DEF Promised!abstract, VerdictOf, AuthorOf
    <2>2. Promised!abstract' = <<handled, VerdictOf, AuthorOf>>'
      BY DEF Promised!abstract, VerdictOf, AuthorOf
    <2>3. QED
      BY <2>1, <2>2, StepSimulates
  <1>3. QED
    BY <1>1, <1>2, Invariance, PTL DEF Spec, SimulatedOnce, Promised!Spec
=============================================================================

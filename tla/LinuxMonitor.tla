---------------------------- MODULE LinuxMonitor ----------------------------
(***************************************************************************)
(* The Linux monitor (src/soc_agent/linux_runtime): a tick collects native *)
(* events, records the findings they correlate to, investigates one of     *)
(* them, with at most two paid model calls, behind a circuit breaker, and  *)
(* prepares completed ones for the simulated response that a local         *)
(* operator reviews and executes.                                          *)
(*                                                                         *)
(* One process under writer.lock owns the ledger, but every process reads  *)
(* the stored circuit before it asks for the lock.  Operator requests run  *)
(* in the event loop of the monitor, wherever the tick awaits, or from the *)
(* command line while none runs.  The provider and the ledger share no     *)
(* transaction: the process may die, or a commit may fail, around a call.  *)
(* A failed commit whose error ends the process is Dies before or after    *)
(* the step; the other failed commits are alternatives of their step.      *)
(***************************************************************************)
EXTENDS Integers, Sequences, FiniteSets, SequencesExt

CONSTANTS
  Findings,         \* what correlation can report, by its stable key
  NoFinding,        \* what the process holds between two claims
  PendingLimit,     \* findings that may wait or run, 128 in the code
  RetryLimit,       \* investigation_retry_limit
  MaxCalls,         \* max_llm_calls: one plan and one assessment
  CircuitFailures,  \* failures in a row that open the circuit
  MaxConstructed,   \* bound: different breakers that constructed monitors hold at once
  MaxReviews        \* bound: findings whose response is reviewed

ASSUME MonitorAssumption ==
  /\ NoFinding \notin Findings
  /\ {PendingLimit, MaxCalls, CircuitFailures, MaxConstructed, MaxReviews} \subseteq Nat \ {0}
  /\ RetryLimit \in Nat

VARIABLES
  mode,      \* assessment_mode: REAL_LLM, or READ_ONLY for the modes without a model
  detected,  \* the findings the accepted events correlate to so far
  changed,   \* the investigated findings whose evidence windows have changed since
  rows,      \* monitor_findings: status, attempts and whether next_attempt is due
  order,     \* the findings in rowid order
  stored,    \* monitor_state: failures and circuit
  stop,      \* monitor_state.stop_requested
  enabled,   \* the latest SIMULATION_MODE_SET
  sim,       \* the latest SIMULATION_RECORD of a finding
  pc,        \* where the tick stands
  job,       \* the claimed finding, its attempt, calls and invocation_uncertain
  breaker,   \* llm_failures and circuit_open in memory
  request,   \* the simulation request being executed: its finding and where it stands
  constructed \* what the monitors that may still ask for the lock have read of stored

VARIABLES    \* for the properties
  submitted,   \* model calls made for a finding
  unanswered,  \* the findings with a call whose outcome nobody knows
  handled,     \* simulation handler calls of a finding
  missed       \* the monitor read a closed circuit that was open when it took the lock

ledger == <<rows, order, stored, stop>>
simulation == <<enabled, sim, request, handled>>
world == <<mode, detected, changed, constructed, missed>>
calls == <<submitted, unanswered>>
vars == <<world, ledger, simulation, pc, job, breaker, calls>>

-----------------------------------------------------------------------------
Final == {"DONE", "FAILED", "BLOCKED"}
Unstored == [status |-> "NONE", attempts |-> 0, due |-> TRUE]
NoJob == [finding |-> NoFinding, attempt |-> 0, calls |-> 0, uncertain |-> FALSE]
NoRequest == [finding |-> NoFinding, at |-> "none"]
Closed == [failures |-> 0, circuit |-> FALSE]

Waiting == {f \in Findings : rows[f].status \in {"PENDING", "RUNNING"}}
Due == {f \in Findings : rows[f].status = "PENDING" /\ rows[f].due}
Paid == mode = "REAL_LLM"
Yields == pc \in {"stopped", "idle", "read", "call"}

Goes(at) == pc' = at

\* run returns or the process is gone: memory and the writer lock go with it.
Stops ==
  /\ pc' = "stopped"
  /\ job' = NoJob
  /\ breaker' = Closed
  /\ request' = NoRequest
  /\ unanswered' = IF pc = "call" THEN unanswered \cup {job.finding} ELSE unanswered

Init ==
  /\ mode \in {"REAL_LLM", "READ_ONLY"}
  /\ detected = {} /\ changed = {} /\ constructed = {} /\ missed = FALSE
  /\ rows = [f \in Findings |-> Unstored] /\ order = <<>>
  /\ stored = Closed /\ stop = FALSE
  /\ enabled = FALSE /\ sim = [f \in Findings |-> "NONE"] /\ request = NoRequest
  /\ pc = "stopped" /\ job = NoJob /\ breaker = Closed
  /\ submitted = [f \in Findings |-> 0] /\ unanswered = {}
  /\ handled = [f \in Findings |-> 0]

-----------------------------------------------------------------------------
(* Start, recovery, stop and death.                                        *)

\* __init__: whoever constructs a monitor reads the stored circuit, while another one may
\* hold the lock; a refused monitor is gone.
Construct ==
  /\ \E gone \in SUBSET constructed :
       /\ Cardinality(constructed \ gone) < MaxConstructed
       /\ constructed' = (constructed \ gone) \cup {stored}
  /\ UNCHANGED <<mode, detected, changed, missed, ledger, simulation, pc, job, breaker, calls>>

\* run: a constructed monitor gets the lock, with the circuit it has read.  Others that
\* have read the same may follow it.
Start ==
  /\ pc = "stopped" /\ request = NoRequest
  /\ pc' = "recover"
  /\ breaker' \in constructed
  /\ missed' = (stored.circuit /\ ~breaker'.circuit)
  /\ UNCHANGED <<mode, detected, changed, constructed, ledger, simulation, job, calls>>

\* Wrong on purpose, for a run that must reject it: every interrupted job waits again.
AfterCrashRequeued(row) ==
  IF row.status = "RUNNING" THEN [row EXCEPT !.status = "PENDING"] ELSE row

\* A paid investigation that was interrupted is never run again.
AfterCrash(row) ==
  IF row.status = "RUNNING"
  THEN [row EXCEPT !.status = IF Paid THEN "BLOCKED" ELSE "PENDING"]
  ELSE row

Recover ==
  /\ pc = "recover"
  /\ rows' = [f \in Findings |-> AfterCrash(rows[f])]
  /\ Goes("recover_simulation")
  /\ UNCHANGED <<world, order, stored, stop, simulation, job, breaker, calls>>

\* Wrong on purpose, for a run that must reject it: an interrupted simulation is approved again.
RecoveredRecordReplayed(status) == IF status = "STARTED" THEN "APPROVED" ELSE status

RecoveredRecord(status) == IF status = "STARTED" THEN "UNCERTAIN" ELSE status

RecoverSimulation ==
  /\ pc = "recover_simulation"
  /\ sim' = [f \in Findings |-> RecoveredRecord(sim[f])]
  /\ stop' = FALSE
  /\ Goes("idle")
  /\ UNCHANGED <<world, rows, order, stored, enabled, request, handled, job, breaker, calls>>

RequestStop ==
  /\ ~stop /\ pc # "stopped"
  /\ stop' = TRUE
  /\ UNCHANGED <<world, rows, order, stored, simulation, pc, job, breaker, calls>>

\* The checks of stop_requested between ticks and before correlation.
StopBetweenTicks ==
  /\ stop /\ pc \in {"idle", "correlate"}
  /\ Stops
  /\ UNCHANGED <<world, ledger, enabled, sim, handled, submitted>>

\* A crash, a fatal collection status, or a storage error that leaves run.
Dies ==
  /\ pc # "stopped"
  /\ Stops
  /\ UNCHANGED <<world, ledger, enabled, sim, handled, submitted>>

-----------------------------------------------------------------------------
(* Collection and correlation.                                             *)

Collect ==
  /\ pc = "idle" /\ ~stop
  /\ \E new \in SUBSET (Findings \ detected) : detected' = detected \cup new
  /\ \E late \in SUBSET {f \in Findings : rows[f].status = "DONE"} :
       changed' = changed \cup late
  /\ Goes("correlate")
  /\ UNCHANGED <<mode, constructed, missed, ledger, simulation, job, breaker, calls>>

Correlate ==
  /\ pc = "correlate" /\ ~stop
  /\ Goes("put")
  /\ UNCHANGED <<world, ledger, simulation, job, breaker, calls>>

\* The first snapshot of a finding is kept.  A full backlog raises out of the tick, and so
\* out of run.
Put ==
  /\ pc = "put"
  /\ \E f \in detected \ ToSet(order) :
       \/ /\ Cardinality(Waiting) < PendingLimit
          /\ rows' = [rows EXCEPT ![f] = [Unstored EXCEPT !.status = "PENDING"]]
          /\ order' = Append(order, f)
          /\ UNCHANGED <<pc, job, breaker, request, unanswered>>
       \/ /\ Cardinality(Waiting) >= PendingLimit
          /\ Stops
          /\ UNCHANGED <<rows, order>>
  /\ UNCHANGED <<world, stored, stop, enabled, sim, handled, submitted>>

AllPut ==
  /\ pc = "put" /\ detected \subseteq ToSet(order)
  /\ Goes("claim")
  /\ UNCHANGED <<world, ledger, simulation, job, breaker, calls>>

BackoffPasses(f) ==
  /\ rows[f].status = "PENDING" /\ ~rows[f].due
  /\ rows' = [rows EXCEPT ![f].due = TRUE]
  /\ UNCHANGED <<world, order, stored, stop, simulation, pc, job, breaker, calls>>

-----------------------------------------------------------------------------
(* investigate_one.                                                        *)

NothingToInvestigate ==
  /\ pc = "claim" /\ (breaker.circuit \/ Due = {})
  /\ Goes("prepare")
  /\ UNCHANGED <<world, ledger, simulation, job, breaker, calls>>

\* Wrong on purpose, for a run that must reject it: an attempt too many.
OutOfAttemptsLate(row) == row.attempts > RetryLimit + 2

\* One attempt more than the retries allow is left for the recovery of an interrupted one.
OutOfAttempts(row) == row.attempts >= RetryLimit + 2

\* The oldest due row; one that is out of attempts is settled instead of claimed.
Claim ==
  /\ pc = "claim" /\ ~breaker.circuit
  /\ \E i \in DOMAIN order :
       LET f == order[i] IN
       /\ f \in Due /\ \A j \in 1 .. i - 1 : order[j] \notin Due
       /\ IF OutOfAttempts(rows[f])
          THEN /\ rows' = [rows EXCEPT ![f].status = "FAILED"]
               /\ Goes("prepare")
               /\ UNCHANGED job
          ELSE /\ rows' = [rows EXCEPT ![f].status = "RUNNING", ![f].attempts = @ + 1]
               /\ job' = [NoJob EXCEPT !.finding = f, !.attempt = rows[f].attempts + 1]
               /\ Goes("validate")
  /\ UNCHANGED <<world, order, stored, stop, simulation, breaker, calls>>

\* validate_finding reads the retained sources again.
ValidateSource ==
  /\ pc = "validate"
  /\ pc' \in {"read", "fail"}
  /\ UNCHANGED <<world, ledger, simulation, job, breaker, calls>>

\* LLM_INVOCATION_STARTED is committed before the call; without it nothing is submitted.
Submit ==
  /\ pc = "read" /\ Paid /\ job.calls < MaxCalls
  /\ \/ /\ job' = [job EXCEPT !.calls = @ + 1, !.uncertain = TRUE]
        /\ submitted' = [submitted EXCEPT ![job.finding] = @ + 1]
        /\ Goes("call")
     \/ Goes("fail") /\ UNCHANGED <<job, submitted>>
  /\ UNCHANGED <<world, ledger, simulation, breaker, unanswered>>

\* A response is settled once it is recorded: a failed record leaves it uncertain, a
\* response over the tool limit ends the investigation.
Response ==
  /\ pc = "call"
  /\ \/ pc' \in {"read", "fail"} /\ job' = [job EXCEPT !.uncertain = FALSE]
     \/ Goes("fail") /\ UNCHANGED job
  /\ UNCHANGED <<world, ledger, simulation, breaker, calls>>

\* The provider refuses: nothing is left open.
Refusal ==
  /\ pc = "call"
  /\ job' = [job EXCEPT !.uncertain = FALSE]
  /\ Goes("fail")
  /\ UNCHANGED <<world, ledger, simulation, breaker, calls>>

\* A timeout or a broken connection: the provider may or may not have worked.
NoAnswer ==
  /\ pc = "call"
  /\ unanswered' = unanswered \cup {job.finding}
  /\ Goes("fail")
  /\ UNCHANGED <<world, ledger, simulation, job, breaker, submitted>>

\* The deadline between two calls, or a read that did not complete.
ReadFails ==
  /\ pc = "read"
  /\ Goes("fail")
  /\ UNCHANGED <<world, ledger, simulation, job, breaker, calls>>

\* The shutdown deadline cancels the task where it awaits.  When the failure of a call
\* cannot be recorded the storage error replaces the cancellation.
Cancel ==
  /\ stop /\ pc \in {"read", "call"}
  /\ IF pc = "call"
     THEN /\ unanswered' = unanswered \cup {job.finding}
          /\ pc' \in {"cancelled", "fail"}
     ELSE Goes("cancelled") /\ UNCHANGED unanswered
  /\ UNCHANGED <<world, ledger, simulation, job, breaker, submitted>>

Settle(status, due) ==
  rows' = [rows EXCEPT ![job.finding].status = status, ![job.finding].due = due]

\* finish with DONE; its commit may fail with or without the row being written.
Succeed ==
  /\ pc = "read" /\ (Paid => job.calls = MaxCalls)
  /\ \/ Settle("DONE", TRUE) /\ pc' \in {"reset", "fail"}
     \/ Goes("fail") /\ UNCHANGED rows
  /\ UNCHANGED <<world, order, stored, stop, simulation, job, breaker, calls>>

ResetCircuit ==
  /\ pc = "reset"
  /\ stored' = Closed /\ missed' = FALSE
  /\ breaker' = [breaker EXCEPT !.failures = 0]
  /\ job' = NoJob
  /\ Goes("prepare")
  /\ UNCHANGED <<mode, detected, changed, constructed, rows, order, stop, simulation, calls>>

\* Wrong on purpose, for a run that must reject it: one retry too many.
RetriesOnceMore == job.attempt <= RetryLimit + 1 /\ ~job.uncertain

Retries == job.attempt <= RetryLimit /\ ~job.uncertain

\* The compare-and-set of finish refuses a row that is already settled; the error leaves
\* the tick.
Fail ==
  /\ pc = "fail"
  /\ \/ /\ rows[job.finding].status = "RUNNING"
        /\ IF Retries THEN Settle("PENDING", FALSE) ELSE Settle("FAILED", TRUE)
        /\ breaker' = [breaker EXCEPT !.failures = @ + 1]
        /\ Goes("account")
        /\ UNCHANGED <<job, request, unanswered>>
     \/ /\ rows[job.finding].status # "RUNNING"
        /\ Stops
        /\ UNCHANGED rows
  /\ UNCHANGED <<world, order, stored, stop, enabled, sim, handled, submitted>>

AccountFailure ==
  /\ pc = "account"
  /\ breaker' = [breaker EXCEPT !.circuit = breaker.failures >= CircuitFailures]
  /\ stored' = breaker' /\ missed' = FALSE
  /\ job' = NoJob
  /\ Goes("prepare")
  /\ UNCHANGED <<mode, detected, changed, constructed, rows, order, stop, simulation, calls>>

FinishCancelled ==
  /\ pc = "cancelled"
  /\ Settle(IF job.calls > 0 THEN "BLOCKED" ELSE "PENDING", TRUE)
  /\ Stops
  /\ UNCHANGED <<world, order, stored, stop, enabled, sim, handled, submitted>>

-----------------------------------------------------------------------------
(* The simulated response of a completed finding.                          *)

Unrequested == {f \in Findings : rows[f].status = "DONE" /\ sim[f] = "NONE"}

\* prepare_completed: evidence that changed since the investigation raises out of run.
Prepare ==
  /\ pc = "prepare" /\ enabled /\ ~stop
  /\ \E f \in Unrequested :
       \/ /\ f \notin changed
          /\ sim' = [sim EXCEPT ![f] = "PENDING_REVIEW"]
          /\ UNCHANGED <<pc, job, breaker, request, unanswered>>
       \/ f \in changed /\ Stops /\ UNCHANGED sim
  /\ UNCHANGED <<world, ledger, enabled, handled, submitted>>

TickEnds ==
  /\ pc = "prepare" /\ (enabled /\ ~stop => Unrequested = {})
  /\ Goes("idle")
  /\ UNCHANGED <<world, ledger, simulation, job, breaker, calls>>

SetEnabled ==
  /\ pc = "stopped" /\ request = NoRequest
  /\ enabled' = ~enabled
  /\ UNCHANGED <<world, ledger, sim, request, handled, pc, job, breaker, calls>>

\* What every operator request needs: its turn, a runtime that is not stopping, and
\* evidence that is still what the investigation read.
MayRequest(f) ==
  /\ Yields /\ request = NoRequest
  /\ pc # "stopped" => ~stop
  /\ enabled /\ f \notin changed

Review(f) ==
  /\ MayRequest(f) /\ sim[f] = "PENDING_REVIEW"
  /\ Cardinality({g \in Findings : sim[g] \notin {"NONE", "PENDING_REVIEW"}}) < MaxReviews
  /\ \E decision \in {"APPROVED", "REJECTED"} : sim' = [sim EXCEPT ![f] = decision]
  /\ UNCHANGED <<world, ledger, enabled, request, handled, pc, job, breaker, calls>>

\* The reservation and its audit are committed before the handler runs; an answer that was
\* lost leaves the reservation without a handler.
Reserve(f) ==
  /\ MayRequest(f) /\ sim[f] = "APPROVED"
  /\ sim' = [sim EXCEPT ![f] = "STARTED"]
  /\ request' \in {NoRequest, [finding |-> f, at |-> "reserved"]}
  /\ UNCHANGED <<world, ledger, enabled, handled, pc, job, breaker, calls>>

\* The executor checks policy and approval again, then calls the handler.
Handle ==
  /\ Yields /\ request.at = "reserved"
  /\ handled' = [handled EXCEPT ![request.finding] = @ + 1]
  /\ request' = [request EXCEPT !.at = "handled"]
  /\ UNCHANGED <<world, ledger, enabled, sim, pc, job, breaker, calls>>

\* The receipt needs the evidence of the request once more.
Complete ==
  /\ Yields /\ request.at = "handled"
  /\ request.finding \notin changed
  /\ sim' = [sim EXCEPT ![request.finding] = "SIMULATED"]
  /\ request' = NoRequest
  /\ UNCHANGED <<world, ledger, enabled, handled, pc, job, breaker, calls>>

\* A refusal, the operator timeout, or a failed commit: the reservation stays.
GiveUp ==
  /\ Yields /\ request # NoRequest
  /\ request' = NoRequest
  /\ UNCHANGED <<world, ledger, enabled, sim, handled, pc, job, breaker, calls>>

-----------------------------------------------------------------------------
Investigate ==
  \/ NothingToInvestigate \/ Claim \/ ValidateSource
  \/ Submit \/ Response \/ Refusal \/ NoAnswer \/ ReadFails
  \/ Succeed \/ ResetCircuit \/ Fail \/ AccountFailure \/ FinishCancelled

Tick ==
  \/ Recover \/ RecoverSimulation \/ StopBetweenTicks
  \/ Collect \/ Correlate \/ Put \/ AllPut
  \/ Investigate
  \/ Prepare \/ TickEnds

Operate ==
  \/ SetEnabled \/ Handle \/ Complete \/ GiveUp
  \/ \E f \in Findings : Review(f) \/ Reserve(f)

Next ==
  \/ Construct \/ Start \/ RequestStop \/ Dies \/ Cancel
  \/ Tick \/ Operate
  \/ \E f \in Findings : BackoffPasses(f)

Spec == Init /\ [][Next]_vars

-----------------------------------------------------------------------------
(* Properties.                                                             *)

Attempts == 0..RetryLimit + 2
Breakers == [failures : 0..CircuitFailures, circuit : BOOLEAN]
Statuses == {"NONE", "PENDING", "RUNNING"} \cup Final
Row == [status : Statuses, attempts : Attempts, due : BOOLEAN]
Job == [finding : Findings \cup {NoFinding}, attempt : Attempts, calls : 0..MaxCalls,
        uncertain : BOOLEAN]

\* Type invariant of the ledger, the process and the requests.
TypeOK ==
  /\ mode \in {"REAL_LLM", "READ_ONLY"}
  /\ changed \subseteq detected
  /\ rows \in [Findings -> Row]
  /\ order \in Seq(Findings)
  /\ ToSet(order) = {f \in Findings : rows[f].status # "NONE"}
  /\ {stored, breaker} \cup constructed \subseteq Breakers
  /\ {stop, enabled, missed} \subseteq BOOLEAN
  /\ sim \in [Findings -> {"NONE", "PENDING_REVIEW", "APPROVED", "REJECTED", "STARTED",
                           "SIMULATED", "UNCERTAIN"}]
  /\ job \in Job
  /\ request \in [finding : Findings \cup {NoFinding}, at : {"none", "reserved", "handled"}]

\* The provider is never called for a finding with a call whose outcome nobody knows: not by
\* a retry, not by another process after a crash, a stop or a lost commit.  Nor is it called
\* behind the stored open circuit, except by a monitor that was constructed before another
\* one opened it (BudgetClient, RuntimeStore.recover, LinuxMonitor.__init__ and run).
CallsAreJustified ==
  [][\A f \in Findings :
       submitted'[f] # submitted[f] => f \notin unanswered /\ (stored.circuit => missed)]_vars

\* What one finding may cost, whatever fails, stops and restarts: the calls of
\* RetryLimit + 1 attempts, although a row may be claimed once more than that.
CostIsBounded ==
  \A f \in Findings : submitted[f] <= MaxCalls * (RetryLimit + 1)

Verdict(f) ==
  CASE sim[f] = "SIMULATED" -> "succeeded" [] sim[f] = "REJECTED" -> "failed" [] OTHER -> "open"
VerdictBy(f) == IF Verdict(f) = "open" THEN "nobody" ELSE "program"

Promised == INSTANCE OneShotDispatch WITH
  Promotions <- Findings,
  calls <- handled,
  verdict <- [f \in Findings |-> Verdict(f)],
  author <- [f \in Findings |-> VerdictBy(f)]

\* The simulated response keeps the promise of durable execution: its handler runs at most
\* once, never after a rejection, and SIMULATED is only said of a handler that ran.
SimulatedOnce == Promised!Spec

-----------------------------------------------------------------------------
(* The inductive invariant.                                                *)

Holding == {"validate", "read", "call", "cancelled"}
Unsettled == Holding \cup {"fail"}

\* The variables that TypeOK leaves out.
HistoryOK ==
  /\ ToSet(order) \subseteq detected /\ detected \subseteq Findings
  /\ submitted \in [Findings -> Nat]
  /\ unanswered \subseteq Findings
  /\ handled \in [Findings -> 0..1]

\* The process holds the one row that is running, unless a process died and nobody has
\* recovered yet; a lost commit of DONE leaves a job whose row is settled.
JobIsRunning ==
  /\ pc \in Unsettled =>
       /\ job.finding \in Findings
       /\ job.attempt = rows[job.finding].attempts /\ job.attempt > 0
       /\ rows[job.finding].status = "RUNNING" \/ (pc = "fail" /\ rows[job.finding].status = "DONE")
  /\ \A f \in Findings : rows[f].status = "RUNNING" =>
       pc \in {"stopped", "recover"} \/ (pc \in Unsettled /\ f = job.finding)
  /\ pc = "call" => Paid /\ job.calls > 0 /\ job.uncertain

\* A finding with a call nobody knows the outcome of was paid for, and its row is settled or
\* on its way to a final status.
UnansweredIsOver ==
  \A f \in unanswered :
    /\ Paid
    /\ rows[f].status = "RUNNING" =>
         \/ pc \in {"stopped", "recover"}
         \/ pc = "fail" /\ job.uncertain
         \/ pc = "cancelled" /\ job.calls > 0
    /\ rows[f].status \in Final \cup {"RUNNING"}

\* The breaker of the process is at least as strict as the stored one, unless the process
\* missed its opening, and is closed while a finding is held.
CircuitIsKept ==
  /\ stored.circuit /\ pc # "stopped" => breaker.circuit \/ missed
  /\ \A b \in constructed : ~b.circuit => b.failures < CircuitFailures
  /\ pc \in Unsettled \cup {"reset"} => ~breaker.circuit
  /\ ~stored.circuit => stored.failures < CircuitFailures
  /\ ~breaker.circuit /\ pc # "account" => breaker.failures < CircuitFailures

\* What a row may have cost after so many attempts: an attempt past the limit follows one
\* that called nobody.
Allowed(attempts) == MaxCalls * (IF attempts <= RetryLimit THEN attempts ELSE RetryLimit)

CallsAccounted ==
  \A f \in Findings :
    /\ ~Paid => submitted[f] = 0
    /\ rows[f].status = "NONE" => submitted[f] = 0
    /\ rows[f].status = "PENDING" => submitted[f] <= Allowed(rows[f].attempts)
    /\ rows[f].status = "RUNNING" /\ pc \in Unsettled =>
         submitted[f] <= Allowed(rows[f].attempts - 1) + job.calls

\* A request stands for a reservation nobody else uses; the handler ran at most once, and
\* not before the reservation.
RequestIsReserved ==
  /\ request.at = "none" => request = NoRequest
  /\ request.at # "none" =>
       /\ request.finding \in Findings
       /\ sim[request.finding] = "STARTED"
       /\ handled[request.finding] = IF request.at = "handled" THEN 1 ELSE 0
       /\ pc \notin {"recover", "recover_simulation"}
  /\ \A f \in Findings :
       /\ sim[f] \in {"NONE", "PENDING_REVIEW", "APPROVED", "REJECTED"} => handled[f] = 0
       /\ sim[f] = "SIMULATED" => handled[f] = 1

IInv ==
  /\ TypeOK /\ HistoryOK /\ JobIsRunning /\ UnansweredIsOver /\ CircuitIsKept
  /\ CallsAccounted /\ CostIsBounded /\ RequestIsReserved
=============================================================================

------------------------- MODULE StreamingResearch -------------------------
(***************************************************************************)
(* The streaming research service (src/soc_agent/security_ai/research): a  *)
(* capture session hands completed flows over, as private input files and  *)
(* queue rows, to a consumer that asks each model profile once and records *)
(* a durable outcome, after which the packet metadata is deleted.          *)
(*                                                                         *)
(* One event loop runs three coroutines, the capture task, the consumer    *)
(* and stop(), and any of them may run _failure.  Storage runs in threads  *)
(* (asyncio.to_thread): a cancelled coroutine leaves its thread running.   *)
(* recover_no_retry and the ledger writes do not await: they hold the loop *)
(* while threads go on.  The process may die between any two steps, and    *)
(* restore_latest, in a new process, is the only way back to the session.  *)
(***************************************************************************)
EXTENDS Integers, FiniteSets

CONSTANTS
  NumFlows,           \* eligible flows the capture completes, in order
  NumProfiles,        \* model profiles asked for each flow, in order
  InferenceCapacity,  \* rows that may be pending or claimed
  RetryLimit,         \* claims after which queue.recover gives a row up, 3 in the code
  MaxDeaths,          \* bound: deaths of the process
  MaxFaults           \* bound: failed storage calls and rejected captures

ASSUME StreamingAssumption ==
  /\ {NumFlows, NumProfiles, InferenceCapacity, RetryLimit} \subseteq Nat \ {0}
  /\ {MaxDeaths, MaxFaults} \subseteq Nat

Flows == 1 .. NumFlows
Profiles == 1 .. NumProfiles

VARIABLES
  rows,       \* realtime_events: status and attempts; a claim's token is its attempt
  inputs,     \* inputs/input-<flow>.json
  committed,  \* the flows with a STREAM_FLOW_COMMITTED event
  outcomes,   \* the STREAM_FLOW_OUTCOME events of a flow
  ledger,     \* the attempt and receipt of a flow and profile, files and audit
  lifecycle   \* STREAM_STOPPED, by its finalization, and STREAM_ABORTED

VARIABLES
  pc,         \* where each coroutine stands
  loop,       \* the coroutine that runs without awaiting
  sweep,      \* where recover_no_retry stands, the flow it settles and its caller
  writer,     \* the storage thread of the capture task and its flow
  worker,     \* the storage thread of the consumer, its flow, token and outcome
  current,    \* the consumer's claim, the profile being asked and its answer
  session,    \* aborted, whether last_error is set, done, inference_blocked, started
  windows,    \* the flows registered for authorize
  seen        \* flows completed so far

VARIABLES deaths, faults   \* the bounds

disk == <<rows, inputs, committed, outcomes, ledger, lifecycle>>
memory == <<pc, loop, sweep, writer, worker, current, session, windows, seen>>
vars == <<disk, memory, deaths, faults>>

-----------------------------------------------------------------------------
Coroutines == {"task", "consumer", "stopper"}
Over == {"done", "cancelled", "dead"}
NoFlow == 0
NoClaim == [flow |-> NoFlow, token |-> 0, profile |-> 0, answer |-> "none"]
NoThread == [step |-> "none", flow |-> NoFlow]
NoWork == [step |-> "none", flow |-> NoFlow, token |-> 0, outcome |-> "none"]
NoSweep == [step |-> "none", flow |-> NoFlow, caller |-> "none"]
Fresh == [aborted |-> FALSE, error |-> FALSE, done |-> FALSE, blocked |-> FALSE,
          started |-> TRUE]

With(status) == {f \in Flows : rows[f].status = status}
Backlog == Cardinality(With("PENDING") \cup With("CLAIMED"))
Free == loop = "free"
At(a, step) == pc[a] = step /\ Free
Goes(a, step) == pc' = [pc EXCEPT ![a] = step]
Ended(a) == pc[a] \in Over
Fault == faults < MaxFaults /\ faults' = faults + 1

Init ==
  /\ rows = [f \in Flows |-> [status |-> "ABSENT", attempts |-> 0]]
  /\ inputs = {} /\ committed = {} /\ lifecycle = {}
  /\ outcomes = [f \in Flows |-> {}]
  /\ ledger = [f \in Flows |-> [p \in Profiles |-> "none"]]
  /\ pc = [task |-> "collect", consumer |-> "poll", stopper |-> "idle", restorer |-> "off"]
  /\ loop = "free" /\ sweep = NoSweep
  /\ writer = NoThread /\ worker = NoWork /\ current = NoClaim
  /\ session = Fresh /\ windows = {} /\ seen = 0
  /\ deaths = 0 /\ faults = 0

-----------------------------------------------------------------------------
(* Cancellation and _failure.                                              *)

\* consumer.cancel(): the await raises, and current is forgotten before the outer
\* handler looks at it; the wait for an investigation swallows it.
Cancelled(step) ==
  IF step = "investigate" THEN "abandoned" ELSE IF step \in Over THEN step ELSE "cancelled"

CancelsConsumer(others) ==
  /\ pc' = [others EXCEPT !["consumer"] = Cancelled(@)]
  /\ current' = IF pc["consumer"] = "investigate" THEN current ELSE NoClaim

\* _failure up to its first await.
Fails(a) ==
  /\ Goes(a, "close")
  /\ session' = [session EXCEPT !.aborted = TRUE, !.error = TRUE, !.done = TRUE]
  /\ windows' = {}

\* capture.close is over: demo.stop, which also terminates the model worker.
FailureCloses(a) ==
  /\ At(a, "close")
  /\ session' = [session EXCEPT !.started = FALSE]
  /\ Goes(a, "silence")
  /\ UNCHANGED <<disk, loop, sweep, writer, worker, current, windows, seen, deaths, faults>>

FailureCancels(a) ==
  /\ At(a, "silence")
  /\ IF a = "consumer"
     THEN Goes(a, "gather") /\ UNCHANGED current
     ELSE CancelsConsumer([pc EXCEPT ![a] = "gather"])
  /\ UNCHANGED <<disk, loop, sweep, writer, worker, session, windows, seen, deaths, faults>>

Sweeps(a, caller) ==
  /\ loop' = a
  /\ sweep' = [step |-> "requeue", flow |-> NoFlow, caller |-> caller]
  /\ Goes(a, "recover")

FailureGathers(a) ==
  /\ At(a, "gather")
  /\ a = "consumer" \/ Ended("consumer")
  /\ lifecycle' = lifecycle \cup {"ABORTED"}
  /\ Sweeps(a, "failure")
  /\ UNCHANGED <<rows, inputs, committed, outcomes, ledger, writer, worker, current, session,
                 windows, seen, deaths, faults>>

FailureReports(a) ==
  /\ At(a, "update")
  /\ Goes(a, IF a = "stopper" THEN "cancel" ELSE "done")
  /\ UNCHANGED <<disk, loop, sweep, writer, worker, current, session, windows, seen, deaths,
                 faults>>

-----------------------------------------------------------------------------
(* recover_no_retry, one storage transaction or file operation at a time.  *)

Recovers(a, step) == pc[a] = "recover" /\ loop = a /\ sweep.step = step
SweepGoes(step, f) == sweep' = [sweep EXCEPT !.step = step, !.flow = f]

\* Wrong on purpose, for a run that must reject it: a row may be claimed for ever.
GivenBackAlways(row) ==
  IF row.status # "CLAIMED" THEN row ELSE [row EXCEPT !.status = "PENDING"]

\* queue.recover
GivenBack(row) ==
  IF row.status # "CLAIMED" THEN row
  ELSE [row EXCEPT !.status = IF row.attempts >= RetryLimit THEN "POISON" ELSE "PENDING"]

\* queue.claim takes the oldest pending row.
Oldest == {f \in With("PENDING") : \A g \in With("PENDING") : f <= g}
Claim(f) == [status |-> "CLAIMED", attempts |-> rows[f].attempts + 1]

RecoverRequeues(a) ==
  /\ Recovers(a, "requeue")
  /\ rows' = [f \in Flows |-> GivenBack(rows[f])]
  /\ SweepGoes("claim", NoFlow)
  /\ UNCHANGED <<inputs, committed, outcomes, ledger, lifecycle, pc, loop, writer, worker,
                 current, session, windows, seen, deaths, faults>>

RecoverClaims(a) ==
  /\ Recovers(a, "claim")
  /\ \/ \E f \in Oldest :
           rows' = [rows EXCEPT ![f] = Claim(f)] /\ SweepGoes("outcome", f)
     \/ /\ With("PENDING") = {}
        /\ SweepGoes("sweep", NoFlow)
        /\ UNCHANGED rows
  /\ UNCHANGED <<inputs, committed, outcomes, ledger, lifecycle, pc, loop, writer, worker,
                 current, session, windows, seen, deaths, faults>>

RecoverRecords(a) ==
  /\ Recovers(a, "outcome")
  /\ outcomes' = [outcomes EXCEPT ![sweep.flow] = @ \cup {"UNKNOWN_CRASH"}]
  /\ SweepGoes("finish", sweep.flow)
  /\ UNCHANGED <<rows, inputs, committed, ledger, lifecycle, pc, loop, writer, worker,
                 current, session, windows, seen, deaths, faults>>

RecoverFinishes(a) ==
  /\ Recovers(a, "finish")
  /\ rows' = [rows EXCEPT ![sweep.flow].status = "DONE"]
  /\ SweepGoes("purge", sweep.flow)
  /\ UNCHANGED <<inputs, committed, outcomes, ledger, lifecycle, pc, loop, writer, worker,
                 current, session, windows, seen, deaths, faults>>

\* What purge demands before it unlinks.
Purgeable(f) == rows[f].status = "DONE" /\ outcomes[f] # {}

\* Wrong on purpose, for a run that must reject it: files nobody accounts for are deleted too.
SweptAll == inputs

\* Every DONE event is purged once more; an input without a DONE row stays.
Swept == {f \in inputs : Purgeable(f)}

RecoverPurges(a) ==
  /\ \/ Recovers(a, "purge") /\ inputs' = inputs \ {sweep.flow} /\ SweepGoes("claim", NoFlow)
     \/ Recovers(a, "sweep") /\ inputs' = inputs \ Swept /\ SweepGoes("check", NoFlow)
  /\ UNCHANGED <<rows, committed, outcomes, ledger, lifecycle, pc, loop, writer, worker,
                 current, session, windows, seen, deaths, faults>>

\* Wrong on purpose, for a run that must reject it: an unaccounted input is not looked for.
OrphansIgnored == FALSE

\* STREAM_ORPHAN_INPUT_REQUIRES_REVIEW
Orphans == inputs # {}

\* _failure notes the review and reports, _finalize fails, and restore_latest raises.
RecoveryRaises(a) ==
  /\ loop' = "free" /\ sweep' = NoSweep
  /\ CASE sweep.caller = "finalize" -> Fails(a)
       [] sweep.caller = "failure" ->
            Goes(a, "update") /\ session' = [session EXCEPT !.error = TRUE] /\ UNCHANGED windows
       [] sweep.caller = "restore" -> Goes(a, "refused") /\ UNCHANGED <<session, windows>>

RecoveryReturns(a) ==
  /\ loop' = "free" /\ sweep' = NoSweep
  /\ Goes(a, CASE sweep.caller = "finalize" -> IF session.aborted THEN "done" ELSE "conclude"
               [] sweep.caller = "failure" -> "update"
               [] sweep.caller = "restore" -> "ledger")
  /\ UNCHANGED <<session, windows>>

RecoverChecks(a) ==
  /\ Recovers(a, "check")
  /\ \/ Orphans /\ RecoveryRaises(a)
     \/ ~Orphans /\ RecoveryReturns(a)
  /\ UNCHANGED <<disk, writer, worker, current, seen, deaths, faults>>

RecoverFails(a) ==
  /\ loop = a /\ pc[a] = "recover"
  /\ Fault
  /\ RecoveryRaises(a)
  /\ UNCHANGED <<disk, writer, worker, current, seen, deaths>>

-----------------------------------------------------------------------------
(* The capture task: observe and _handoff, then _finalize.                 *)

CompletesFlow ==
  /\ At("task", "collect") /\ ~session.aborted
  /\ seen < NumFlows /\ seen' = seen + 1
  /\ IF session.blocked
     THEN Goes("task", "exclude") /\ UNCHANGED writer
     ELSE Goes("task", "commit") /\ writer' = [step |-> "check", flow |-> seen']
  /\ UNCHANGED <<disk, loop, sweep, worker, current, session, windows, deaths, faults>>

\* The thread: the capacity check and the private input file, then the audit event.
WriterChecks ==
  /\ writer.step = "check"
  /\ writer' = [writer EXCEPT !.step = IF Backlog >= InferenceCapacity THEN "full" ELSE "input"]
  /\ UNCHANGED <<disk, pc, loop, sweep, worker, current, session, windows, seen, deaths, faults>>

WriterCommits ==
  /\ \/ /\ writer.step = "input"
        /\ inputs' = inputs \cup {writer.flow}
        /\ writer' = [writer EXCEPT !.step = "audit"]
        /\ UNCHANGED <<committed, rows>>
     \/ /\ writer.step = "audit"
        /\ committed' = committed \cup {writer.flow}
        /\ writer' = [writer EXCEPT !.step = "done"]
        /\ UNCHANGED <<inputs, rows>>
     \/ /\ writer.step = "enqueue"
        /\ rows' = [rows EXCEPT ![writer.flow].status = "PENDING"]
        /\ writer' = [writer EXCEPT !.step = "done"]
        /\ UNCHANGED <<inputs, committed>>
  /\ UNCHANGED <<outcomes, ledger, lifecycle, pc, loop, sweep, worker, current, session, windows,
                 seen, deaths, faults>>

WriterFails ==
  /\ writer.step \in {"check", "input", "audit", "enqueue"}
  /\ Fault
  /\ writer' = [writer EXCEPT !.step = "error"]
  /\ UNCHANGED <<disk, pc, loop, sweep, worker, current, session, windows, seen, deaths>>

\* The window is registered before the row can be claimed.
Committed ==
  /\ At("task", "commit") /\ writer.step = "done"
  /\ windows' = windows \cup {writer.flow}
  /\ writer' = [writer EXCEPT !.step = "enqueue"]
  /\ Goes("task", "enqueue")
  /\ UNCHANGED <<disk, loop, sweep, worker, current, session, seen, deaths, faults>>

HandedOff ==
  /\ \/ At("task", "commit") /\ writer.step = "full" /\ Goes("task", "exclude")
     \/ At("task", "enqueue") /\ writer.step = "done" /\ Goes("task", "collect")
     \/ At("task", "exclude") /\ Goes("task", "collect")
  /\ writer' = NoThread
  /\ UNCHANGED <<disk, loop, sweep, worker, current, session, windows, seen, deaths, faults>>

\* A storage error of _handoff, a rejected capture or an exhausted budget, or
\* observe called after an abort.
TaskFails ==
  /\ \/ /\ Free /\ pc["task"] \in {"commit", "enqueue"} /\ writer.step = "error"
        /\ writer' = NoThread
        /\ UNCHANGED faults
     \/ Free /\ pc["task"] \in {"collect", "exclude", "closing"} /\ Fault /\ UNCHANGED writer
     \/ At("task", "collect") /\ session.aborted /\ UNCHANGED <<faults, writer>>
  /\ Fails("task")
  /\ UNCHANGED <<disk, loop, sweep, worker, current, seen, deaths>>

\* The loop of _native ends: a verified completion, or the abort of another.
CollectEnds ==
  /\ At("task", "collect")
  /\ Goes("task", IF session.aborted THEN "done" ELSE "drain")
  /\ session' = [session EXCEPT !.done = TRUE]
  /\ UNCHANGED <<disk, loop, sweep, writer, worker, current, windows, seen, deaths, faults>>

\* wait_for expires: it cancels the consumer and waits for it.
DrainExpires ==
  /\ At("task", "drain") /\ ~Ended("consumer")
  /\ CancelsConsumer([pc EXCEPT !["task"] = "expired"])
  /\ UNCHANGED <<disk, loop, sweep, writer, worker, session, windows, seen, deaths, faults>>

\* The consumer returned, or was cancelled by another coroutine, and then so is the wait.
Drained ==
  /\ Free /\ pc["task"] \in {"drain", "expired"} /\ Ended("consumer")
  /\ \/ pc["consumer"] = "done" /\ Goes("task", IF session.aborted THEN "done" ELSE "conclude")
     \/ pc["consumer"] = "cancelled" /\ pc["task"] = "drain" /\ Goes("task", "done")
  /\ UNCHANGED <<disk, loop, sweep, writer, worker, current, session, windows, seen, deaths, faults>>

DrainTimedOut ==
  /\ At("task", "expired") /\ pc["consumer"] = "cancelled"
  /\ session' = [session EXCEPT !.error = TRUE, !.started = FALSE]
  /\ windows' = {}
  /\ Goes("task", "quiet")
  /\ UNCHANGED <<disk, loop, sweep, writer, worker, current, seen, deaths, faults>>

DrainRecovers ==
  /\ At("task", "quiet")
  /\ Sweeps("task", "finalize")
  /\ UNCHANGED <<disk, writer, worker, current, session, windows, seen, deaths, faults>>

Finalization == IF session.error THEN "PARTIAL" ELSE "VERIFIED"

Concludes ==
  /\ At("task", "conclude")
  /\ lifecycle' = lifecycle \cup {Finalization}
  /\ windows' = {}
  /\ session' = [session EXCEPT !.started = FALSE]
  /\ Goes("task", "closing")
  /\ UNCHANGED <<rows, inputs, committed, outcomes, ledger, loop, sweep, writer, worker, current,
                 seen, deaths, faults>>

TaskEnds ==
  /\ At("task", "closing")
  /\ Goes("task", "done")
  /\ UNCHANGED <<disk, loop, sweep, writer, worker, current, session, windows, seen, deaths, faults>>

-----------------------------------------------------------------------------
(* The consumer.                                                           *)

\* Wrong on purpose, for a run that must reject it: what is still queued is left.
MoreToDoNow == ~session.done

MoreToDo == ~session.done \/ With("PENDING") # {}

Polls ==
  /\ At("consumer", "poll")
  /\ IF MoreToDo /\ ~session.aborted
     THEN /\ worker' = [NoWork EXCEPT !.step = "claim"]
          /\ Goes("consumer", "claim")
     ELSE Goes("consumer", "done") /\ UNCHANGED worker
  /\ UNCHANGED <<disk, loop, sweep, writer, current, session, windows, seen, deaths, faults>>

WorkerClaims ==
  /\ worker.step = "claim"
  /\ \/ /\ With("PENDING") = {}
        /\ worker' = [worker EXCEPT !.step = "done"]
        /\ UNCHANGED rows
     \/ \E f \in Oldest :
          /\ rows' = [rows EXCEPT ![f] = Claim(f)]
          /\ worker' = [worker EXCEPT !.step = "done", !.flow = f, !.token = rows'[f].attempts]
  /\ UNCHANGED <<inputs, committed, outcomes, ledger, lifecycle, pc, loop, sweep, writer,
                 current, session, windows, seen, deaths, faults>>

\* store.finish runs in a thread of its own.
Finishes(outcome) ==
  /\ worker' = [step |-> "outcome", flow |-> current'.flow, token |-> current'.token,
                outcome |-> outcome]
  /\ Goes("consumer", "finish")

\* The next profile, or the outcome when all have answered or the circuit is open.
Asks(p) ==
  IF p > NumProfiles THEN Finishes("COMPLETE")
  ELSE IF session.blocked THEN Finishes("UNKNOWN")
  ELSE Goes("consumer", "load") /\ worker' = NoWork

Claimed ==
  /\ At("consumer", "claim") /\ worker.step = "done"
  /\ IF worker.flow = NoFlow
     THEN Goes("consumer", "poll") /\ worker' = NoWork /\ UNCHANGED current
     ELSE /\ current' = [flow |-> worker.flow, token |-> worker.token, profile |-> 1,
                         answer |-> "none"]
          /\ Asks(1)
  /\ UNCHANGED <<disk, loop, sweep, writer, session, windows, seen, deaths, faults>>

\* authorize and the checks of dispatch.
Authorized == session.started /\ ~session.aborted /\ current.flow \in windows

\* The input is loaded and the request authorized, or the flow gets its outcome.
\* The attempt is a file first, ...
Dispatches ==
  /\ At("consumer", "load")
  /\ \/ /\ Authorized
        /\ loop' = "consumer"
        /\ ledger' = [ledger EXCEPT ![current.flow][current.profile] = "attempted"]
        /\ UNCHANGED <<pc, worker, current, faults>>
     \/ /\ ~Authorized
        /\ UNCHANGED <<ledger, loop, current, faults>> /\ Finishes("UNKNOWN")
     \/ /\ Fault
        /\ UNCHANGED <<ledger, loop, current>>
        /\ \E outcome \in {"UNKNOWN", "QUARANTINED"} : Finishes(outcome)
  /\ UNCHANGED <<rows, inputs, committed, outcomes, lifecycle, sweep, writer, session, windows,
                 seen, deaths>>

\* ... then an audit event, and the worker process is started.
Dispatched ==
  /\ pc["consumer"] = "load" /\ loop = "consumer"
  /\ ledger' = [ledger EXCEPT ![current.flow][current.profile] = "dispatched"]
  /\ loop' = "free"
  /\ Goes("consumer", "infer")
  /\ UNCHANGED <<rows, inputs, committed, outcomes, lifecycle, sweep, writer, worker, current,
                 session, windows, seen, deaths, faults>>

Answers(answer) ==
  /\ current' = [current EXCEPT !.answer = answer]
  /\ Goes("consumer", IF answer = "complete" THEN "investigate" ELSE "abandoned")
  /\ UNCHANGED worker

\* The worker answers, or is terminated, fails or times out; a receipt the
\* controller cannot match leaves the attempt without one.
Inferred ==
  /\ At("consumer", "infer")
  /\ \/ session.started /\ Answers("complete") /\ UNCHANGED faults
     \/ Answers("unknown") /\ UNCHANGED faults
     \/ /\ Fault /\ UNCHANGED current
        /\ \E outcome \in {"UNKNOWN", "QUARANTINED"} : Finishes(outcome)
  /\ UNCHANGED <<disk, loop, sweep, writer, session, windows, seen, deaths>>

\* The read-only investigation; then the receipt is a file first ...
Receives ==
  /\ Free
  /\ \/ /\ pc["consumer"] = "investigate"
        /\ \E answer \in {"complete", "unknown"} : current' = [current EXCEPT !.answer = answer]
     \/ /\ pc["consumer"] = "abandoned"
        /\ current' = [current EXCEPT !.answer = "unknown"]
  /\ ledger' = [ledger EXCEPT ![current.flow][current.profile] = "received"]
  /\ loop' = "consumer"
  /\ Goes("consumer", "record")
  /\ UNCHANGED <<rows, inputs, committed, outcomes, lifecycle, sweep, writer, worker, session,
                 windows, seen, deaths, faults>>

\* ... and an audit event after it.
Recorded ==
  /\ pc["consumer"] = "record" /\ loop = "consumer"
  /\ ledger' = [ledger EXCEPT ![current.flow][current.profile] = current.answer]
  /\ loop' = "free"
  /\ current' = [current EXCEPT !.profile = @ + 1]
  /\ IF current.answer = "complete" THEN Asks(current.profile + 1) ELSE Finishes("UNKNOWN")
  /\ UNCHANGED <<rows, inputs, committed, outcomes, lifecycle, sweep, writer, session, windows,
                 seen, deaths, faults>>

\* store.finish: the audit event, then the queue row by its token, then purge.
WorkerFinishes ==
  /\ \/ /\ worker.step = "outcome"
        /\ outcomes' = [outcomes EXCEPT ![worker.flow] = @ \cup {worker.outcome}]
        /\ worker' = [worker EXCEPT !.step = "finish"]
        /\ UNCHANGED <<rows, inputs>>
     \/ /\ worker.step = "finish"
        /\ rows[worker.flow] = [status |-> "CLAIMED", attempts |-> worker.token]
        /\ rows' = [rows EXCEPT ![worker.flow].status = "DONE"]
        /\ worker' = [worker EXCEPT !.step = "purge"]
        /\ UNCHANGED <<outcomes, inputs>>
     \/ /\ worker.step = "finish"
        /\ rows[worker.flow] # [status |-> "CLAIMED", attempts |-> worker.token]
        /\ worker' = [worker EXCEPT !.step = "error"]
        /\ UNCHANGED <<outcomes, rows, inputs>>
     \/ /\ worker.step = "purge"
        /\ inputs' = inputs \ {worker.flow}
        /\ worker' = [worker EXCEPT !.step = "done"]
        /\ UNCHANGED <<outcomes, rows>>
  /\ UNCHANGED <<committed, ledger, lifecycle, pc, loop, sweep, writer, current, session, windows,
                 seen, deaths, faults>>

WorkerFails ==
  /\ worker.step \in {"claim", "outcome", "finish", "purge"}
  /\ Fault
  /\ worker' = [worker EXCEPT !.step = "error"]
  /\ UNCHANGED <<disk, pc, loop, sweep, writer, current, session, windows, seen, deaths>>

\* An outcome other than RESEARCH_COMPLETE or a quarantine opens the circuit.
Finished ==
  /\ At("consumer", "finish") /\ worker.step = "done"
  /\ session' = IF worker.outcome = "UNKNOWN"
                THEN [session EXCEPT !.blocked = TRUE, !.error = TRUE]
                ELSE session
  /\ windows' = windows \ {current.flow}
  /\ current' = NoClaim
  /\ worker' = NoWork
  /\ Goes("consumer", "poll")
  /\ UNCHANGED <<disk, loop, sweep, writer, seen, deaths, faults>>

\* A failed RESEARCH_COMPLETE is retried as UNKNOWN_NO_RETRY; anything else is fatal.
FinishRaises ==
  /\ Free /\ pc["consumer"] \in {"claim", "finish"} /\ worker.step = "error"
  /\ IF worker.outcome = "COMPLETE"
     THEN UNCHANGED <<current, session, windows>> /\ Finishes("UNKNOWN")
     ELSE current' = NoClaim /\ worker' = NoWork /\ Fails("consumer")
  /\ UNCHANGED <<disk, loop, sweep, writer, seen, deaths, faults>>

-----------------------------------------------------------------------------
(* stop().                                                                 *)

StopBegins ==
  /\ At("stopper", "idle") /\ ~Ended("task")
  /\ \/ Goes("stopper", "drain") /\ UNCHANGED <<session, windows>>   \* drain what is queued
     \/ Fails("stopper")                                             \* abort
  /\ UNCHANGED <<disk, loop, sweep, writer, worker, current, seen, deaths, faults>>

StopReturns ==
  /\ At("stopper", "drain") /\ Ended("task")
  /\ Goes("stopper", "done")
  /\ UNCHANGED <<disk, loop, sweep, writer, worker, current, session, windows, seen, deaths, faults>>

\* STREAM_STOP_DEADLINE_EXCEEDED
StopExpires ==
  /\ At("stopper", "drain") /\ ~Ended("task")
  /\ Fails("stopper")
  /\ UNCHANGED <<disk, loop, sweep, writer, worker, current, seen, deaths, faults>>

\* task.cancel() after _failure; the task's own thread goes on.
StopCancels ==
  /\ At("stopper", "cancel")
  /\ pc' = [pc EXCEPT !["stopper"] = "done", !["task"] = "done"]
  /\ UNCHANGED <<disk, loop, sweep, writer, worker, current, session, windows, seen, deaths, faults>>

-----------------------------------------------------------------------------
(* Death of the process, and restore_latest in the next one.               *)

Dies ==
  /\ deaths < MaxDeaths /\ deaths' = deaths + 1
  /\ pc' = [a \in DOMAIN pc |-> IF a = "restorer" THEN "idle" ELSE "dead"]
  /\ loop' = "free" /\ sweep' = NoSweep
  /\ writer' = NoThread /\ worker' = NoWork /\ current' = NoClaim
  /\ session' = [Fresh EXCEPT !.started = FALSE, !.done = TRUE]
  /\ windows' = {}
  /\ UNCHANGED <<disk, seen, faults>>

Restores ==
  /\ Free /\ pc["restorer"] \in {"idle", "refused", "retained"}
  /\ Sweeps("restorer", "restore")
  /\ UNCHANGED <<disk, writer, worker, current, session, windows, seen, deaths, faults>>

\* demo.start compares attempts and receipts with their audit events.
Torn == \E f \in Flows, p \in Profiles : ledger[f][p] \in {"attempted", "received"}

RestoreEnds ==
  /\ At("restorer", "ledger")
  /\ Goes("restorer", IF Torn THEN "refused" ELSE "retained")
  /\ UNCHANGED <<disk, loop, sweep, writer, worker, current, session, windows, seen, deaths, faults>>

-----------------------------------------------------------------------------
Recovery(a) ==
  \/ RecoverRequeues(a) \/ RecoverClaims(a) \/ RecoverRecords(a) \/ RecoverFinishes(a)
  \/ RecoverPurges(a) \/ RecoverChecks(a) \/ RecoverFails(a)

Failure(a) ==
  FailureCloses(a) \/ FailureCancels(a) \/ FailureGathers(a) \/ FailureReports(a)

Capture ==
  \/ CompletesFlow \/ Committed \/ HandedOff \/ TaskFails \/ CollectEnds
  \/ DrainExpires \/ Drained \/ DrainTimedOut \/ DrainRecovers \/ Concludes \/ TaskEnds

Threads ==
  WriterChecks \/ WriterCommits \/ WriterFails \/ WorkerClaims \/ WorkerFinishes \/ WorkerFails

Consumer ==
  Polls \/ Claimed \/ Dispatches \/ Dispatched \/ Inferred \/ Receives \/ Recorded
  \/ Finished \/ FinishRaises

Stop == StopBegins \/ StopReturns \/ StopExpires \/ StopCancels

Next ==
  \/ Capture \/ Threads \/ Consumer \/ Stop
  \/ \E a \in Coroutines : Failure(a)
  \/ \E a \in Coroutines \cup {"restorer"} : Recovery(a)
  \/ Dies \/ Restores \/ RestoreEnds

Spec == Init /\ [][Next]_vars

-----------------------------------------------------------------------------
\* Every variable has its type: a row is not claimed more often than RetryLimit, and only
\* one recover_no_retry runs at a time, without letting another coroutine run.
TypeOK ==
  /\ rows \in [Flows -> [status : {"ABSENT", "PENDING", "CLAIMED", "DONE", "POISON"},
                         attempts : 0 .. RetryLimit]]
  /\ inputs \subseteq Flows /\ committed \subseteq Flows
  /\ outcomes \in [Flows -> SUBSET {"COMPLETE", "UNKNOWN", "QUARANTINED", "UNKNOWN_CRASH"}]
  /\ ledger \in [Flows -> [Profiles -> {"none", "attempted", "dispatched", "received",
                                        "complete", "unknown"}]]
  /\ lifecycle \subseteq {"VERIFIED", "PARTIAL", "ABORTED"}
  /\ loop \in Coroutines \cup {"restorer", "free"}
  /\ (sweep # NoSweep) = \E a \in DOMAIN pc : pc[a] = "recover"
  /\ sweep # NoSweep => loop # "free"
  /\ current.profile \in 0 .. NumProfiles + 1
  /\ windows \subseteq Flows /\ seen \in 0 .. NumFlows

\* A session that ends VERIFIED left nothing open: every committed flow is DONE, its packet
\* metadata is deleted, and it was either answered by every profile or quarantined, and has
\* no other outcome (StreamingMonitoring._finalize and _consume).
VerifiedIsSettled ==
  "VERIFIED" \in lifecycle =>
    \A f \in committed :
      /\ rows[f].status = "DONE"
      /\ f \notin inputs
      /\ \/ outcomes[f] = {"QUARANTINED"}
         \/ outcomes[f] = {"COMPLETE"} /\ \A p \in Profiles : ledger[f][p] = "complete"

\* The packet metadata of a committed flow is only ever deleted after its outcome is
\* durable in the audit and in the queue, whoever purges it and whatever dies before
\* (StreamStore.purge and recover_no_retry).
InputKeptUntilOutcome ==
  \A f \in committed \ inputs : rows[f].status = "DONE" /\ outcomes[f] # {}

\* A session that is shown as retained has no unaccounted packet metadata and no open
\* work, and every committed flow has an outcome, wherever its process died and whatever the
\* thread of a cancelled coroutine wrote after that process had recovered the session
\* (StreamingMonitoring.restore_latest).
RestoredIsSettled ==
  pc["restorer"] = "retained" =>
    /\ inputs = {}
    /\ With("DONE") = committed /\ With("ABSENT") = Flows \ committed
    /\ \A f \in committed : outcomes[f] # {}

-----------------------------------------------------------------------------
(* The inductive invariant.                                                *)

Handling == {"close", "silence", "gather", "recover", "update"}
Asking == {"load", "infer", "investigate", "abandoned", "record"}
Verdicts == {"COMPLETE", "UNKNOWN", "QUARANTINED"}
Sweeping == {"requeue", "claim", "outcome", "finish", "purge", "sweep", "check"}
Settling == {"outcome", "finish", "purge"}

Row == [status : {"ABSENT", "PENDING", "CLAIMED", "DONE", "POISON"}, attempts : 0 .. RetryLimit]
Actors == Coroutines \cup {"restorer"}

TypedDisk ==
  /\ rows \in [Flows -> Row] /\ inputs \subseteq Flows /\ committed \subseteq Flows
  /\ outcomes \in [Flows -> SUBSET (Verdicts \cup {"UNKNOWN_CRASH"})]
  /\ ledger \in [Flows -> [Profiles -> {"none", "attempted", "dispatched", "received",
                                        "complete", "unknown"}]]
  /\ lifecycle \subseteq {"VERIFIED", "PARTIAL", "ABORTED"}

TypedPlaces ==
  /\ pc = [a \in Actors |-> pc[a]]
  /\ pc["task"] \in {"collect", "exclude", "commit", "enqueue", "drain", "expired", "quiet",
                     "conclude", "closing", "done", "dead"} \cup Handling
  /\ pc["consumer"] \in {"poll", "claim", "finish"} \cup Asking \cup Over \cup Handling
  /\ pc["stopper"] \in {"idle", "drain", "cancel", "done", "dead"} \cup Handling
  /\ pc["restorer"] \in {"off", "idle", "recover", "refused", "ledger", "retained"}
  /\ loop \in Actors \cup {"free"}
  /\ sweep = NoSweep \/ sweep \in [step : Sweeping, flow : Flows \cup {NoFlow},
                                   caller : {"finalize", "failure", "restore"}]

TypedWork ==
  /\ writer = NoThread \/ writer \in [step : {"check", "input", "audit", "enqueue", "full",
                                              "done", "error"}, flow : Flows]
  /\ worker \in [step : {"none", "claim", "done", "error"} \cup Settling,
                 flow : Flows \cup {NoFlow}, token : 0 .. RetryLimit,
                 outcome : Verdicts \cup {"none"}]
  /\ current \in [flow : Flows \cup {NoFlow}, token : 0 .. RetryLimit,
                  profile : 0 .. NumProfiles + 1, answer : {"none", "complete", "unknown"}]
  /\ session \in [aborted : BOOLEAN, error : BOOLEAN, done : BOOLEAN, blocked : BOOLEAN,
                  started : BOOLEAN]
  /\ windows \subseteq Flows /\ seen \in 0 .. NumFlows
  /\ deaths \in 0 .. MaxDeaths /\ faults \in 0 .. MaxFaults

\* What holds the event loop; a recovery is one coroutine's.
LoopIsHeld ==
  /\ \A a \in Actors : pc[a] = "recover" => loop = a
  /\ sweep # NoSweep => loop \in Actors /\ pc[loop] = "recover"
  /\ loop # "free" => sweep # NoSweep \/ (loop = "consumer" /\ pc["consumer"] \in {"load", "record"})
  /\ pc["consumer"] = "record" => loop = "consumer"
  /\ sweep # NoSweep => (sweep.caller = "restore" <=> loop = "restorer")
  /\ sweep # NoSweep /\ sweep.caller = "finalize" => loop = "task"
  /\ sweep.step \in Settling => sweep.flow # NoFlow
  /\ sweep.step \notin Settling => sweep.flow = NoFlow

\* After its process died nothing of a session runs but its restoration.
DeadIsDead ==
  /\ pc["restorer"] = "off" => \A a \in Coroutines : pc[a] # "dead"
  /\ pc["restorer"] # "off" =>
       /\ \A a \in Coroutines : pc[a] = "dead"
       /\ writer = NoThread /\ worker = NoWork /\ current = NoClaim
  /\ pc["restorer"] \in {"ledger", "retained"} => inputs = {}

\* A failure is never forgotten by the process it happened in.
FailureIsNoted ==
  pc["restorer"] = "off" =>
    /\ session.aborted => session.error
    /\ sweep # NoSweep => session.error
    /\ \A a \in Coroutines : pc[a] \in Handling \cup {"quiet", "cancel"} => session.error
    /\ session.done /\ ~session.error =>
         pc["task"] \notin {"collect", "exclude", "commit", "enqueue"}
    /\ pc["task"] = "done" /\ ~session.error => writer = NoThread
    /\ pc["consumer"] = "cancelled" /\ ~session.error => pc["task"] = "expired"
    /\ pc["task"] = "conclude" /\ ~session.error => pc["consumer"] = "done"

\* The rows, and the metadata kept for them.
RowsFollow ==
  /\ \A f \in Flows : /\ rows[f].status # "ABSENT" => f \in committed
                      /\ rows[f].status = "ABSENT" => rows[f].attempts = 0 /\ outcomes[f] = {}
                      /\ rows[f].status = "PENDING" => rows[f].attempts < RetryLimit
  /\ \A f \in committed : f <= seen
  /\ InputKeptUntilOutcome

\* The recovery settles a row; it is accounted for before its metadata is deleted.
SweepFollows ==
  sweep.step \in Settling =>
    /\ rows[sweep.flow].status # "ABSENT"
    /\ sweep.step # "outcome" => outcomes[sweep.flow] # {}
    /\ sweep.step = "purge" => rows[sweep.flow].status = "DONE"

\* The thread of the capture task hands over a flow that has no row.
WriterFollows ==
  /\ pc["task"] \notin {"commit", "enqueue", "done"} => writer = NoThread
  /\ pc["task"] = "commit" => writer.step \in {"check", "input", "audit", "done", "full", "error"}
  /\ pc["task"] = "enqueue" => writer.step \in {"enqueue", "done", "error"}
  /\ writer.step # "none" => writer.flow <= seen
  /\ writer.step \in {"check", "input", "audit", "enqueue"} \/ pc["task"] = "commit" =>
       rows[writer.flow].status = "ABSENT"
  /\ writer.step \in {"check", "input", "full"} => writer.flow \notin committed
  /\ writer.step = "audit" => writer.flow \in inputs
  /\ writer.step = "enqueue" => writer.flow \in committed
  /\ pc["task"] = "commit" /\ writer.step = "done" => writer.flow \in committed
  /\ pc["task"] = "enqueue" /\ writer.step = "done" => rows[writer.flow].status # "ABSENT"

\* The consumer and its thread work on a claimed row, and metadata is deleted after its outcome.
WorkerFollows ==
  /\ pc["consumer"] \in {"poll", "done", "dead"} \cup Handling =>
       worker = NoWork /\ current = NoClaim
  /\ pc["consumer"] = "claim" =>
       /\ worker.step \in {"claim", "done", "error"} /\ worker.outcome = "none"
       /\ current = NoClaim
  /\ pc["consumer"] \in Asking =>
       /\ current.flow # NoFlow /\ current.profile \in Profiles /\ worker = NoWork
       /\ \A p \in Profiles : p < current.profile => ledger[current.flow][p] = "complete"
       /\ pc["consumer"] = "record" => current.answer # "none"
  /\ pc["consumer"] = "finish" =>
       /\ current.flow # NoFlow /\ worker.flow = current.flow /\ worker.outcome # "none"
       /\ worker.step \in Settling \cup {"done", "error"}
       /\ worker.outcome = "COMPLETE" => \A p \in Profiles : ledger[worker.flow][p] = "complete"
  /\ worker.step = "claim" => worker.flow = NoFlow
  /\ worker.step \in Settling => worker.flow # NoFlow /\ worker.outcome # "none"
  /\ worker.flow # NoFlow => rows[worker.flow].status # "ABSENT"
  /\ current.flow # NoFlow => rows[current.flow].status # "ABSENT"
  /\ worker.step \in {"finish", "purge"} => outcomes[worker.flow] # {}
  /\ worker.step = "purge" => rows[worker.flow].status = "DONE"

\* What a verified session says of a flow.
SettledFlow(f) ==
  /\ rows[f].status = "DONE"
  /\ f \notin inputs
  /\ \/ outcomes[f] = {"QUARANTINED"}
     \/ outcomes[f] = {"COMPLETE"} /\ \A p \in Profiles : ledger[f][p] = "complete"

\* Without a failure every flow is where the coroutines say.
Clean == pc["restorer"] = "off" /\ ~session.error /\ pc["consumer"] # "cancelled"

CleanFlow(f) ==
  /\ rows[f].status = "ABSENT" /\ f \in committed => writer.step # "none" /\ writer.flow = f
  /\ rows[f].status = "PENDING" => outcomes[f] = {}
  /\ rows[f].status = "CLAIMED" =>
       /\ f = current.flow \/ (pc["consumer"] = "claim" /\ f = worker.flow)
       /\ pc["consumer"] # "finish" => outcomes[f] = {}
  /\ rows[f].status = "DONE" => SettledFlow(f) \/ (pc["consumer"] = "finish" /\ f = current.flow)
  /\ rows[f].status # "POISON"

CleanSession ==
  Clean =>
    /\ \A f \in Flows : CleanFlow(f)
    /\ pc["consumer"] = "done" => session.done /\ With("PENDING") = {}
    /\ pc["consumer"] \in Asking => rows[current.flow].status = "CLAIMED"
    /\ pc["consumer"] = "finish" => rows[current.flow].status \in {"CLAIMED", "DONE"}
    /\ pc["consumer"] = "claim" /\ worker.flow # NoFlow => rows[worker.flow].status = "CLAIMED"
    /\ pc["consumer"] = "finish" /\ worker.outcome # "UNKNOWN" =>
         /\ worker.step = "outcome" => outcomes[worker.flow] = {}
         /\ worker.step \in {"finish", "purge", "done"} => outcomes[worker.flow] = {worker.outcome}
         /\ worker.step = "done" => SettledFlow(worker.flow)

\* A verified session stays settled: nothing of it runs that could change a flow.
VerifiedStays ==
  "VERIFIED" \in lifecycle =>
    /\ VerifiedIsSettled
    /\ writer = NoThread
    /\ pc["consumer"] \in {"done", "dead"}
    /\ pc["task"] \in {"closing", "done", "dead"} \cup Handling
    /\ sweep.step \notin Settling /\ sweep.caller # "finalize"

IInv ==
  /\ TypedDisk /\ TypedPlaces /\ TypedWork /\ LoopIsHeld /\ DeadIsDead /\ FailureIsNoted
  /\ RowsFollow /\ SweepFollows /\ WriterFollows /\ WorkerFollows /\ CleanSession
  /\ VerifiedStays
=============================================================================

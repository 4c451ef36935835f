# A TLA+ model of the governed SOC agent

The repository is an agent that investigates security incidents and, under human
governance, executes a single tool call in response. Most of its code is sequential
and deterministic. What is hard to test lives where several processes share SQLite
stores, where a process dies between two commits, and where the world moves while a
step runs. This directory models those parts, checks them with TLC, and proves the safety
properties of every detailed specification with TLAPS.

Paths below are relative to `src/src/soc_agent/`.

## 1. Inventory of the system

| Component | State it keeps | Operations | Talks to |
|---|---|---|---|
| **Durable execution** `execution/durable`, `execution/executor.py` | `execution_records` (lifecycle, revision, claim, deadline) and an append-only audit table | `create`, `claim`, `execute_claim`, `transition`, `recover`, `reconcile` | incident store and policy (validation), tool registry (the call), the human who reconciles |
| **Event service** `realtime/` | `realtime_events` (PENDING, CLAIMED, DONE, POISON, attempts), `realtime_cursors` | `poll`, `enqueue`, `claim`, `finish`, `fail`, `recover`, `drain`, `process` | journal or audit log, incident store, external model, workflow runtime |
| **Workflow runtime** `investigation/runtime` | one `workflow_checkpoints` row per incident (revision, claim, cursor); the workflow in memory | `start`, `restore`, `advance` (one step per call), `claim`, `publish` | planner, read-only tools, models, incident store, execution ledger |
| **Governance database** `review/persistence/database.py` | one SQLite file per store | `transaction` (BEGIN IMMEDIATE; `CommitOutcomeUnknown` when a commit cannot be confirmed) | every durable store |
| **Incident store** `review/persistence/store.py` | snapshots with a revision, evidence, assessments, authorizations, reviews | `append_evidence`, `append_assessment` (compare and set), authorize, review | runtime, event service, review service |
| **Promotion and bridge** `response/promotion` | promoted actions | promote, validate, execute after a human confirmation | approval manager, durable executor |
| **Tool approvals** `approval` | approvals in memory, with expiry | create, approve, reject, expire | bridge, confirmations |
| **External model runtime** `security_ai/external` | requirement and attachment per incident; grants and scopes | require, attach, fail, bind, reconcile interrupted | event service, workflow |
| **Linux monitor** `linux_runtime/service.py`, `store.py` | findings (PENDING, RUNNING, DONE, FAILED, BLOCKED), LLM budget, circuit breaker | put, claim, investigate, finish, recover, shut down | LLM, simulation |
| **Restricted response** `linux_runtime/restricted_*.py` | append-only history of one marker file | request, review, execute, roll back, recover | operator server |
| **Feedback, simulation, network monitor** `linux_runtime/` | reports, sampling window | evaluate, simulate, sample | Linux monitor's store |
| **Lock and driver** `runtime_lock.py`, `runtime_driver.py` | exclusive file lock; step budget | acquire, drive | event service, API |
| **Human review** `review/`, `review/persistence/` | review requests, reviews, authorizations, `human_confirmations` | request, review, propose, authorize, apply; consume a confirmation | incident store, identity provider |
| **eBPF TC supervisor, broker** `security_ai/ebpf*` | what the root sidecar started (container, policy directory, DNS worker, stream); the controller's session | START, STATUS, STOP over one socket; finish; close | Docker daemon, kernel inspector, broker |
| **Streaming research** `security_ai/research` | queue rows, private input files, audit events, attempts and receipts | commit, claim, dispatch, finish, finalize, stop, restore | capture session, model worker |
| **Live collectors** `security_ai/collectors` | child process or supervised container, file positions | start, follow, stop | Zeek, supervisor |
| **Retention and archive** `security_ai/operational` | files and manifests | plan, archive, purge | file system |
| **Improvement pipeline** `improvement_*` | append-only ledgers | propose, review, promote | offline evaluation |
| **Evaluation, experience, feedback** | stored artifacts | batch computation | |
| **Decision, assessment, planning, fusion** | none | pure functions of a snapshot | workflow |
| **Adaptive investigation** `adaptive` | session in memory | bounded loop over read-only tools | planner, tools |
| **Tools and policy** `tools`, `policy` | registry | look up, validate, call | executor |
| **API, GUI, demo, CLI** | none of their own | wiring and presentation | all of the above |

How they interact. An event becomes a row of the event queue, its source record
becomes evidence of an incident, the incident gets one workflow, the workflow plans and
analyses and waits for human review, an accepted review leads to a promoted action with
a tool approval, and that action becomes one execution intent, which the durable
executor dispatches once. Each arrow crosses a store, and no transaction spans two
stores.

What is hard here, and what must nevertheless hold:

* *Competing processes.* Workers claim ledger records, runtimes claim checkpoint
  revisions. A tool call must not be made twice and a workflow step not begun twice.
* *Death between two commits.* After the invocation boundary nothing may be queued
  again; the log cursor must not run ahead of the stored events; a claim left in a
  checkpoint must not be taken over.
* *Unknown commits.* A commit may be applied although its caller sees an error.
* *Stale sources.* The incident moves between a check and its use. A stale intent must
  not be dispatched, and a stale review must not authorize anything.
* *Late answers.* A tool answers after its lease ran out and a human has decided.
* *Limits.* Queue capacity and retention, attempts, the investigation budget, paid calls.
* *Cancelled work that goes on.* A cancelled coroutine leaves its storage thread running;
  a timed-out request leaves its answer in the socket.
* *Checks before a human answers.* A confirmation takes minutes, and what was shown may
  have changed when it comes.
* *Progress.* An event that always fails must not hold up the queue for ever.

`PROJECT.json` lists each of these at the line where it bites.

## 2. Modules

| Module | Models | Role |
|---|---|---|
| `DurableExecution` | ledger and executor | detailed specification and inductive invariant |
| `OneShotDispatch` | what the three modules that cause effects promise | abstract specification |
| `RealtimeQueue` | event service, with the parts of incident store, external model and workflow that it drives | detailed specification with fairness, inductive invariant |
| `WorkflowRuntime` | runtimes, checkpoints, incident store, with the ledger reduced to a lifecycle | detailed specification and inductive invariant |
| `RestrictedResponse` | append-only response history against the marker file | detailed specification and inductive invariant |
| `LinuxMonitor` | findings, paid calls, circuit breaker and the simulated response | detailed specification and inductive invariant; its simulation implements `OneShotDispatch` |
| `NativeSupervisor` | root sidecar, its socket, the threads of the controller | detailed specification with fairness, inductive invariant |
| `StreamingResearch` | capture task, consumer, stop, their threads, and restoring | detailed specification and inductive invariant |
| `HumanGovernance` | incident governance, confirmations, promotion and approval | detailed specification and inductive invariant |
| `<module>Proofs` | one for each module above except `OneShotDispatch` | theorems for all constants |
| `MC...` | | constants and symmetry for TLC |

Three conventions are shared.

* **A transaction is an action; what lies between two transactions is not.** `pc` says
  where a process stands between them, so others act in the gaps. `BEGIN IMMEDIATE`
  is why a transaction is atomic.
* **`commit` has three outcomes**, after `transaction()` in
  `review/persistence/database.py`: `ok`, `rolled_back` (error, nothing applied) and
  `unseen` (error, applied). A writing action takes it as a parameter, or, in
  `LinuxMonitor` and `StreamingResearch`, has a failing alternative before or after it.
* **Definitions whose comment begins "Wrong on purpose"** are no part of a
  specification. Each stands for a plausible bug; substituted for the definition it
  precedes, it breaks the property that `PROJECT.json` names beside it.

### 2.1 DurableExecution

A record is `[state, revision, expires, event]`: the lifecycle, the revision, the
deadline of the claim and the type of the audit event written in the same transaction.
Digest, binding and timestamps are abstracted to the intent's identity, `PromotionOf`
and `ApprovalOf`. A worker's `copy` is the `ExecutionRecord` object it holds;
`transition` compares that object with the stored one (`CanTransition`).

| Code | Action |
|---|---|
| `store.create` | `Create` |
| `store.claim` in `execute` | `Claim` |
| `execute_claim` given a claim loaded by another process | `Adopt` |
| `execute_claim`: reload and compare | `LoadClaim` |
| `CurrentValidation` | `Validate` |
| transition to FAILED, EXECUTING, outcome | `CommitRejection`, `CommitBoundary`, `CommitOutcome` |
| `GovernedExecutor` and the tool | `PreflightRefuses`, `Invoke`, `ToolReturns` |
| `store.recover`, `store.reconcile` | `Recover`, `Reconcile` |
| process death; incident revised or closed | `Crash`, `SourcesChange` |

The wall clock is an input of the operations that read it, not a variable: the code
reads `datetime.now` and does not require it to be monotone, so any two readings are
unrelated. A lease may therefore look expired at any moment, which is the worst case
for recovery.

`invocations`, `reply`, `boundary` and `staleSince` record the outside world for the
properties; no guard of the program reads `invocations` or `boundary`.

`OneShotDispatch` is the promise: a promotion is called at most once, settled at most
once, and not called after the *program* settled it. The refinement maps `calls` to the
number of handlers that were started (two stands for more than one). It allows a `Fire` after a verdict
of a *human*. That is the hazard the repository documents
(`docs/durable-execution-governance.md`): a worker stalled beyond its lease may still
call the tool after a human confirmed a failure. The abstract specification therefore
says exactly how much the ledger guarantees.

### 2.2 RealtimeQueue

One process behind `runtime_lock`. `produced` and `oldest` are the log, `rows`, `order`
and `cursor` the queue database, `evidence`, `features`, `context`, `inferences` and
`workflow` the runtime store. The process is a program counter with the batch and the event in hand.

| Code | Action |
|---|---|
| `__main__`: lock, `recover`, first drain | `Start` |
| `collectors.poll`: probe of the cursor, then read behind it | `Probe`, `Read`; fixture: `ReadFixture` |
| `queue.enqueue` with its cursor, and the retry after `QueueFull` | `Enqueue` |
| `queue.claim` | `ClaimNext` |
| `worker.process`: source record; `binding`, `bind_features`, the requirement, the model; workflow | `Retain`; `CheckBinding`, `BindFeature`, `RequireInference`, `Infer`; `Open`, `Advance`, `Publish` |
| `queue.finish`, `queue.fail` | `Finish`, `FailClaim` |
| death, log growth, rotation | `Crash`, `LogGrows`, `LogRotates` |

`bind_features` appends each observation of a feature payload in a transaction of its own and
under a fresh identity. `features` counts these records per incident and `bound` those of the
current claim: a claim that stops before the requirement is stored leaves its records, and the
next claim starts again from the first observation.

The workflow is reduced to whether its checkpoint is ready, claimed or resting; its
steps are in `WorkflowRuntime`.

### 2.3 WorkflowRuntime

`checkpoint` is the row, `mem` what a runtime remembers. The cursor keeps the step, the
anchored incident revision, the pending plan, rounds, attempted inputs and, of each
artifact (assessment, decision, review, response), the incident revision it was made
for. That is all the digest comparisons of `validate_sources` distinguish.

A runtime does `Begin` (claim), one action of `Step`, possibly a transaction on another
store in the middle (`AppendEvidence`, `AppendAssessment`, `CreateIntent`, `Dispatch`),
and `Publish`. Between any two of these it may fail (`Fails`: the claim stays and this
runtime refuses the incident) or die (`Crash`), other runtimes act, and the incident
and the ledger move.

`LedgerMoves` is `DurableExecution` seen through its lifecycle column. Every lifecycle
change that ledger can make is allowed here at any time, so the workflow is checked
against more behaviours than the ledger has.

### 2.4 RestrictedResponse

One process behind the writer lock; the operator server's own lock makes requests
sequential, and an execution has no suspension point, so the program counter moves
only inside `execute`. A candidate is the digest of its input: the finding, the policy
fingerprint and, for a rollback, the original's receipt. The append-only history is kept
as what its readers make of it: the last status of each candidate (`read_records`) and
the last completed one (`_expected_resource_digest`).

| Code | Action |
|---|---|
| `enable_test_mode`: `TestResource.create`, then the audit event | `CreateMarker`, `Register` |
| `LinuxMonitor.run`, `OperatorServer.start` with its `recover` | `Start`, `RecoverAtStart`, `Stop` |
| `request`, `review` | `Request`, `Review` |
| `execute`: reservation | `Reserve` |
| `execute`: validation in the tool and directly before the write | `Revalidate` (twice) |
| `TestResource.change`: `pwrite`; `ftruncate`, `fsync` and reading back | `Write`, `Truncate` |
| `execute`: completion transaction; `except` clause | `CommitReceipt`, `RecoverAfterFailure` |
| process death; new program; an outsider at the file | `Crash`, `PolicyChanges`, `Tamper` |

The shorter content written over the longer one leaves a tail until the file is
truncated, so a death between `pwrite` and `ftruncate` leaves the marker `torn` for a
rollback and complete for a quarantine. `writes` and `tampered` record the world for the
properties; no guard reads them.

A candidate keeps the promise of `OneShotDispatch` with `writes` as its calls and the
receipt as the program's verdict; there is no human verdict here.

### 2.5 LinuxMonitor

The monitor holds `writer.lock` and runs a tick at a time; the tick is a program counter
with the claimed finding in `job`. Operator requests run in the same event loop, so they
happen where the tick awaits (`Yields`), or while the monitor is stopped.

| Code | Action |
|---|---|
| `LinuxMonitor.__init__`: reads the stored circuit, without the lock | `Construct` |
| `LinuxMonitor.run`: the lock, `RuntimeStore.recover`, recovery of simulations | `Start`, `Recover`, `RecoverSimulation` |
| `request_stop`, the checks of it, cancellation at the shutdown deadline | `RequestStop`, `StopBetweenTicks`, `Cancel`, `FinishCancelled` |
| `tick`: collect, correlate, `put` | `Collect`, `Correlate`, `Put`, `AllPut` |
| `investigate_one`: claim, validation of the source | `NothingToInvestigate`, `Claim`, `ValidateSource` |
| `BudgetClient`: record, call, response, refusal, no answer | `Submit`, `Response`, `Refusal`, `NoAnswer`, `ReadFails` |
| `finish` and the circuit, after success and after failure | `Succeed`, `ResetCircuit`, `Fail`, `AccountFailure` |
| `next_attempt` becomes due | `BackoffPasses` |
| `prepare_completed`, review, reservation, handler, receipt | `Prepare`, `TickEnds`, `SetEnabled`, `Review`, `Reserve`, `Handle`, `Complete`, `GiveUp` |
| death, or an error that leaves `run` | `Dies` |

`unanswered` is the world's view of a call: it holds the findings for which a call was
cut off, whatever the ledger says about them. A finding's evidence is one bit,
`changed`.

A monitor reads the stored circuit when it is constructed and asks for the lock later.
`constructed` holds the breakers that monitors without the lock have read, at any time and of
any age; `Start` gives the lock to one of them. `missed` records, for the property, that it got
the lock with a closed circuit although the stored one had opened meanwhile.

### 2.6 NativeSupervisor

The ordinary-user controller and the root sidecar exchange requests and answers in
sequence over one socket. `sidecar` is the sidecar's program counter, with the command it
serves; `daemon` is what Docker, the stream and the worker really are; `ops` and `core` are
what the sidecar believes. Each daemon call is `ok`, `refused`, or `lost` (it took effect
and its answer did not come).

| Code | Action |
|---|---|
| `dispatch` of a command, its answer, the end of the loop | `Serve`, `Status`, `Reply`, `LeaveLoop` |
| `_start_zeek`, `start_dns` | `WritePolicy`, `Create`, `VerifyCreated`, `Attach`, `StartContainer`, `StartDNS` |
| `stop_once`: `dns.close`, `_stop_zeek` | `CloseDNS`, `EnterStopZeek` ... `VerifyAbsent`, `StopEnds` |
| `finish`: wait for the broker, quiesce, inspect, close, final record | `AwaitBroker`, `Quiesce`, `Inspect`, `Close`, `SendFinal` |
| `SupervisorClient.request`, `receive` | `Sends`, `Answered`, `Unanswered` |
| `StreamProcess.run` with a supervisor, `DNSProcess` | `RunnerRequest`, `RunnerEnds` |
| the heartbeat; `SupervisedSession.close` | `Observe`; `BeginClose`, `CloseStop`, `CloseBroker`, `CloseFinal` |
| container, stream, worker; deaths | `ContainerExits`, `StreamEnds`, `WorkerExits`, `Killed`, `ControllerDies` |

`Slow` says at which stages an answer can take longer than the twelve seconds of a receive,
from the sidecar's own timeouts. Only there may a receive time out while the sidecar lives.

### 2.7 StreamingResearch

Three coroutines share one event loop: the capture task, the consumer and `stop()`. Each
may run `_failure`. `pc` is where each one stands; `loop` names the one that runs without
awaiting (`recover_no_retry`, the two ledger writes), and only threads act meanwhile.
`writer` and `worker` are the threads of `asyncio.to_thread`: cancelling a coroutine moves
its `pc` and leaves its thread.

| Code | Action |
|---|---|
| `observe`, `_handoff`: input file, audit event, window, queue row | `CompletesFlow`, `WriterChecks`, `WriterCommits`, `Committed`, `HandedOff` |
| `_finalize` with its drain deadline | `CollectEnds`, `DrainExpires`, `Drained`, `DrainTimedOut`, `DrainRecovers`, `Concludes`, `TaskEnds` |
| `_consume`: claim, authorize and dispatch, answer, investigation, receipt | `Polls`, `WorkerClaims`, `Claimed`, `Dispatches`, `Dispatched`, `Inferred`, `Receives`, `Recorded` |
| `StreamStore.finish` in its thread, and what follows | `WorkerFinishes`, `Finished`, `FinishRaises` |
| `_failure` | `FailureCloses`, `FailureCancels`, `FailureGathers`, `FailureReports` |
| `recover_no_retry` | `RecoverRequeues`, `RecoverClaims`, `RecoverRecords`, `RecoverFinishes`, `RecoverPurges`, `RecoverChecks` |
| `stop` | `StopBegins`, `StopReturns`, `StopExpires`, `StopCancels` |
| death; `restore_latest` in the next process | `Dies`; `Restores`, `RestoreEnds` |
| storage faults | `WriterFails`, `WorkerFails`, `RecoverFails`, `TaskFails` |

A cancelled consumer has already forgotten `current` when the handler for a cancelled
claim looks at it (the inner `finally` runs first), so that handler never settles
anything (`stream_service.py` lines 733-738); the model has no action for it. A
cancellation during an investigation is swallowed (`research/service.py` line 309) and
the flow goes on to its receipt, as `Cancelled` says.

### 2.8 HumanGovernance

`Server` keeps response reviews, promotions and approvals in memory; `Others` share its
SQLite file and act on the incident only. The API has one event loop and synchronous
handlers, so the server is inside one operation at a time; its transactions are separate
actions, with the other processes between them.

| Code | Action |
|---|---|
| `append_evidence` by any writer | `AppendEvidence` |
| `request_review`, `record_review`, `propose_state_change` | `RequestReview`, `RecordReview`, `ProposeChange` |
| `authorize_state_change`, `apply` / `compare_and_apply` | `AuthorizeChange`, `Apply` |
| `ProviderHumanAuthority.verify`, `SQLiteConfirmationConsumer.consume` | `Presents`, `Spent`, `Consumes` |
| `PromotionService`: review (confirmation, then sources), promotion | `DraftReview`, `ConfirmResponse`, `RecordResponse`, `Promote` |
| `ExecutionBridge`: approval shown, confirmed, compared, granted | `RequestApproval`, `ShowApproval`, `ConfirmApproval`, `RefuseApproval`, `Approve` |
| `ExecutionStore.create`: checks, then the ledger's transaction | `CheckIntent`, `InsertIntent` |
| policy or registry replaced; death | `PolicyChanges`, `Crash` |

Confirmations inside a governance transaction roll back with it (`VerifiesInside`), except
for the memory of the authority; those of a response are consumed in a transaction of their
own (`Verifies`). `Anchored` and `Current` are the digest comparisons of code, which tell
snapshots of the incident apart by their revision. The verdict `refused` of `policy` stands for a
denial, a removed tool and changed metadata or schema alike. What `InsertIntent` registers is
where `DurableExecution` begins.

## 3. Runs

| Run | Bounds | Distinct states | Shows |
|---|---|---|---|
| `durable_execution` | 3 workers (symmetric), 2 intents of 1 promotion with different approvals, times 0..1, lease 1, revision <= 4 | 44,719 | the invariants and the refinement below |
| `realtime_queue` | 3 log records, fixture of 2 records of one SOC event, capacity 1, retention 3, 2 attempts, 2 observations, batch 2 | 2,140,383 | no gap, backpressure, at-least-once claims with bounded effects |
| `realtime_queue_liveness` | 1 log record, otherwise as above, batch 1 | 81,434 | every stored event settles |
| `journal_rotation_race` | as `realtime_queue`, rotation allowed between probe and read | stops at the violation | the gap the collector does not detect |
| `workflow_runtime` | 2 runtimes (symmetric), 1 input proposed once or twice, 2 rounds, incident revision <= 2, checkpoint revision <= 9 | 1,091,220 | steps are not repeated; intents rest on current reviews; one dispatch |
| `restricted_response` | 1 finding, 2 policies (symmetric): 2 quarantines with 2 rollbacks each | 155,786 | marker and history agree, or the history says that they may not; one write per candidate |
| `duplicate_rollback` | as above | stops at the violation | a second rollback of one quarantine |
| `linux_monitor` | 2 findings (symmetric), backlog 1, 1 retry, 1 call per attempt, circuit opens after 2 failures, 1 stale breaker, 1 reviewed response; with and without a model | 4,050,026 | no call after one of unknown outcome, or behind an open circuit that the monitor could have read; bounded cost; one simulation |
| `native_supervisor` | one session with container or DNS worker, 2 status requests | 436,470 | VERIFIED means clean, closed means verified, every session ends |
| `supervisor_late_answer` | 1 status request | stops at the violation | a session that ends CLOSED without a final record |
| `streaming_research` | 3 flows, 2 profiles, capacity 2, 2 claims, 2 deaths, 1 fault | 1,566,165 | metadata outlives the flow's outcome; verified and restored sessions are settled |
| `human_governance` | a server and another process, 2 cases (symmetric), 1 response, 3 confirmations, incident revision <= 2, 1 fault or death | 2,738,181 | confirmations are used once; what is applied or registered was confirmed |

Why the bounds are enough to be interesting:

* Three workers are one more than a race needs: one stalled, one adopting the claim,
  one claiming again after recovery. Two intents of one promotion exercise the
  reservation. Revision 4 lets a record be claimed, recovered, claimed again and
  brought to its boundary; a clock of two values makes a deadline past or future.
* Capacity 1 below batch size 2 gives backpressure within a batch. With the defaults
  of the code (capacity 256, batch at most 256, queue drained before each poll) a full
  queue comes from retention, so retention is below the number of events too. Two
  attempts let an event fail, be retried and be poisoned.
* Nine checkpoint revisions are what the shortest path from start to a dispatched
  and completed intent needs; the incident may move twice, as evidence and as analysis
  or by another writer.

* Two policies give two quarantines that compete for the marker and, for each, a
  rollback under its own policy and one under the other. A second finding adds
  candidates of the same kind only.

* A backlog of one below two findings reaches backpressure. One retry gives a row three
  claims (the first, the retry, and the one left for recovery), and the circuit opens on
  the second failure. One call per attempt stands for the plan and the assessment of the
  code: the second call of an attempt is guarded and recorded like the first, and the proofs
  hold for every number. `MaxConstructed`, the breakers that waiting monitors hold, is one: it
  may be of any age, and one is enough to be stale. `MaxReviews` bounds for how many findings a
  simulated response is reviewed. The monitor may be started, stopped and killed any number of
  times.
* Two observations per payload let a claim stop between them, so that the next one appends the
  first one again.
* Two status requests let collector and heartbeat poll in either order around a stop. The other
  commands are bounded by the code itself.
* Three flows against capacity two give a full queue while a flow is being asked; two
  profiles, a flow that was answered in part; two deaths, a restoring process that dies
  itself; two claims with two recoveries, a row that is given up. A single fault is enough,
  because it may strike at each storage call of each thread.
* Two cases compete for one revision, and three confirmations are one more than
  a case or a response needs, so that one may be wasted. With three revisions, a change
  may be applied and evidence may still arrive.

`CHECK_DEADLOCK FALSE` is set for `durable_execution`, `native_supervisor`,
`supervisor_late_answer` and `streaming_research`: a ledger whose intents are all settled, a
session that was closed and a stopped service have nothing left to do. The other models
are checked for deadlock.

### Properties

`DurableExecution`
* `AtMostOneInvocation`: one promotion, and one approval, starts one handler at most once.
* `NoRequeueAfterInvocation`: after the handler may have started, the record is never
  pending or claimed again.
* `ProgramVerdictIsReal`: what the program itself records as succeeded or failed is what
  the tool answered, and nobody can call the tool any more.
* `StaleNeverDispatched`: a claim made after the sources went stale never reaches the
  boundary. (A change between validation and the boundary is not excluded: validation
  is a check before use, and the property is stated for what it can guarantee.)
* `ImplementsOneShot`: the refinement.

`RealtimeQueue`
* `NoGap`: between two stored log records none is missing.
* `ActiveWithinCapacity`: also after recovery and failure, which return rows.
* `DoneIsProcessed`: an acknowledged event was processed completely.
* `EffectsBounded`: whatever is retried, an incident keeps one source record and sees one run of
  the external model. Feature records are not exactly once, as `docs/gate-c-realtime-pipeline/queue-recovery.md:31` says of the whole
  service ("NOT exactly-once execution"): there are at most as many as its observations times
  its attempts, and none without the source record.
* `SettledStays`: DONE and POISON are final.
* `StoredEventSettles`: liveness.

`WorkflowRuntime`
* `StepBegunOnce`: a checkpoint revision is worked on once, whoever loads it.
* `InvestigationBounded`: no input is executed twice and the planner is asked at most
  `round_limit` times, across restarts.
* `IntentIsReviewed`: the intent was created from artifacts and a review of one and the
  same snapshot.
* `DispatchedOnce`: an uncertain outcome is looked up, never executed again.
* `CompletionIsReal`: a completed workflow with an intent reports what the ledger says.
  It relies on the anchor: closing an incident raises its revision, so a workflow that
  holds an intent does not leave through "the incident is closed".
* `PublishedIsSuccessor`: revisions grow by one, the loop guard's memory is not
  taken back, and a completed workflow keeps its result however often it is polled.

`RestrictedResponse`
* `MarkerIsExpected`: unless an outsider changed it, an attempt is open or a conflict is
  recorded, the marker is exactly what the last receipt says, whatever crashed.
* `UnknownBlocks`: an attempt of unknown outcome, or a conflict, blocks every later write
  of any candidate and is never taken back. (It has no reconciliation, by design: after
  an unknown outcome the resource stays blocked for ever.)
* `ImplementsOneShot`: the refinement.

`LinuxMonitor`
* `CallsAreJustified`: the provider is never called for a finding with a call whose outcome
  nobody knows, by no retry and by no later process. It is not called behind a stored open
  circuit either, except by a monitor that was constructed before the circuit opened and got
  the lock afterwards (`missed`). The code does not exclude that monitor: it investigates on
  its closed breaker, and when it stores a result it overwrites the open circuit.
  `docs/linux-soc-v1/continuous-runtime.md` line 92 says that the circuit is kept across
  restarts; that holds for monitors constructed after it opened.
* `CostIsBounded`: a finding costs at most the calls of `RetryLimit + 1` attempts, although
  its row may be claimed once more often.
* `SimulatedOnce`: the refinement of `OneShotDispatch`: the handler runs once, never after a
  rejection, and SIMULATED is only said of a handler that ran.

`NativeSupervisor`
* `VerifiedIsClean`: a final record says VERIFIED only when container, policy directory and
  worker are gone and the stream came to its end, whatever was refused or lost before.
* `PolicyOutlivesContainer`: mounted scripts are not removed before the container.
* `ClosedIsVerified`: a session whose close ran to its end is CLOSED only on VERIFIED.
* `UnverifiedRemainsError`: the same for every close; false, see below.
* `SessionEnds`: liveness of sidecar and close.

`StreamingResearch`
* `VerifiedIsSettled`: a session that ends VERIFIED has each committed flow done, its packet
  metadata deleted, and either an answer of every profile or a quarantine, and no second
  outcome.
* `InputKeptUntilOutcome`: packet metadata of a committed flow is deleted only after its
  outcome is durable in both stores.
* `RestoredIsSettled`: a session shown as retained has no metadata and no open work, whatever
  the thread of a cancelled coroutine did.

`HumanGovernance`
* `TypeOK` includes that a confirmation is consumed once, across processes, rollbacks, lost
  answers and deaths.
* `AppliedAsReviewed`: a change was reviewed and authorized by two confirmations on the very
  revision it replaced, and no two changes replaced one revision.
* `AuthorizedAsConfirmed`: a tool approval or intent exists only for a response that a human
  reviewed as ready and, unless policy allowed the tool, approved, both while the incident was as
  the plan saw it.

### Fairness

`FairSpec` of `RealtimeQueue`: `WF(Serve)`: a running process goes on.
`SF(Start("ok"))`: whoever runs the service starts it again after each failure, and
some recovery commit succeeds in the end. `SF(ClaimNext("ok"))`: claims do not fail
for ever. Nothing is assumed of processing: each claim may fail, and crashes may come at
any time. The event settles because attempts are counted at the claim.

`FairSpec` of `NativeSupervisor`: `WF(Sidecar)`, as each of its stages is bounded by a
timeout of the code, and `WF(LeaveLoop)`, as its loop ends at a deadline of 300 seconds.
`WF(Answered \/ Unanswered)`: a receive returns or times out. `WF` of `BeginClose` and of
the steps of close: the main thread always comes to its `finally`. Nothing is assumed of the
daemon, the container, the heartbeat or the collector.

### Three disagreements

`realtime/collectors.py` line 85 says the probe is there to "Detect vacuum/rotation loss
rather than silently seek to a later timestamp." Probe and read are two commands. A log
rotated between them is not detected; the read continues at the oldest retained record
and the cursor moves past the lost ones. `journal_rotation_race` is that behaviour.
`realtime_queue` sets `RotationRaces = FALSE` and shows that this window is the only
source of gaps.

`docs/linux-soc-v1/restricted-response-executor.md` line 62 says that a duplicate rollback
is refused. The code recognises a duplicate by its identical input, and the input
contains the policy digest, which contains the source of the policy class. `_verify`
asks of the original only that its own record says `TEST_RESOURCE_CHANGED`, which it goes on
saying after a rollback. Quarantine, rollback, an updated policy, another quarantine:
now the *first* quarantine can be rolled back again, with an approval of its own, and the
second one keeps its receipt although its effect was undone under the first one's.
`duplicate_rollback` is
that behaviour.

`docs/linux-soc-v1/unified-native-supervisor-single-authentication.md` lines 143-144 say that
"unexpected identity changes or unverified cleanup remain ERROR/CLEANUP_UNVERIFIED." The
sidecar may take longer than twelve seconds over STOP. `SupervisedSession.close` then
notes a failure and reads the final record, and what it reads is the late answer to STOP.
That answer has no `"final"`; the `KeyError` of `supervisor.py` line 582 is not among the
exceptions of line 584 and leaves `close` before lines 590-593 turn the failure into
ERROR. The session stays CLOSED with PROCESS_AND_AUDIT_VERIFIED, and a second `close`
returns that snapshot. `supervisor_late_answer` is that behaviour; `ClosedIsVerified` shows
that it is the only way.

## 4. Proofs

`DurableExecutionProofs` proves, for every number of workers, intents, promotions and
approvals, every set of leases, and every bound:

* `Invariance`: `Spec => []IInv`,
* `TypeCorrectness`, `OneInvocation`, `NoRequeue`, `VerdictsAreReal` and
  `StaleIntentsAreNotDispatched`: the five invariants of the run,
* `Refinement`: `Spec => ImplementsOneShot`.

Assumptions: `BindingAssumption` (the maps have their domains, the markers are fresh)
and `BoundAssumption` (leases are positive: a lease of zero is rejected by `claim`).

None of the invariants is inductive. `IInv` adds what the argument needs:

* `Exclusive`: stored intents share neither promotion nor approval;
* `CopyIsPast`: the record a worker holds is not newer than the ledger, and with the
  same revision it is the same record, which turns the comparison in `transition` into
  exclusion;
* `QuietBefore`: while a record is pending or claimed, nothing was called and no
  worker is past the boundary, so a requeue by recovery is harmless;
* `OneCaller`: at most one worker is past the boundary of an intent;
* `OutcomeIsReply`, `EventIsState`: what will be and was persisted;
* `Freshness`: a validated claim was read before its sources changed.

There is one lemma per action, with one step per conjunct; `NextInvariant` joins them.
For the refinement, `StoredVerdict` reads the abstract verdict off the one stored
record of a promotion, `Invisible` covers steps that start no tool and give no verdict,
`Visible` shows a first verdict to be a `Settle`, and `InvokeFires` shows `Invoke` to be
a `Fire`.

`RestrictedResponseProofs` proves, for every set of findings and of policies:

* `Invariance`: `Spec => []IInv`,
* `TypeCorrectness`, `MarkerMatchesHistory` and `UnknownOutcomesBlock`: the two invariants
  and the action property of the run,
* `Refinement`: `Spec => ImplementsOneShot`.

Assumption: `CandidateAssumption` (the absent candidate is not a candidate). `IInv` adds

* `OneAttempt`: at most one attempt is open, and what the process executes is that one,
  which is why a write excludes every unknown outcome;
* `OneWrite`: a candidate without attempt was not written, a completed one was, and the
  process stands before or after the write accordingly, although recovery may turn
  either into an unknown outcome;
* `MarkerFollows`: a marker no outsider touched is new before it is registered, holds
  what the candidate wants after the write was read back, and satisfies
  `MarkerIsExpected`.

The lemmas group the actions by what they disturb: nothing the invariant reads
(`QuietStep`), the set-up, an outsider, reviews, and one lemma for each step of an
execution and for recovery.

`RollbackOnce` is not among the theorems: it is false.

`HumanGovernanceProofs` proves, for any other processes, cases, responses and confirmations and
either policy floor:

* `Invariance`, `TypeCorrectness`,
* `ChangesAreReviewed` and `ResponsesAreAuthorized`: the two invariants of the run.

Assumption: `GovernanceAssumption` (the server is not one of the other processes, a case is
no response, the bounds are numbers). `IInv` adds

* `ConsumedIsUsed`: a confirmation that was consumed is used, at a revision the incident had;
* `CasesConfirmed`: what the stage of a case needs was confirmed on the snapshot it is about,
  and an applied case took the incident past that snapshot, as no other did;
* `InProgress`: between its transactions the server's operation is about a response in the
  stage it found, with the confirmation it has just consumed;
* `ResponsesConfirmed`: the same account for each stage of a response.

Applying compares the case's snapshot with the current revision and raises it, so a second
case on the same snapshot is refused; that, and not a lock, makes changes exclusive.

`LinuxMonitorProofs` proves, for any findings, backlog, retries, calls, threshold, constructed
monitors and reviews:

* `Invariance`, `TypeCorrectness`, `BoundedCost`, `JustifiedCalls` (an action property),
* `Refinement`: `Spec => SimulatedOnce`.

Assumption: `MonitorAssumption` (backlog, calls and threshold are positive; the retry limit may
be zero). `IInv` adds

* `JobIsRunning`: the process holds the one row that is running, unless a process died and
  nobody has recovered yet;
* `UnansweredIsOver`: a finding with a call of unknown outcome is running or final, never
  pending, and the job that holds it says so, so nobody claims it again;
* `CircuitIsKept`: the breaker in memory is as strict as the stored one, unless it was read
  before that one opened;
* `CallsAccounted`: what a row may have cost after so many attempts. An attempt past the limit
  exists only after one that called nobody, which gives the bound its exact form;
* `RequestIsReserved`: a simulation's handler stands behind a reservation nobody else uses.

`NativeSupervisorProofs` proves, for any number of status requests:

* `Invariance`, `TypeCorrectness`, `VerifiedCleanup`, `PolicyLifetime` and `ClosedSession`: the
  invariants of the run.

Assumption: `SupervisorAssumption` (the number is a natural). `IInv` adds

* `SocketOK`, `RequestsCounted`, `OneCollector`: who waits for what, and that requests are
  bounded by who may ask;
* `StartComesFirst`: until the one START is served nothing exists;
* `StagesInOrder`: the stages each command takes the sidecar through;
* `StopIsRecorded`: what the sidecar believes of the container is so at each stage, and what
  went wrong is a recorded failure by the time the stop ends;
* `FinishIsRecorded`, `FinalsAreLast`: a final record is the last thing a sidecar does.

The proof runs backwards along the stages: a VERIFIED record has no failure noted, hence the
stop ended with `ops.stopped`, hence the container is gone and stays so.

`RealtimeQueueProofs` proves, for any log length, fixture file, capacity, retention, attempts,
observations, batch size and step budget:

* `Invariance`, `TypeCorrectness`,
* `NoRecordIsMissed`: `~RotationRaces => (Spec => []NoGap)`; without the hypothesis it is false
  (`journal_rotation_race`),
* `Backpressure`, `AcknowledgedIsProcessed`, `BoundedEffects`: the other invariants,
* `Tombstones`: the action property `SettledStays`.

Assumption: `QueueAssumption` (the fixture file is a finite sequence whose records are not log
records, limits are positive). `IInv` adds

* `ClaimIsHeld`, `ProcessIsRecorded`: the event in hand is claimed, and where `process` stands
  says what it has already stored; source record and requirement are keyed by the incident, so a
  repeated attempt finds them;
* `FeaturesAccounted`: feature records are not found again. While a claim may still append some,
  the incident retains what the earlier attempts were allowed, and what this one has bound;
* `CursorIsNewest`: the durable cursor is the newest stored record, since both are written
  by one transaction;
* `BatchFollows`, `BatchIsHeld`, `CursorIsRetained`: what is in hand continues the log right
  behind the cursor, however much of it was already enqueued when capacity ran out.

`WorkflowRuntimeProofs` proves, for any runtimes, inputs, plans, rounds and incident revisions:

* `Invariance`, `TypeCorrectness`, `ClaimedOnce`, `BoundedInvestigation`, `ReviewedIntent`,
  `SingleDispatch`, `RealCompletion`: the invariants of the run,
* `PublicationOrder`: the action property `PublishedIsSuccessor`.

Assumption: `RuntimeAssumption` (a plan is not empty, a round is allowed). `IInv` adds

* `ClaimIsHeld`: only the claimant works, on the revision it claimed, and what another runtime
  remembers is the stored workflow or an older one; with `BegunWithClaim` a revision is begun
  once;
* `Sound`: in every cursor, stored or remembered, the assessment, decision, review and response
  are of the cursor's anchor, which is not newer than the incident; an intent is followed
  by its outcome only, and its anchor is not one at which the incident was closed;
* `Phase`: between two transactions of a step a runtime stands where its cursor says;
* `Records`: rounds, executed inputs and a dispatch are recorded in the cursor the workflow
  goes on from. A claimed checkpoint that nobody publishes is exempt, which is safe because
  nobody may claim it again;
* `Successor`: what will be published continues what is stored.

`StreamingResearchProofs` proves, for any number of flows, profiles, attempts, deaths and faults
and any capacity:

* `Invariance`, `TypeCorrectness`, `VerifiedSession`, `MetadataKept`, `RestoredSession`: the
  invariants of the run.

Assumption: `StreamingAssumption` (flows, profiles, capacity and attempts are positive). `IInv`
adds

* `TypedDisk`, `TypedPlaces`, `TypedWork`: the types, with the places each coroutine has;
* `LoopIsHeld`: at most one recovery runs, by the coroutine that holds the event loop;
* `DeadIsDead`, `FailureIsNoted`: nothing of a dead process runs, and a failure is known to the
  session before anything acts on it;
* `RowsFollow`, `SweepFollows`, `WriterFollows`, `WorkerFollows`: which flow each thread and
  recovery works on. The flow in the capture task's thread has no row before it is enqueued, so
  no recovery touches it; whoever deletes metadata does so for a DONE row with an outcome,
  which gives `MetadataKept` against every abandoned thread;
* `CleanSession`: without a noted failure every flow is where the coroutines say, so when the
  session concludes each one is settled;
* `VerifiedStays`: after VERIFIED no thread, claim or recovery remains that could change a flow,
  in this process or a later one.

A restoring process shows a session only after it found its input directory empty
(`DeadIsDead`). `RestoredSession` then follows from `MetadataKept`: a committed flow whose
metadata is gone is DONE and has an outcome.

In each of these modules the actions have one lemma each, or one for those that disturb the same
conjuncts; `NextInvariant` (or its equivalent) joins them. Bounds such as `MaxRecords` are
constants of the theorems like any other, so no theorem depends on the size of an instance.

What stays with TLC: `StoredEventSettles` and `SessionEnds` are liveness under fairness, which is
out of the prover's reach. `UnverifiedRemainsError`, `RollbackOnce` and, with rotation, `NoGap`
are false.

## 5. What is not modelled

* Digests, schemas, canonical JSON, permissions of database files, parsing of native
  log records: pure computation, represented by identity or by a nondeterministic
  failure.
* The memory-only mode of the workflow runtime and `reconcile_interrupted`. Without a
  store nothing survives and nothing competes.
* Every component that `PROJECT.json` marks `not_modelled`, for the reason given there.

* The path, ownership and inode checks of the marker. An outsider who replaces the file
  is a marker with foreign or unreadable content.
* Expiry and peer identity of the response's approvals: they only refuse, and any
  request may be refused.

* Of the Linux monitor: correlation and the validation of evidence, the budget over all
  findings, report files, and the network monitor.
* Of the supervised session: the broker (its cleanup is an outcome), the TCX link and its maps,
  the inventory of the kernel (one comparison), file descriptors and credentials of the socket,
  and the rate limit and contents of STATUS.
* Of the research service: preparation of a session, fixtures, budgets (exhausting one is a
  fault), statistics, and a `restore_latest` in the process whose cancelled thread still
  runs. A failing audit write after a dispatch or an answer is not a step of its own: what
  follows from it, a noted failure and an attempt of unknown outcome, is what the modelled
  faults of the thread lead to.
* Of governance: incident outcomes, experience records, the in-memory stores,
  `ExecutionBridge.execute`, a second promotion or approval for one response, and repeated reviews of
  one request, which the code refuses.

Consequences of the code that the models make visible and no property forbids, because
the code promises nothing else: a crash in the middle of a workflow step leaves its
checkpoint claimed, so the event that drives it is poisoned after its attempts; an
event whose acknowledgement was lost on its last attempt is POISON though it was
processed; an event retried before its requirement was stored leaves the same feature
observation as several pieces of evidence; polling a completed workflow claims its checkpoint again, so a crash at that
moment makes it impossible to restore; a review that asks for more investigation when
the budget is spent leaves the incident's only workflow waiting for ever; a preparation
of the marker that dies before its registration leaves a file that can be neither
registered nor created again; and a marker changed by an outsider between two recoveries
refuses every request, but becomes a recorded conflict only at the next recovery, or
never if it was changed back before; a monitor whose backlog is full, or whose completed
finding has changed evidence while simulation is enabled, ends at every start; a failure that
would have opened the circuit is forgotten when the process dies before it is stored; a
research session that died between an attempt file and its audit event can never be
restored; a flow may have two outcome events when its queue row could not be finished; and a
confirmation whose transaction was rolled back is refused until its process restarts.

## 6. Plan

1. `DurableExecution`, `OneShotDispatch`, proofs: done.
2. `RealtimeQueue`: done.
3. `WorkflowRuntime`: done.
4. `RestrictedResponse` with proofs: done.
5. `LinuxMonitor`, `NativeSupervisor`, `StreamingResearch`, `HumanGovernance`: done.
6. Proofs of every safety invariant and action property the runs check: done.
7. Abstract specifications still worth stating: of a checkpoint that hands out each revision once
   (implemented by `WorkflowRuntime`), and of a flow's life from committed to settled
   (implemented by `StreamingResearch`).
8. Candidates for further modules: the external model's grants and scopes, retention and
   archive, the broker's journal.

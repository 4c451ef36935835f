-------------------------- MODULE DurableExecution --------------------------
(***************************************************************************)
(* The durable dispatch of one governed tool call per promoted action:     *)
(* ExecutionStore (the SQLite ledger) and the DurableExecutor processes    *)
(* that compete for its records (src/soc_agent/execution/durable).         *)
(*                                                                         *)
(* Every store operation is one BEGIN IMMEDIATE transaction, hence one     *)
(* atomic step; everything a worker does between two transactions is a     *)
(* step of its own, so the steps of other workers, of recovery and of the  *)
(* human reconciler fall in between.  A worker may crash anywhere.  A      *)
(* commit may succeed, be rolled back, or take effect while its caller     *)
(* sees an error.  The wall clock may be stepped, so two readings of it    *)
(* are unrelated: each operation that reads it takes the reading as input. *)
(*                                                                         *)
(* Beside the program's own state the module keeps what happened outside   *)
(* the database: how often each tool handler started, how it answered,     *)
(* and since when the sources of an intent are out of date.                *)
(***************************************************************************)
EXTENDS Integers, FiniteSets

CONSTANTS
  Intents,      \* execution intents (content digest of ExecutionBinding)
  Promotions,   \* promoted action identities
  Approvals,    \* tool approval identities
  NoApproval,   \* approval_id = None, for permitted reads
  PromotionOf,  \* the promotion an intent dispatches
  ApprovalOf,   \* the approval it reserves, or NoApproval
  Workers,      \* processes that run DurableExecutor
  NoIntent,     \* what an idle worker holds
  MaxTime,      \* bound: clock readings are 0..MaxTime
  Leases,       \* lease durations a claimant may ask for
  MaxRevision   \* bound: a record that reached it is not claimed or re-queued

ASSUME BindingAssumption ==
  /\ PromotionOf \in [Intents -> Promotions]
  /\ NoApproval \notin Approvals
  /\ ApprovalOf \in [Intents -> Approvals \cup {NoApproval}]
  /\ NoIntent \notin Intents

ASSUME BoundAssumption ==
  /\ MaxTime \in Nat
  /\ Leases \subseteq Nat \ {0}
  /\ MaxRevision \in Nat

VARIABLES
  records,     \* the ledger: intent -> its current ExecutionRecord
  pc,          \* where each worker stands in execute / execute_claim
  held,        \* the intent a worker works on
  copy,        \* the ExecutionRecord it holds, as it last read or wrote it
  outcome,     \* the lifecycle state a worker is about to persist
  invocations, \* how many times the tool handler of an intent started
  reply,       \* how the tool of an intent answered its caller
  boundary,    \* the revision at which EXECUTING became durable, 0 if never
  staleSince   \* record revision when the sources went out of date, or -1

vars == <<records, pc, held, copy, outcome, invocations, reply, boundary, staleSince>>
worker == <<pc, held, copy, outcome>>
world == <<invocations, reply>>

-----------------------------------------------------------------------------
(* Lifecycle records.                                                      *)

Time == 0..MaxTime
NoClaim == 0

Lifecycle == {"pending", "claimed", "executing", "succeeded", "failed", "uncertain"}
EventType == {"intent_created", "claimed", "invocation_boundary", "succeeded",
              "failed", "uncertain", "recovered", "reconciled"}

\* expires is the claim: its deadline while a claim is stored, NoClaim otherwise.
\* event is the type of the audit event written by the transaction that wrote the row.
Record == [state: Lifecycle \cup {"absent"}, revision: Nat, expires: Nat,
           event: EventType \cup {"none"}]

Absent == [state |-> "absent", revision |-> 0, expires |-> NoClaim, event |-> "none"]

Created(i) == records[i].state # "absent"

\* The commit of a transaction: it took effect and the caller knows; it was rolled
\* back and the caller sees an error; it took effect and the caller sees an error.
Commit == {"ok", "rolled_back", "unseen"}

\* The successor record of a lifecycle change: one revision and one audit event more.
Step(r, state, expires, event) ==
  [state |-> state, revision |-> r.revision + 1, expires |-> expires, event |-> event]

\* The ledger after a transaction that writes r for intent i.
Save(i, r, commit) ==
  records' = IF commit = "rolled_back" THEN records ELSE [records EXCEPT ![i] = r]

-----------------------------------------------------------------------------
(* Workers.                                                                *)

Idle(w) ==
  /\ pc' = [pc EXCEPT ![w] = "idle"]
  /\ held' = [held EXCEPT ![w] = NoIntent]
  /\ copy' = [copy EXCEPT ![w] = Absent]
  /\ outcome' = [outcome EXCEPT ![w] = "none"]

\* Worker w goes on to step `at` holding record r of intent i.
Holds(w, at, i, r) ==
  /\ pc' = [pc EXCEPT ![w] = at]
  /\ held' = [held EXCEPT ![w] = i]
  /\ copy' = [copy EXCEPT ![w] = r]
  /\ UNCHANGED outcome

\* The worker's copy is still exactly what the ledger stores.
Current(w) == records[held[w]] = copy[w]

Allowed(from) ==
  CASE from = "claimed"   -> {"executing", "failed"}
    [] from = "executing" -> {"succeeded", "failed", "uncertain"}
    [] OTHER              -> {}

\* Wrong on purpose, for a run that must reject it: the record is not compared with
\* the stored one before it changes.
CanTransitionAnyCopy(w, state) ==
  state \in Allowed(records[held[w]].state)

\* Wrong on purpose, for a run that must reject it: the state check is made on
\* the worker's copy.
CanTransitionFromCopy(w, state) ==
  state \in Allowed(copy[w].state)

\* transition() accepts the change of the record worker w holds to `state`.
CanTransition(w, state) ==
  /\ Current(w)
  /\ state \in Allowed(records[held[w]].state)

Init ==
  /\ records = [i \in Intents |-> Absent]
  /\ pc = [w \in Workers |-> "idle"]
  /\ held = [w \in Workers |-> NoIntent]
  /\ copy = [w \in Workers |-> Absent]
  /\ outcome = [w \in Workers |-> "none"]
  /\ invocations = [i \in Intents |-> 0]
  /\ reply = [i \in Intents |-> "none"]
  /\ boundary = [i \in Intents |-> 0]
  /\ staleSince = [i \in Intents |-> -1]

-----------------------------------------------------------------------------
(* Registration.                                                           *)

\* Wrong on purpose, for a run that must reject it: only the intent's own
\* identity is reserved.
ReservedById(i) == Created(i)

\* The identities intent i would reserve are taken by a stored intent.
Reserved(i) ==
  \E j \in Intents :
    /\ Created(j)
    /\ \/ j = i
       \/ PromotionOf[j] = PromotionOf[i]
       \/ ApprovalOf[j] = ApprovalOf[i] /\ ApprovalOf[i] # NoApproval

\* create: a stored identical intent is returned unchanged, any other holder of the
\* promotion or the approval raises ExecutionReplay; only a fresh intent changes state.
Create(i, commit) ==
  /\ ~Reserved(i)
  /\ Save(i, [Absent EXCEPT !.state = "pending", !.event = "intent_created"], commit)
  /\ UNCHANGED <<worker, world, boundary, staleSince>>

-----------------------------------------------------------------------------
(* Dispatch: execute, then execute_claim.                                  *)

\* execute: only a pending record is claimed; any error of the commit ends the call.
Claim(w, i, now, lease, commit) ==
  LET r == Step(records[i], "claimed", now + lease, "claimed")
  IN /\ pc[w] = "idle"
     /\ records[i].state = "pending"
     /\ records[i].revision < MaxRevision
     /\ Save(i, r, commit)
     /\ IF commit = "ok" THEN Holds(w, "claimed", i, r) ELSE UNCHANGED worker
     /\ UNCHANGED <<world, boundary, staleSince>>

\* execute_claim is public: any process may pass it a claim it loaded from the ledger
\* (or got back from create), while the claimant is still working on it.
Adopt(w, i) ==
  /\ pc[w] = "idle"
  /\ records[i].state = "claimed"
  /\ Holds(w, "claimed", i, records[i])
  /\ UNCHANGED <<records, world, boundary, staleSince>>

\* The claim is compared with the stored record; a difference, or the disposition
\* guard, ends the call and leaves the ledger as it is.
LoadClaim(w) ==
  /\ pc[w] = "claimed"
  /\ \/ Current(w) /\ Holds(w, "loaded", held[w], copy[w])
     \/ Idle(w)
  /\ UNCHANGED <<records, world, boundary, staleSince>>

\* Wrong on purpose, for a run that must reject it: the anchor of the incident is
\* not compared again.
ValidateOnlyPolicy(w) ==
  /\ pc[w] = "loaded"
  /\ \/ Holds(w, "validated", held[w], copy[w])
     \/ Holds(w, "rejected", held[w], copy[w])
  /\ UNCHANGED <<records, world, boundary, staleSince>>

\* CurrentValidation reads incident, tool and policy now.  It can fail for a reason of
\* its own and must fail when the sources of the intent are out of date.
Validate(w) ==
  /\ pc[w] = "loaded"
  /\ \/ staleSince[held[w]] = -1 /\ Holds(w, "validated", held[w], copy[w])
     \/ Holds(w, "rejected", held[w], copy[w])
  /\ UNCHANGED <<records, world, boundary, staleSince>>

\* A failed validation is persisted as FAILED; whatever happens the call ends.
CommitRejection(w, commit) ==
  /\ pc[w] = "rejected"
  /\ IF CanTransition(w, "failed")
     THEN Save(held[w], Step(copy[w], "failed", copy[w].expires, "failed"), commit)
     ELSE UNCHANGED records
  /\ Idle(w)
  /\ UNCHANGED <<world, boundary, staleSince>>

\* EXECUTING and its audit event are committed before the tool may be called.  A stale
\* or expired claim, or an error of the commit, ends the call without a dispatch.
CommitBoundary(w, now, commit) ==
  LET r == Step(copy[w], "executing", copy[w].expires, "invocation_boundary")
      accepted == CanTransition(w, "executing") /\ copy[w].expires > now
  IN /\ pc[w] = "validated"
     /\ IF accepted
        THEN /\ Save(held[w], r, commit)
             /\ boundary' = IF commit = "rolled_back" THEN boundary
                            ELSE [boundary EXCEPT ![held[w]] = r.revision]
        ELSE UNCHANGED <<records, boundary>>
     /\ IF accepted /\ commit = "ok" THEN Holds(w, "armed", held[w], r) ELSE Idle(w)
     /\ UNCHANGED <<world, staleSince>>

\* GovernedExecutor: every gate passes and the registered tool is awaited.
Invoke(w) ==
  /\ pc[w] = "armed"
  /\ invocations' = [invocations EXCEPT ![held[w]] = @ + 1]
  /\ Holds(w, "running", held[w], copy[w])
  /\ UNCHANGED <<records, reply, boundary, staleSince>>

\* GovernedExecutor.preflight or the execution guard refuses: the tool is not called,
\* but the exception is not a tool failure and is classified as uncertain.
PreflightRefuses(w) ==
  /\ pc[w] = "armed"
  /\ pc' = [pc EXCEPT ![w] = "returned"]
  /\ outcome' = [outcome EXCEPT ![w] = "uncertain"]
  /\ UNCHANGED <<records, held, copy, world, boundary, staleSince>>

\* What the tool call ends with, and the lifecycle state that stands for it.
Replies == {"result", "reported_failure", "ambiguous"}
Classify(answer) ==
  CASE answer = "result"           -> "succeeded"
    [] answer = "reported_failure" -> "failed"
    [] answer = "ambiguous"        -> "uncertain"

\* The tool answers: a validated result, a ToolExecutionError without a cause, or
\* anything else (wrapped exception, timeout, cancellation, invalid output).
ToolReturns(w, answer) ==
  /\ pc[w] = "running"
  /\ reply' = [reply EXCEPT ![held[w]] = answer]
  /\ outcome' = [outcome EXCEPT ![w] = Classify(answer)]
  /\ pc' = [pc EXCEPT ![w] = "returned"]
  /\ UNCHANGED <<records, held, copy, invocations, boundary, staleSince>>

\* The outcome is persisted if the EXECUTING record is still the one this worker
\* wrote; otherwise, or on any storage error, the caller gets ExecutionOutcomeUnknown.
CommitOutcome(w, commit) ==
  /\ pc[w] = "returned"
  /\ IF CanTransition(w, outcome[w])
     THEN Save(held[w], Step(copy[w], outcome[w], copy[w].expires, outcome[w]), commit)
     ELSE UNCHANGED records
  /\ Idle(w)
  /\ UNCHANGED <<world, boundary, staleSince>>

\* The process dies; a tool call that had started has started.
Crash(w) ==
  /\ pc[w] # "idle"
  /\ Idle(w)
  /\ UNCHANGED <<records, world, boundary, staleSince>>

-----------------------------------------------------------------------------
(* Recovery, reconciliation and the outside world.                         *)

Expired(i, now) ==
  records[i].state \in {"claimed", "executing"} /\ records[i].expires <= now

\* Wrong on purpose, for a run that must reject it: a requeued record keeps the
\* deadline of its old claim.
RecoveredKeepsClaim(r) ==
  IF r.state = "claimed" THEN Step(r, "pending", r.expires, "recovered")
  ELSE Step(r, "uncertain", r.expires, "recovered")

\* Wrong on purpose, for a run that must reject it: an expired call is queued again.
RecoveredForRetry(r) == Step(r, "pending", NoClaim, "recovered")

Recovered(r) ==
  IF r.state = "claimed" THEN Step(r, "pending", NoClaim, "recovered")
  ELSE Step(r, "uncertain", r.expires, "recovered")

\* recover: one transaction over the whole ledger, reading the clock at each record.
Recover(now, commit) ==
  /\ \E i \in Intents : Expired(i, now[i])
  /\ records' = IF commit = "rolled_back" THEN records
                ELSE [i \in Intents |-> IF Expired(i, now[i]) THEN Recovered(records[i])
                                        ELSE records[i]]
  /\ UNCHANGED <<worker, world, boundary, staleSince>>

\* reconcile: a confirmed human decision about the record at the revision it names.
Reconcile(i, expectedRevision, state, commit) ==
  /\ records[i].state = "uncertain"
  /\ records[i].revision = expectedRevision
  /\ state = "uncertain" => expectedRevision < MaxRevision
  /\ Save(i, Step(records[i], state, records[i].expires, "reconciled"), commit)
  /\ UNCHANGED <<worker, world, boundary, staleSince>>

\* The incident closes or moves past the revision the intent is anchored to.
SourcesChange(i) ==
  /\ Created(i)
  /\ staleSince[i] = -1
  /\ staleSince' = [staleSince EXCEPT ![i] = records[i].revision]
  /\ UNCHANGED <<records, worker, world, boundary>>

-----------------------------------------------------------------------------
Dispatch(w) ==
  \/ \E i \in Intents, now \in Time, lease \in Leases, commit \in Commit :
       Claim(w, i, now, lease, commit)
  \/ \E i \in Intents : Adopt(w, i)
  \/ LoadClaim(w)
  \/ Validate(w)
  \/ \E commit \in Commit : CommitRejection(w, commit)
  \/ \E now \in Time, commit \in Commit : CommitBoundary(w, now, commit)
  \/ Invoke(w)
  \/ PreflightRefuses(w)
  \/ \E answer \in Replies : ToolReturns(w, answer)
  \/ \E commit \in Commit : CommitOutcome(w, commit)
  \/ Crash(w)

Operate ==
  \/ \E i \in Intents, commit \in Commit : Create(i, commit)
  \/ \E now \in [Intents -> Time], commit \in Commit : Recover(now, commit)
  \/ \E i \in Intents, revision \in 0..MaxRevision + 2,
        state \in {"succeeded", "failed", "uncertain"}, commit \in Commit :
       Reconcile(i, revision, state, commit)
  \/ \E i \in Intents : SourcesChange(i)

Next == (\E w \in Workers : Dispatch(w)) \/ Operate

Spec == Init /\ [][Next]_vars

-----------------------------------------------------------------------------
(* Properties.                                                             *)

\* The ledger and the workers hold values of their types, and a stored record is one
\* ExecutionRecord.consistency accepts: a claim is present while it is needed and
\* gone once recovery made the record pending again.
TypeOK ==
  /\ records \in [Intents -> Record]
  /\ \A i \in Intents :
       /\ records[i].state \in {"claimed", "executing"} => records[i].expires # NoClaim
       /\ records[i].state \in {"absent", "pending"} => records[i].expires = NoClaim
  /\ pc \in [Workers -> {"idle", "claimed", "loaded", "validated", "rejected",
                         "armed", "running", "returned"}]
  /\ held \in [Workers -> Intents \cup {NoIntent}]
  /\ copy \in [Workers -> Record]
  /\ outcome \in [Workers -> {"none", "succeeded", "failed", "uncertain"}]
  /\ invocations \in [Intents -> Nat]
  /\ reply \in [Intents -> Replies \cup {"none"}]
  /\ boundary \in [Intents -> Nat]
  /\ staleSince \in [Intents -> Int]

\* One promotion, and one approval, starts at most one tool handler at most once:
\* through competing workers, adopted claims, crashes, expired leases, recovery and
\* lost commit answers (the replay guard of create, claim and transition).
AtMostOneInvocation ==
  \A i, j \in Intents :
    /\ invocations[i] <= 1
    /\ /\ invocations[i] > 0 /\ invocations[j] > 0
       /\ \/ PromotionOf[i] = PromotionOf[j]
          \/ ApprovalOf[i] = ApprovalOf[j] /\ ApprovalOf[i] # NoApproval
       => i = j

\* Once the handler may have started, the intent is never pending or claimed again, so
\* neither recovery nor a late worker can make it eligible for a second dispatch.
NoRequeueAfterInvocation ==
  \A i \in Intents :
    invocations[i] > 0 => records[i].state \in {"executing", "succeeded", "failed", "uncertain"}

\* A verdict the program persisted itself tells the truth about the tool: succeeded
\* only when it returned a result, failed only when it reported failure or was never
\* called, and never while some worker can still call it.
ProgramVerdictIsReal ==
  \A i \in Intents :
    /\ records[i].event = "succeeded" => reply[i] = "result"
    /\ records[i].event = "failed" => invocations[i] = 0 \/ reply[i] = "reported_failure"
    /\ records[i].event \in {"succeeded", "failed"} =>
         \A w \in Workers : held[w] = i => pc[w] \notin {"armed", "running"}

\* An intent whose sources went out of date while its record stood at revision r is
\* dispatched at most by the claim that was already at r: a claim made afterwards
\* never reaches the invocation boundary.
StaleNeverDispatched ==
  \A i \in Intents :
    staleSince[i] # -1 => boundary[i] <= staleSince[i] + 1

-----------------------------------------------------------------------------
(* The promise it implements.                                              *)

StateOf(p, state) ==
  \E i \in Intents : PromotionOf[i] = p /\ records[i].state = state

\* An intent of promotion p started its tool.
Started(p, i) == PromotionOf[i] = p /\ invocations[i] > 0

\* How many tool calls were started for each promotion; 2 stands for more than one.
CallsOf ==
  [p \in Promotions |->
     IF ~\E i \in Intents : Started(p, i) THEN 0
     ELSE IF \A i, j \in Intents : Started(p, i) /\ Started(p, j) =>
               i = j /\ invocations[i] = 1 THEN 1
     ELSE 2]

VerdictOf ==
  [p \in Promotions |-> IF StateOf(p, "succeeded") THEN "succeeded"
                        ELSE IF StateOf(p, "failed") THEN "failed" ELSE "open"]

SettledByHuman(p) ==
  \E i \in Intents :
    /\ PromotionOf[i] = p
    /\ records[i].state \in {"succeeded", "failed"}
    /\ records[i].event = "reconciled"

AuthorOf ==
  [p \in Promotions |-> IF VerdictOf[p] = "open" THEN "nobody"
                        ELSE IF SettledByHuman(p) THEN "human" ELSE "program"]

OneShot == INSTANCE OneShotDispatch
             WITH calls <- CallsOf, verdict <- VerdictOf, author <- AuthorOf

\* Each promotion is fired at most once and settled at most once, and never fired
\* after the program itself settled it: durable execution implements OneShotDispatch.
ImplementsOneShot == OneShot!Spec

-----------------------------------------------------------------------------
(* The inductive invariant behind the safety properties.                   *)

BeforeBoundary == {"claimed", "loaded", "validated", "rejected"}
AfterBoundary == {"armed", "running", "returned"}

\* Worker w works on intent i beyond the invocation boundary.
Calling(w, i) == held[w] = i /\ pc[w] \in AfterBoundary

\* Stored intents share neither a promotion nor an approval.
Exclusive ==
  \A i, j \in Intents :
    /\ Created(i) /\ Created(j)
    /\ \/ PromotionOf[i] = PromotionOf[j]
       \/ ApprovalOf[i] = ApprovalOf[j] /\ ApprovalOf[i] # NoApproval
    => i = j

\* A worker's copy is a record its intent once had: revisions only grow, so a copy with
\* the stored revision is the stored record.
CopyIsPast ==
  \A w \in Workers :
    /\ pc[w] = "idle" => held[w] = NoIntent
    /\ pc[w] # "idle" =>
         /\ held[w] \in Intents
         /\ Created(held[w])
         /\ copy[w].revision <= records[held[w]].revision
         /\ copy[w].revision = records[held[w]].revision => Current(w)
    /\ pc[w] \in BeforeBoundary => copy[w].state = "claimed"
    /\ pc[w] \in AfterBoundary => copy[w].state = "executing"

\* Until the boundary nothing has happened outside and nobody is about to call.
QuietBefore ==
  \A i \in Intents : records[i].state \in {"absent", "pending", "claimed"} =>
    /\ invocations[i] = 0
    /\ boundary[i] = 0
    /\ \A w \in Workers : ~Calling(w, i)

\* At most one worker is beyond the boundary of an intent, before it called the tool
\* nobody had, and a tool that answered was called.
OneCaller ==
  /\ \A i \in Intents : /\ invocations[i] <= 1
                        /\ reply[i] # "none" => invocations[i] = 1
  /\ \A w \in Workers : /\ pc[w] = "armed" => invocations[held[w]] = 0
                        /\ pc[w] = "running" => invocations[held[w]] = 1
  /\ \A w, v \in Workers, i \in Intents : Calling(w, i) /\ Calling(v, i) => w = v

\* What a worker is about to persist is what the tool answered it, or uncertain.
OutcomeIsReply ==
  \A w \in Workers : pc[w] = "returned" =>
    /\ outcome[w] # "none"
    /\ outcome[w] = "succeeded" => reply[held[w]] = "result"
    /\ outcome[w] = "failed" => reply[held[w]] = "reported_failure"

\* The last audit event of a verdict agrees with the state of its row, unless a human
\* gave the verdict.
EventIsState ==
  \A i \in Intents :
    /\ records[i].event \in {"succeeded", "failed"} => records[i].state = records[i].event
    /\ records[i].state \in {"succeeded", "failed"} =>
         records[i].event \in {records[i].state, "reconciled"}

\* A validated claim was read before its sources changed, and the boundary lies in the past.
Freshness ==
  /\ \A i \in Intents : boundary[i] <= records[i].revision
  /\ \A w \in Workers : pc[w] = "validated" =>
       staleSince[held[w]] = -1 \/ copy[w].revision <= staleSince[held[w]]

IInv ==
  /\ TypeOK
  /\ Exclusive
  /\ CopyIsPast
  /\ QuietBefore
  /\ OneCaller
  /\ OutcomeIsReply
  /\ EventIsState
  /\ ProgramVerdictIsReal
  /\ Freshness
  /\ StaleNeverDispatched
=============================================================================

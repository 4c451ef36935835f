--------------------------- MODULE WorkflowRuntime --------------------------
(***************************************************************************)
(* The durable investigation workflow of one incident: SOCRuntime with a   *)
(* CheckpointStore (src/soc_agent/investigation/runtime).                  *)
(*                                                                         *)
(* Several runtimes may load the same checkpoint.  A runtime claims the    *)
(* checkpoint revision it expects, does one step of the workflow, which    *)
(* may call a model, a read-only tool, the incident store or the execution *)
(* ledger, and publishes the successor revision.  No transaction spans a   *)
(* step, so the incident changes, other runtimes run, commits fail and     *)
(* processes die between any two of its transactions.                      *)
(*                                                                         *)
(* The execution ledger is the one of DurableExecution, reduced to the     *)
(* lifecycle of the workflow's intent.                                     *)
(***************************************************************************)
EXTENDS Integers, Sequences, FiniteSets, SequencesExt

CONSTANTS
  Runtimes,    \* SOCRuntime instances, each in a process of its own
  NoRuntime,   \* the claim column of an unclaimed checkpoint
  Inputs,      \* (tool name, canonical input) of an investigation step
  Plans,       \* the plans the planner may return: sequences of inputs
  MaxRounds,   \* round_limit, the investigation budget
  MaxAnchor,   \* bound: revisions of the incident are 0..MaxAnchor
  MaxRevision  \* bound: checkpoint revisions are 0..MaxRevision

ASSUME RuntimeAssumption ==
  /\ NoRuntime \notin Runtimes
  /\ Plans \subseteq Seq(Inputs) \ {<<>>}
  /\ MaxRounds \in Nat \ {0}
  /\ {MaxAnchor, MaxRevision} \subseteq Nat

VARIABLES
  incident,    \* the authoritative incident: its snapshot revision, and closed
  checkpoint,  \* the workflow_checkpoints row: stored, revision, claim, cursor
  pc,          \* where each runtime stands
  mem,         \* the workflow in a runtime's memory: cursor and expected revision
  ledger,      \* lifecycle of the execution intent, "absent" before it is created
  begun,       \* how often work on a checkpoint revision was begun
  plans,       \* how often the planner was asked
  collected,   \* how often a read-only investigation input was executed
  dispatches,  \* how often the workflow started the executor
  basis        \* the cursor the execution intent was created from

vars == <<incident, checkpoint, pc, mem, ledger, begun, plans, collected, dispatches, basis>>
ghosts == <<begun, plans, collected, dispatches, basis>>

-----------------------------------------------------------------------------
Commit == {"ok", "rolled_back", "unseen"}
Applied(commit) == commit # "rolled_back"

Steps == {"observe", "plan", "route", "analyze", "decide", "govern", "act", "evaluate",
          "recover", "complete"}
Failures == {"none", "validation_failure", "analysis_failure", "governance_blocked",
             "investigation_failed", "execution_failed", "execution_uncertain",
             "investigation_loop_guard"}
Outcomes == {"investigate", "confirm", "rejected"}
Lifecycles == {"absent", "pending", "busy", "succeeded", "failed", "uncertain"}

\* An analysis artifact is known by the incident revision it was made for.
None == -1
Anchors == 0..MaxAnchor
Artifact == Anchors \cup {None}

\* WorkflowCheckpoint and _Workflow.  promoted lives in memory only.
Cursor == [step : Steps, anchor : Anchors, pending : Seq(Inputs), assessment : Artifact,
           decision : Artifact, review : Outcomes \cup {"none"}, reviewed : Artifact,
           response : Artifact, promoted : BOOLEAN, intent : BOOLEAN, rounds : 0..MaxRounds,
           attempted : SUBSET Inputs, failure : Failures]

Fresh(anchor) ==
  [step |-> "observe", anchor |-> anchor, pending |-> <<>>, assessment |-> None,
   decision |-> None, review |-> "none", reviewed |-> None, response |-> None,
   promoted |-> FALSE, intent |-> FALSE, rounds |-> 0, attempted |-> {}, failure |-> "none"]

NoCheckpoint == [stored |-> FALSE, revision |-> 0, claim |-> NoRuntime, cursor |-> Fresh(0)]
NoWorkflow == [revision |-> 0, cursor |-> Fresh(0)]

\* Wrong on purpose, for a run that must reject it: a finished workflow looks at the
\* incident again.
OutcomeStepsButComplete == {"recover", "evaluate"}

\* These steps read the execution ledger only; the incident may have changed.
OutcomeSteps == {"recover", "evaluate", "complete"}

Init ==
  /\ incident = [anchor |-> 0, closed |-> FALSE]
  /\ checkpoint = NoCheckpoint
  /\ pc = [r \in Runtimes |-> "absent"]
  /\ mem = [r \in Runtimes |-> NoWorkflow]
  /\ ledger = "absent"
  /\ begun = [v \in 0..MaxRevision |-> 0]
  /\ plans = 0
  /\ collected = [k \in Inputs |-> 0]
  /\ dispatches = 0
  /\ basis = Fresh(0)

\* Runtime r goes on to `at` with cursor c.
Holds(r, at, c) ==
  /\ pc' = [pc EXCEPT ![r] = at]
  /\ mem' = [mem EXCEPT ![r].cursor = c]

\* The step is over and its result is c.
Ends(r, c) == Holds(r, "stepped", c)

\* Persistence failed: this runtime refuses the incident, and what it remembers of the
\* workflow is never used again.
Blocks(r) == /\ pc' = [pc EXCEPT ![r] = "blocked"]
             /\ mem' = [mem EXCEPT ![r] = NoWorkflow]

-----------------------------------------------------------------------------
(* The surroundings.                                                       *)

\* Another writer appends to the incident, or a human changes or closes it.
IncidentMoves ==
  /\ incident.anchor < MaxAnchor
  /\ \E closed \in {incident.closed, TRUE} :
       incident' = [anchor |-> incident.anchor + 1, closed |-> closed]
  /\ UNCHANGED <<checkpoint, pc, mem, ledger, ghosts>>

\* The durable executor, its recovery and the human reconciler move the intent on.
LedgerStep ==
  {<<"pending", "busy">>, <<"busy", "pending">>, <<"busy", "succeeded">>, <<"busy", "failed">>,
   <<"busy", "uncertain">>, <<"uncertain", "succeeded">>, <<"uncertain", "failed">>}

LedgerMoves ==
  /\ \E to \in Lifecycles : <<ledger, to>> \in LedgerStep /\ ledger' = to
  /\ UNCHANGED <<incident, checkpoint, pc, mem, ghosts>>

-----------------------------------------------------------------------------
(* Starting, restoring, claiming and publishing.                           *)

\* start: the first checkpoint of the incident; there is one workflow per incident.
Start(r, commit) ==
  LET first == Fresh(incident.anchor)
  IN /\ pc[r] = "absent"
     /\ checkpoint' = IF checkpoint.stored \/ ~Applied(commit) THEN checkpoint
                      ELSE [NoCheckpoint EXCEPT !.stored = TRUE, !.cursor = first]
     /\ IF checkpoint.stored \/ commit # "ok" THEN Blocks(r) ELSE Holds(r, "idle", first)
     /\ UNCHANGED <<incident, ledger, ghosts>>

\* Wrong on purpose, for a run that must reject it: any stored review is good enough.
AnyReview(c, reviewed) == TRUE

\* validate_sources: the review was given for this decision, at this snapshot.
SourcesValid(c, reviewed) == reviewed = c.decision /\ reviewed = c.anchor

\* restore refuses a claimed checkpoint and, before dispatch, one whose incident moved.
Restore(r) ==
  LET c == checkpoint.cursor
  IN /\ pc[r] = "absent"
     /\ checkpoint.stored
     /\ checkpoint.claim = NoRuntime
     /\ c.step \notin OutcomeSteps =>
          /\ c.anchor = incident.anchor
          /\ c.review # "none" => SourcesValid(c, c.reviewed)
     /\ pc' = [pc EXCEPT ![r] = "idle"]
     /\ mem' = [mem EXCEPT ![r] = [revision |-> checkpoint.revision,
                                   cursor |-> [c EXCEPT !.promoted = FALSE]]]
     /\ UNCHANGED <<incident, checkpoint, ledger, ghosts>>

\* Wrong on purpose, for a run that must reject it: a claim is taken over.
ClaimStolen(r) == checkpoint.revision = mem[r].revision

\* CheckpointStore.claim: compare and set on the revision; a claim is never taken over.
CanClaim(r) == checkpoint.revision = mem[r].revision /\ checkpoint.claim = NoRuntime

\* advance: the revision is reserved before anything else is done.
Begin(r, commit) ==
  /\ pc[r] = "idle"
  /\ mem[r].revision < MaxRevision
  /\ IF CanClaim(r)
     THEN /\ checkpoint' = IF Applied(commit) THEN [checkpoint EXCEPT !.claim = r] ELSE checkpoint
          /\ IF commit = "ok"
             THEN /\ Holds(r, "claimed", mem[r].cursor)
                  /\ begun' = [begun EXCEPT ![mem[r].revision] = @ + 1]
             ELSE Blocks(r) /\ UNCHANGED begun
     ELSE Blocks(r) /\ UNCHANGED <<checkpoint, begun>>
  /\ UNCHANGED <<incident, ledger, plans, collected, dispatches, basis>>

\* publish: the claimant replaces the cursor, raises the revision and drops the claim.
Publish(r, commit) ==
  LET next == mem[r].revision + 1
  IN /\ pc[r] = "stepped"
     /\ checkpoint.claim = r /\ checkpoint.revision = mem[r].revision
     /\ checkpoint' = IF ~Applied(commit) THEN checkpoint
                      ELSE [checkpoint EXCEPT !.revision = next, !.claim = NoRuntime,
                                              !.cursor = mem[r].cursor]
     /\ IF commit = "ok"
        THEN /\ pc' = [pc EXCEPT ![r] = "idle"]
             /\ mem' = [mem EXCEPT ![r].revision = next]
        ELSE Blocks(r)
     /\ UNCHANGED <<incident, ledger, ghosts>>

\* A storage error, a clock behind the checkpoint, a cancellation: the claim stays.
Fails(r) ==
  /\ pc[r] \notin {"absent", "blocked"}
  /\ Blocks(r)
  /\ UNCHANGED <<incident, checkpoint, ledger, ghosts>>

Crash(r) ==
  /\ pc[r] # "absent"
  /\ pc' = [pc EXCEPT ![r] = "absent"]
  /\ mem' = [mem EXCEPT ![r] = NoWorkflow]
  /\ UNCHANGED <<incident, checkpoint, ledger, ghosts>>

-----------------------------------------------------------------------------
(* Inside a step: the checks every advance makes.                          *)

\* Runtime r has claimed its revision and is about to do the step of its cursor.
At(r, step) == pc[r] = "claimed" /\ mem[r].cursor.step = step

\* The step may use the incident: it is the one the cursor is anchored to, and open.
Works(r, step) ==
  /\ At(r, step)
  /\ step \notin OutcomeSteps
  /\ mem[r].cursor.anchor = incident.anchor
  /\ ~incident.closed

Unaffected == UNCHANGED <<incident, checkpoint, ledger, ghosts>>

\* The incident moved: the workflow waits where it is.  Closed: it is over.
IncidentRefuses(r) ==
  LET c == mem[r].cursor
  IN /\ pc[r] = "claimed" /\ c.step \notin OutcomeSteps
     /\ \/ c.anchor # incident.anchor /\ Ends(r, [c EXCEPT !.failure = "validation_failure"])
        \/ /\ c.anchor = incident.anchor /\ incident.closed
           /\ Ends(r, [c EXCEPT !.step = "complete", !.failure = "none"])
     /\ Unaffected

\* A review, promotion or approval that is not exactly the one this workflow needs.
InvalidInput(r) ==
  /\ \E step \in Steps : Works(r, step)
  /\ Ends(r, [mem[r].cursor EXCEPT !.failure = "validation_failure"])
  /\ Unaffected

\* Accepting a human review is a step of its own.
AcceptReview(r, outcome, reviewed) ==
  LET c == mem[r].cursor
  IN /\ Works(r, "plan") \/ Works(r, "govern")
     /\ c.decision # None
     /\ c.review = "none"
     /\ SourcesValid(c, reviewed)
     /\ Ends(r, [c EXCEPT !.review = outcome, !.reviewed = reviewed, !.failure = "none",
                          !.step = IF outcome = "investigate" THEN "plan" ELSE "govern"])
     /\ Unaffected

StageFailure(step) ==
  CASE step \in {"analyze", "decide"} -> "analysis_failure"
    [] step \in {"govern", "act"}     -> "governance_blocked"
    [] step \in {"plan", "route"}     -> "investigation_failed"
    [] OTHER                          -> "validation_failure"

\* An exception in the step ends the workflow; there is no retry.
Terminated(c) == [c EXCEPT !.step = "complete", !.failure = StageFailure(c.step)]

\* The planner, the tool adapter, the analysis or a governance check raises; so does
\* publication of evidence or analysis when the incident moved meanwhile.
StepRaises(r) ==
  /\ \/ \E step \in Steps : Works(r, step)
     \/ pc[r] \in {"collected", "assessed", "intending"}
  /\ Ends(r, Terminated(mem[r].cursor))
  /\ Unaffected

-----------------------------------------------------------------------------
(* The steps.                                                              *)

Observe(r, evident) ==
  /\ Works(r, "observe")
  /\ Ends(r, [mem[r].cursor EXCEPT !.step = IF evident THEN "route" ELSE "plan",
                                   !.failure = "none"])
  /\ Unaffected

\* Wrong on purpose, for a run that must reject it: a refused question counts as a round.
LoopGuardCounts(c) ==
  [c EXCEPT !.step = "plan", !.failure = "investigation_loop_guard", !.rounds = @ + 1]

LoopGuard(c) == [c EXCEPT !.step = "plan", !.failure = "investigation_loop_guard"]

BudgetSpent(c) == c.rounds >= MaxRounds

PlanRefused(r) ==
  /\ Works(r, "plan")
  /\ BudgetSpent(mem[r].cursor)
  /\ Ends(r, LoopGuard(mem[r].cursor))
  /\ Unaffected

\* One question to the planner; a plan that repeats an input spends the whole budget.
Plan(r, plan) ==
  LET c == mem[r].cursor
  IN /\ Works(r, "plan")
     /\ ~BudgetSpent(c)
     /\ plans' = plans + 1
     /\ Ends(r, IF ToSet(plan) \cap c.attempted # {}
                THEN LoopGuard([c EXCEPT !.rounds = MaxRounds])
                ELSE [c EXCEPT !.pending = plan, !.rounds = @ + 1, !.step = "route",
                               !.failure = "none"])
     /\ UNCHANGED <<incident, checkpoint, ledger, begun, collected, dispatches, basis>>

\* Wrong on purpose, for a run that must reject it: the inputs of the running plan are
\* not compared with those already executed.
RepeatedNever(c) == FALSE

Repeated(c) == Head(c.pending) \in c.attempted

RepeatRefused(r) ==
  LET c == mem[r].cursor
  IN /\ Works(r, "route") /\ c.pending # <<>>
     /\ Repeated(c)
     /\ Ends(r, LoopGuard([c EXCEPT !.rounds = MaxRounds]))
     /\ Unaffected

\* One pending read-only step of the plan is executed.
Collect(r) ==
  LET c == mem[r].cursor
  IN /\ Works(r, "route") /\ c.pending # <<>>
     /\ ~Repeated(c)
     /\ collected' = [collected EXCEPT ![Head(c.pending)] = @ + 1]
     /\ Holds(r, "collected", [c EXCEPT !.attempted = @ \cup {Head(c.pending)},
                                        !.pending = Tail(@)])
     /\ UNCHANGED <<incident, checkpoint, ledger, begun, plans, dispatches, basis>>

\* New evidence makes the analysis and the human review made before it void.
Superseded(c, anchor) ==
  [c EXCEPT !.anchor = anchor, !.assessment = None, !.decision = None, !.review = "none",
            !.reviewed = None, !.response = None, !.failure = "none"]

\* append_evidence: compare and set on the anchor of the incident.
AppendEvidence(r, commit) ==
  LET next == incident.anchor + 1
  IN /\ pc[r] = "collected"
     /\ mem[r].cursor.anchor = incident.anchor
     /\ incident.anchor < MaxAnchor
     /\ incident' = IF Applied(commit) THEN [incident EXCEPT !.anchor = next] ELSE incident
     /\ IF commit = "ok" THEN Ends(r, Superseded(mem[r].cursor, next)) ELSE Blocks(r)
     /\ UNCHANGED <<checkpoint, ledger, ghosts>>

\* No pending input is left: analyse, or reuse the assessment.
RouteOn(r) ==
  LET c == mem[r].cursor
  IN /\ Works(r, "route") /\ c.pending = <<>>
     /\ Ends(r, [c EXCEPT !.step = IF c.assessment # None THEN "decide" ELSE "analyze",
                          !.failure = "none"])
     /\ Unaffected

\* The models and the assessor run; the previous decision is void.
Analyze(r) ==
  /\ Works(r, "analyze")
  /\ Holds(r, "assessed", [mem[r].cursor EXCEPT !.decision = None, !.review = "none",
                                                !.reviewed = None, !.response = None])
  /\ Unaffected

\* append_assessment: compare and set; an analysis without new facts is no revision.
AppendAssessment(r, facts, commit) ==
  LET next == IF facts THEN incident.anchor + 1 ELSE incident.anchor
      c == mem[r].cursor
  IN /\ pc[r] = "assessed"
     /\ c.anchor = incident.anchor
     /\ next \in Anchors
     /\ incident' = IF Applied(commit) THEN [incident EXCEPT !.anchor = next] ELSE incident
     /\ IF commit = "ok"
        THEN Ends(r, [c EXCEPT !.anchor = next, !.assessment = next, !.step = "decide",
                               !.failure = "none"])
        ELSE Blocks(r)
     /\ UNCHANGED <<checkpoint, ledger, ghosts>>

Decide(r, more) ==
  LET c == mem[r].cursor
  IN /\ Works(r, "decide")
     /\ Ends(r, [c EXCEPT !.decision = c.anchor, !.step = IF more THEN "plan" ELSE "govern",
                          !.failure = "none"])
     /\ Unaffected

\* GOVERN without what it needs next: a review, candidates, or a promotion.
GovernWaits(r) ==
  LET c == mem[r].cursor
  IN /\ Works(r, "govern")
     /\ c.review # "rejected"
     /\ Ends(r, [c EXCEPT !.failure = "none"])
     /\ Unaffected

GovernRejected(r) ==
  /\ Works(r, "govern")
  /\ mem[r].cursor.review = "rejected"
  /\ Ends(r, Terminated(mem[r].cursor))
  /\ Unaffected

\* Candidates of the caller become the response plan; without a promotion it waits.
PlanResponse(r) ==
  LET c == mem[r].cursor
  IN /\ Works(r, "govern")
     /\ c.review \in {"confirm", "investigate"} /\ SourcesValid(c, c.reviewed)
     /\ c.response = None
     /\ Ends(r, [c EXCEPT !.response = c.anchor, !.failure = "none"])
     /\ Unaffected

\* A promotion that originates from this response plan, without a Tool Approval it needs.
ApprovalMissing(r) ==
  LET c == mem[r].cursor
  IN /\ Works(r, "govern")
     /\ c.response # None /\ c.review \notin {"none", "rejected"}
     /\ Ends(r, [c EXCEPT !.promoted = TRUE, !.failure = "governance_blocked"])
     /\ Unaffected

\* The same with every approval in place: the execution intent is created next.
Authorize(r) ==
  LET c == mem[r].cursor
  IN /\ Works(r, "govern")
     /\ c.response # None /\ c.review \notin {"none", "rejected"}
     /\ Holds(r, "intending", [c EXCEPT !.promoted = TRUE])
     /\ Unaffected

\* ExecutionStore.create: an intent the ledger already holds is returned as it is.
CreateIntent(r, commit) ==
  LET c == mem[r].cursor
  IN /\ pc[r] = "intending"
     /\ ledger' = IF ledger = "absent" /\ Applied(commit) THEN "pending" ELSE ledger
     /\ basis' = IF ledger = "absent" THEN c ELSE basis
     /\ IF commit = "ok"
        THEN Ends(r, [c EXCEPT !.intent = TRUE, !.step = "act", !.failure = "none"])
        ELSE Blocks(r)
     /\ UNCHANGED <<incident, checkpoint, begun, plans, collected, dispatches>>

\* ACT without execute=True.
ActWaits(r) ==
  /\ Works(r, "act")
  /\ Ends(r, [mem[r].cursor EXCEPT !.failure = "none"])
  /\ Unaffected

Settled == ledger \in {"succeeded", "failed"}

\* Wrong on purpose, for runs that must reject them: a pending intent is offered for
\* dispatch again, or an intent whose outcome is uncertain is taken for failed.
OutcomeRetried(c, current) ==
  IF ledger = "pending"
  THEN [c EXCEPT !.step = "act", !.failure = "none"]
  ELSE [c EXCEPT !.step = IF current = "evaluate" THEN "complete" ELSE "evaluate"]

OutcomeAssumed(c, current) ==
  IF ledger = "pending"
  THEN [c EXCEPT !.step = "recover", !.failure = "execution_uncertain"]
  ELSE [c EXCEPT !.step = IF current = "evaluate" THEN "complete" ELSE "evaluate",
                 !.failure = IF ledger = "succeeded" THEN "none" ELSE "execution_failed"]

\* _outcome: what the workflow makes of the execution record, seen from step `current`.
OutcomeRead(c, current) ==
  IF Settled
  THEN [c EXCEPT !.step = IF current = "evaluate" THEN "complete" ELSE "evaluate",
                 !.failure = IF ledger = "failed" THEN "execution_failed" ELSE "none"]
  ELSE [c EXCEPT !.step = "recover", !.failure = "execution_uncertain"]

\* The record cannot be read.
OutcomeUnavailable(c) == [c EXCEPT !.step = "recover", !.failure = "execution_uncertain"]

Dispatchable == ledger = "pending"

\* ACT with execute=True: RECOVER is selected, then a pending intent is executed.
Dispatch(r) ==
  LET c == mem[r].cursor
  IN /\ Works(r, "act")
     /\ Dispatchable
     /\ dispatches' = dispatches + 1
     /\ Holds(r, "dispatching", [c EXCEPT !.step = "recover"])
     /\ UNCHANGED <<incident, checkpoint, ledger, begun, plans, collected, basis>>

\* execute returned or raised, or the intent was not pending: only the record counts.
DispatchEnds(r) ==
  LET c == mem[r].cursor
  IN /\ \/ pc[r] = "dispatching"
        \/ Works(r, "act") /\ ~Dispatchable
     /\ Ends(r, OutcomeRead(c, "act")) \/ Ends(r, OutcomeUnavailable(c))
     /\ Unaffected

\* RECOVER and EVALUATE look at the record and never execute anything.
ReadOutcome(r) ==
  LET c == mem[r].cursor
  IN /\ At(r, "recover") \/ At(r, "evaluate")
     /\ Ends(r, OutcomeRead(c, c.step)) \/ Ends(r, OutcomeUnavailable(c))
     /\ Unaffected

Terminal(r) ==
  /\ At(r, "complete")
  /\ Ends(r, mem[r].cursor)
  /\ Unaffected

-----------------------------------------------------------------------------
Step(r) ==
  \/ IncidentRefuses(r) \/ InvalidInput(r) \/ StepRaises(r)
  \/ \E outcome \in Outcomes, reviewed \in Anchors : AcceptReview(r, outcome, reviewed)
  \/ \E evident \in BOOLEAN : Observe(r, evident)
  \/ PlanRefused(r) \/ (\E plan \in Plans : Plan(r, plan))
  \/ RepeatRefused(r) \/ Collect(r) \/ RouteOn(r) \/ Analyze(r)
  \/ \E more \in BOOLEAN : Decide(r, more)
  \/ GovernWaits(r) \/ GovernRejected(r) \/ PlanResponse(r) \/ ApprovalMissing(r)
  \/ Authorize(r) \/ ActWaits(r) \/ Dispatch(r) \/ DispatchEnds(r)
  \/ ReadOutcome(r) \/ Terminal(r)

Next ==
  \/ IncidentMoves \/ LedgerMoves
  \/ \E r \in Runtimes :
       \/ Restore(r) \/ Fails(r) \/ Crash(r) \/ Step(r)
       \/ \E commit \in Commit :
            \/ Start(r, commit) \/ Begin(r, commit) \/ Publish(r, commit)
            \/ AppendEvidence(r, commit) \/ CreateIntent(r, commit)
            \/ \E facts \in BOOLEAN : AppendAssessment(r, facts, commit)

Spec == Init /\ [][Next]_vars

-----------------------------------------------------------------------------
(* Properties.                                                             *)

\* The stores and the runtimes hold values of their types.
TypeOK ==
  /\ incident \in [anchor : Anchors, closed : BOOLEAN]
  /\ checkpoint \in [stored : BOOLEAN, revision : 0..MaxRevision,
                     claim : Runtimes \cup {NoRuntime}, cursor : Cursor]
  /\ pc \in [Runtimes -> {"absent", "idle", "claimed", "collected", "assessed", "intending",
                          "dispatching", "stepped", "blocked"}]
  /\ mem \in [Runtimes -> [revision : 0..MaxRevision, cursor : Cursor]]
  /\ ledger \in Lifecycles
  /\ begun \in [0..MaxRevision -> Nat] /\ plans \in Nat /\ dispatches \in Nat
  /\ collected \in [Inputs -> Nat]
  /\ basis \in Cursor

\* Work on a checkpoint revision is begun at most once: not by two runtimes, and not
\* again after a crash or an unseen commit, because a claim is never taken over.
StepBegunOnce == \A v \in DOMAIN begun : begun[v] <= 1

\* Across crashes, restarts and competing runtimes a read-only input is executed at most
\* once, and the planner is asked at most as often as the budget allows.
InvestigationBounded ==
  /\ \A k \in Inputs : collected[k] <= 1
  /\ plans <= MaxRounds

\* The execution intent was created for a response plan, a human review that does not
\* reject, and a decision that all belong to the snapshot the workflow had published last:
\* evidence or analysis that came later made earlier ones void.
IntentIsReviewed ==
  ledger # "absent" =>
    /\ basis.review \in {"confirm", "investigate"}
    /\ basis.promoted
    /\ {basis.decision, basis.reviewed, basis.response, basis.assessment} = {basis.anchor}

\* The workflow starts the executor at most once, whatever becomes of the call: an
\* uncertain or unreadable outcome is looked up, never executed again.
DispatchedOnce == dispatches <= 1

\* A workflow that created an intent and is complete reports what the ledger says.
CompletionIsReal ==
  LET c == checkpoint.cursor
  IN c.intent /\ c.step = "complete" =>
       /\ c.failure = "none" => ledger = "succeeded"
       /\ c.failure = "execution_failed" => ledger = "failed"

\* A publication is a successor: one revision more, nothing the loop guard counts is
\* taken back, and a finished workflow stays finished with the same failure.
PublishedIsSuccessor ==
  [][LET old == checkpoint.cursor
         new == checkpoint'.cursor
     IN /\ checkpoint'.revision # checkpoint.revision =>
             /\ checkpoint'.revision = checkpoint.revision + 1
             /\ old.attempted \subseteq new.attempted /\ old.rounds <= new.rounds
        /\ old.step = "complete" => new.step = "complete" /\ new.failure = old.failure]_vars

-----------------------------------------------------------------------------
(* The inductive invariant.                                                *)

Working == {"claimed", "collected", "assessed", "intending", "dispatching", "stepped"}

\* A restored workflow is the stored one; a promotion is in the memory of one runtime.
SameWorkflow(c, stored) == c = stored \/ c = [stored EXCEPT !.promoted = FALSE]

\* Only the claimant works, on the revision it claimed; what another runtime remembers is the
\* stored workflow, or older than it.
ClaimIsHeld ==
  /\ ~checkpoint.stored => checkpoint = NoCheckpoint
  /\ \A r \in Runtimes :
       /\ pc[r] \in {"absent", "blocked"} => mem[r] = NoWorkflow
       /\ pc[r] = "idle" => /\ checkpoint.stored /\ mem[r].revision <= checkpoint.revision
                            /\ mem[r].revision = checkpoint.revision =>
                                 SameWorkflow(mem[r].cursor, checkpoint.cursor)
       /\ pc[r] \in Working => /\ checkpoint.stored /\ checkpoint.claim = r
                               /\ checkpoint.revision = mem[r].revision
                               /\ mem[r].revision < MaxRevision

\* No revision is begun before it is published and claimed.
BegunWithClaim ==
  \A v \in 0..MaxRevision :
    v > checkpoint.revision \/ (v = checkpoint.revision /\ checkpoint.claim = NoRuntime) =>
      begun[v] = 0

\* Every cursor: analysis, decision, review and response are of its anchor, and nothing follows
\* an intent but its outcome.
Sound(c) ==
  /\ c.anchor <= incident.anchor
  /\ c.assessment \in {None, c.anchor}
  /\ c.step = "decide" => c.assessment # None
  /\ c.decision # None => c.decision = c.anchor /\ c.assessment = c.anchor
  /\ c.review # "none" => c.decision # None /\ SourcesValid(c, c.reviewed)
  /\ c.response # None => c.response = c.anchor
  /\ c.intent => /\ c.step \in OutcomeSteps \cup {"act"}
                 /\ ~(incident.closed /\ c.anchor = incident.anchor)
  /\ c.intent /\ c.step = "complete" =>
       /\ c.failure = "none" => ledger = "succeeded"
       /\ c.failure = "execution_failed" => ledger = "failed"

\* Between two transactions of a step the runtime stands where its cursor says.
Phase(at, c) ==
  /\ at = "collected" => c.step = "route"
  /\ at = "assessed" =>
       c.step = "analyze" /\ c.decision = None /\ c.review = "none" /\ c.response = None
  /\ at = "intending" => /\ c.step = "govern" /\ c.promoted /\ c.response # None
                         /\ c.review \in {"confirm", "investigate"}
                         /\ ~(incident.closed /\ c.anchor = incident.anchor)
  /\ at = "dispatching" => c.step = "recover"

\* What was done outside is recorded in the cursor that the workflow goes on from.
Records(c) ==
  /\ plans <= c.rounds
  /\ \A k \in Inputs : collected[k] # 0 => k \in c.attempted
  /\ dispatches # 0 => c.step \in OutcomeSteps

Successor(old, new) ==
  /\ old.attempted \subseteq new.attempted /\ old.rounds <= new.rounds
  /\ old.step = "complete" => new.step = "complete" /\ new.failure = old.failure

CursorsOK ==
  /\ Sound(checkpoint.cursor) /\ \A r \in Runtimes : Sound(mem[r].cursor)
  /\ checkpoint.claim = NoRuntime => Records(checkpoint.cursor)
  /\ \A r \in Runtimes : pc[r] \in Working =>
       /\ Phase(pc[r], mem[r].cursor)
       /\ Records(mem[r].cursor)
       /\ Successor(checkpoint.cursor, mem[r].cursor)

IInv ==
  /\ TypeOK /\ ClaimIsHeld /\ BegunWithClaim /\ CursorsOK
  /\ StepBegunOnce /\ InvestigationBounded /\ IntentIsReviewed /\ DispatchedOnce
=============================================================================

--------------------------- MODULE RealtimeQueue ----------------------------
(***************************************************************************)
(* The common event service (src/soc_agent/realtime): a collector reads an *)
(* operating system log, or an explicit fixture file, behind a durable     *)
(* cursor; EventQueue stores the events; drain runs each one through       *)
(* source evidence, the optional external model and the governed workflow. *)
(*                                                                         *)
(* The service is one process behind an exclusive lock.  Queue, runtime    *)
(* store and log are three stores that no transaction spans: every commit  *)
(* is a step of its own, the process may die between any two of them, and  *)
(* the log grows and is rotated meanwhile.                                 *)
(***************************************************************************)
EXTENDS Integers, Sequences, FiniteSets, SequencesExt

CONSTANTS
  MaxRecords,    \* bound: the log produces the records 1..MaxRecords, in order
  FixtureFile,   \* the events of the fixture file, duplicates included
  IncidentOf,    \* event -> incident_id
  HasFeatures,   \* the events with a feature_payload
  Observations,  \* distinct observations of a feature_payload, at most 3 in the code
  NoEvent,       \* what the service holds between two claims
  Capacity,      \* queue capacity: PENDING and CLAIMED rows
  Retention,     \* bound on all rows, 100000 in the code
  RetryLimit,    \* claims of one event before it is POISON
  BatchSize,     \* records one poll asks for
  StepBudget,    \* workflow steps one claim may take, 32 in the code
  RotationRaces  \* TRUE: the log may rotate between the probe and the read

LogRecords == 1..MaxRecords
Events == LogRecords \cup ToSet(FixtureFile)
Incidents == {IncidentOf[e] : e \in Events}

ASSUME QueueAssumption ==
  /\ MaxRecords \in Nat
  /\ IsFiniteSet(ToSet(FixtureFile)) /\ FixtureFile \in Seq(ToSet(FixtureFile))
  /\ ToSet(FixtureFile) \cap LogRecords = {}
  /\ NoEvent \notin Events
  /\ HasFeatures \subseteq ToSet(FixtureFile)
  /\ {Observations, Capacity, Retention, RetryLimit, BatchSize, StepBudget} \subseteq Nat \ {0}
  /\ RotationRaces \in BOOLEAN

VARIABLES
  produced,   \* the newest record of the log, 0 for none
  oldest,     \* the oldest record the log still retains
  rows,       \* realtime_events: status and attempts of each event
  order,      \* the stored events in rowid order
  cursor,     \* realtime_cursors: the last log record enqueued, 0 for none
  source,     \* --source of the running service
  pc,         \* where the service stands
  after,      \* what follows the current drain: poll, retry or end
  batch,      \* collected events not enqueued yet
  current,    \* the event of the claim being processed
  steps,      \* workflow steps the current claim has taken
  bound,      \* observations the current claim has bound to its incident
  evidence,   \* the events whose source record the incident retains, in order
  features,   \* how many feature records the incident retains as evidence
  context,    \* external_runtime_requirements / _incidents of an incident
  inferences, \* how often the external model ran for an incident
  workflow    \* workflow_checkpoints: none, ready, claimed or resting

log == <<produced, oldest>>
queue == <<rows, order, cursor>>
service == <<source, pc, after, batch, current, steps, bound>>
runtime == <<evidence, features, context, inferences, workflow>>
vars == <<log, queue, service, runtime>>

-----------------------------------------------------------------------------
Commit == {"ok", "rolled_back", "unseen"}
Applied(commit) == commit # "rolled_back"
Unstored == [status |-> "NONE", attempts |-> 0]

Stored == {e \in Events : rows[e].status # "NONE"}
Active == {e \in Events : rows[e].status \in {"PENDING", "CLAIMED"}}
Pending == {e \in Events : rows[e].status = "PENDING"}
Settled(e) == rows[e].status \in {"DONE", "POISON"}

Incident == IncidentOf[current]

\* The service goes on to step `at`; where it stands is all that changes.
Goes(at) ==
  /\ pc' = at
  /\ UNCHANGED <<source, after, batch, current, steps, bound>>

Drain(then) ==
  /\ pc' = "claim"
  /\ after' = then
  /\ UNCHANGED <<source, batch, current, steps, bound>>

\* main returns: memory and lock are gone, the stores stay.
Stops ==
  /\ pc' = "stopped"
  /\ after' = "end"
  /\ batch' = <<>>
  /\ current' = NoEvent
  /\ steps' = 0 /\ bound' = 0
  /\ UNCHANGED source

\* Wrong on purpose, for a run that must reject it: an exception in process is swallowed
\* and the event acknowledged.
FailureAcknowledged == Goes("ack")

\* An exception in process: drain records the failure of the claim.
Failure == Goes("fail")

Init ==
  /\ produced = 0 /\ oldest = 1
  /\ rows = [e \in Events |-> Unstored] /\ order = <<>> /\ cursor = 0
  /\ source = "log" /\ pc = "stopped" /\ after = "end"
  /\ batch = <<>> /\ current = NoEvent /\ steps = 0 /\ bound = 0
  /\ evidence = [n \in Incidents |-> <<>>]
  /\ features = [n \in Incidents |-> 0]
  /\ context = [n \in Incidents |-> "none"]
  /\ inferences = [n \in Incidents |-> 0]
  /\ workflow = [n \in Incidents |-> "none"]

-----------------------------------------------------------------------------
(* The log and the process.                                                *)

LogGrows ==
  /\ produced < MaxRecords
  /\ produced' = produced + 1
  /\ UNCHANGED <<oldest, queue, service, runtime>>

LogRotates ==
  /\ oldest <= produced
  /\ pc = "read" => RotationRaces
  /\ oldest' = oldest + 1
  /\ UNCHANGED <<produced, queue, service, runtime>>

\* Wrong on purpose, for a run that must reject it: recovery leaves claimed rows alone.
RecoveredNever(row, limit) == row

\* recover: a claim left by a dead process becomes POISON or PENDING.
Recovered(row, limit) ==
  IF row.status # "CLAIMED" THEN row
  ELSE [row EXCEPT !.status = IF row.attempts >= limit THEN "POISON" ELSE "PENDING"]

\* main takes the exclusive lock and recovers the queue before anything else.
Start(from, commit) ==
  /\ pc = "stopped"
  /\ rows' = IF Applied(commit) THEN [e \in Events |-> Recovered(rows[e], RetryLimit)] ELSE rows
  /\ IF commit = "ok"
     THEN /\ source' = from
          /\ pc' = "claim"
          /\ after' = "poll"
          /\ UNCHANGED <<batch, current, steps, bound>>
     ELSE UNCHANGED service
  /\ UNCHANGED <<log, order, cursor, runtime>>

\* The batch is complete: sleep and start the next one, or the last one was done.
EndOfBatch ==
  /\ pc = "wait"
  /\ Drain("poll") \/ Stops
  /\ UNCHANGED <<log, queue, runtime>>

\* The process is killed or interrupted.
Crash ==
  /\ pc # "stopped"
  /\ Stops
  /\ UNCHANGED <<log, queue, runtime>>

-----------------------------------------------------------------------------
(* Collection.                                                             *)

\* poll: before it reads behind a cursor the collector asks for the record itself; a
\* log that no longer has it, or a command that fails, ends the service.
Probe ==
  /\ pc = "probe"
  /\ \/ (cursor # 0 => cursor >= oldest)
        /\ Goes("read")
     \/ Stops
  /\ UNCHANGED <<log, queue, runtime>>

\* The first BatchSize retained records after the cursor, oldest first.
Collected ==
  LET first == IF cursor + 1 > oldest THEN cursor + 1 ELSE oldest
      last == IF first + BatchSize - 1 < produced THEN first + BatchSize - 1 ELSE produced
  IN [k \in 1..(IF last < first THEN 0 ELSE last - first + 1) |-> first + k - 1]

\* The for loop over the collected events starts; with none the last drain follows.
Receive(events) ==
  /\ batch' = events
  /\ pc' = IF events = <<>> THEN "claim" ELSE "enqueue"
  /\ after' = IF events = <<>> THEN "end" ELSE "poll"
  /\ UNCHANGED <<source, current, steps, bound>>

Read ==
  /\ pc = "read"
  /\ Receive(Collected) \/ Stops
  /\ UNCHANGED <<log, queue, runtime>>

ReadFixture ==
  /\ pc = "fixture"
  /\ Receive(FixtureFile) \/ Stops
  /\ UNCHANGED <<log, queue, runtime>>

\* Wrong on purpose, for runs that must reject them.
FullOneTooLate == Cardinality(Active) > Capacity \/ Cardinality(Stored) >= Retention
EndOfBatchCursor(e) == IF e \in LogRecords THEN Last(batch) ELSE cursor
InsertedAgain(e) == [rows EXCEPT ![e] = [status |-> "PENDING", attempts |-> 0]]

Full == Cardinality(Active) >= Capacity \/ Cardinality(Stored) >= Retention

\* The cursor enqueue publishes with event e; a fixture has none.
CursorAfter(e) == IF e \in LogRecords THEN e ELSE cursor

\* The rows after enqueue of e: a stored event stays as it is.
Inserted(e) ==
  IF e \in Stored THEN rows ELSE [rows EXCEPT ![e] = [status |-> "PENDING", attempts |-> 0]]

\* enqueue: dedup, insert and cursor in one transaction.  QueueFull changes nothing; the
\* service drains once and tries again, and gives up when the queue is still full.
Enqueue(commit) ==
  LET e == Head(batch)
      full == e \notin Stored /\ Full
  IN /\ pc = "enqueue"
     /\ IF full \/ ~Applied(commit) THEN UNCHANGED queue
        ELSE /\ rows' = Inserted(e)
             /\ order' = IF e \in Stored THEN order ELSE Append(order, e)
             /\ cursor' = CursorAfter(e)
     /\ IF full THEN IF after = "retry" THEN Stops ELSE Drain("retry")
        ELSE IF commit # "ok" THEN Stops
        ELSE Receive(Tail(batch))
     /\ UNCHANGED <<log, runtime>>

-----------------------------------------------------------------------------
(* drain and process.                                                      *)

\* What follows a drain that found the queue empty.
AfterDrain ==
  CASE after = "poll"  -> IF source = "log" THEN "probe" ELSE "fixture"
    [] after = "retry" -> "enqueue"
    [] after = "end"   -> "wait"

\* claim: the oldest pending row, one attempt more.
ClaimNext(commit) ==
  /\ pc = "claim"
  /\ \/ Pending = {} /\ Goes(AfterDrain) /\ UNCHANGED rows
     \/ \E i \in DOMAIN order :
          LET e == order[i]
          IN /\ e \in Pending /\ \A j \in 1..i-1 : order[j] \notin Pending
             /\ rows' = IF ~Applied(commit) THEN rows
                        ELSE [rows EXCEPT ![e] = [status |-> "CLAIMED", attempts |-> @.attempts + 1]]
             /\ IF commit = "ok"
                THEN /\ pc' = "retain"
                     /\ current' = e
                     /\ steps' = 0 /\ bound' = 0
                     /\ UNCHANGED <<source, after, batch>>
                ELSE Stops
  /\ UNCHANGED <<log, order, cursor, runtime>>

\* Wrong on purpose, for a run that must reject it: the retained record is not looked up.
RetainedNever(n, e) == FALSE

\* The source record of e is already part of the evidence of incident n.
Retained(n, e) == e \in ToSet(evidence[n])

\* The source record becomes evidence of its incident, once; an incident of another
\* source record, an invalid event or a failed commit fails the claim.
Retain(commit) ==
  /\ pc = "retain"
  /\ IF ToSet(evidence[Incident]) \ {current} # {} THEN Failure /\ UNCHANGED evidence
     ELSE /\ evidence' = IF ~Applied(commit) \/ Retained(Incident, current) THEN evidence
                         ELSE [evidence EXCEPT ![Incident] = Append(@, current)]
          /\ IF commit # "ok" THEN Failure
             ELSE Goes(IF current \in HasFeatures THEN "infer" ELSE "open")
  /\ UNCHANGED <<log, queue, features, context, inferences, workflow>>

\* binding() refuses an incident whose inference was required and did not get attached.
CheckBinding ==
  /\ pc = "infer"
  /\ CASE context[Incident] = "attached" -> Goes("open")
       [] context[Incident] \in {"required", "failed"} -> Failure
       [] context[Incident] = "none" -> Goes("bind")
  /\ UNCHANGED <<log, queue, runtime>>

\* bind_features appends each distinct observation as evidence of its own, under a fresh
\* identity and in a transaction of its own: nothing looks for the records that an earlier
\* claim left.  A row that is refused fails the claim like a commit that failed.
BindFeature(commit) ==
  /\ pc = "bind" /\ bound < Observations
  /\ features' = IF Applied(commit) THEN [features EXCEPT ![Incident] = @ + 1] ELSE features
  /\ IF commit # "ok" THEN Failure
     ELSE /\ bound' = bound + 1
          /\ UNCHANGED <<source, pc, after, batch, current, steps>>
  /\ UNCHANGED <<log, queue, evidence, context, inferences, workflow>>

\* With every observation bound the requirement is stored before the model runs.
RequireInference(commit) ==
  /\ pc = "bind" /\ bound = Observations
  /\ context' = IF Applied(commit) THEN [context EXCEPT ![Incident] = "required"] ELSE context
  /\ IF commit = "ok" THEN Goes("attach") ELSE Failure
  /\ UNCHANGED <<log, queue, evidence, features, inferences, workflow>>

\* The model runs; its result is attached in one transaction, its failure recorded in one.
Infer(result, commit) ==
  /\ pc = "attach"
  /\ inferences' = [inferences EXCEPT ![Incident] = @ + 1]
  /\ context' = IF Applied(commit) THEN [context EXCEPT ![Incident] = result] ELSE context
  /\ IF result = "attached" /\ commit = "ok" THEN Goes("open") ELSE Failure
  /\ UNCHANGED <<log, queue, evidence, features, workflow>>

\* start creates the checkpoint; restore refuses one whose step was interrupted.
Open(commit) ==
  /\ pc = "open"
  /\ \/ /\ workflow[Incident] = "none"
        /\ workflow' = IF Applied(commit) THEN [workflow EXCEPT ![Incident] = "ready"]
                       ELSE workflow
        /\ IF commit = "ok" THEN Goes("advance") ELSE Failure
     \/ workflow[Incident] = "claimed" /\ Failure /\ UNCHANGED workflow
     \/ workflow[Incident] \in {"ready", "resting"} /\ Goes("advance") /\ UNCHANGED workflow
  /\ UNCHANGED <<log, queue, evidence, features, context, inferences>>

\* advance reserves the checkpoint before the step begins; a clock behind the checkpoint
\* is refused like a commit that failed.  The 33rd step is not taken.
Advance(commit) ==
  /\ pc = "advance"
  /\ IF steps = StepBudget THEN Failure /\ UNCHANGED workflow
     ELSE /\ workflow' = IF Applied(commit) THEN [workflow EXCEPT ![Incident] = "claimed"]
                         ELSE workflow
          /\ IF commit # "ok" THEN Failure
             ELSE /\ pc' = "publish"
                  /\ steps' = steps + 1
                  /\ UNCHANGED <<source, after, batch, current, bound>>
  /\ UNCHANGED <<log, queue, evidence, features, context, inferences>>

\* The step ends and its checkpoint is published: resting is terminal or waiting for a
\* human.  A step or a publication that fails leaves the checkpoint claimed.
Publish(next, commit) ==
  /\ pc = "publish"
  /\ workflow' = IF Applied(commit) THEN [workflow EXCEPT ![Incident] = next] ELSE workflow
  /\ IF commit = "ok" THEN Goes(IF next = "resting" THEN "ack" ELSE "advance") ELSE Failure
  /\ UNCHANGED <<log, queue, evidence, features, context, inferences>>

\* The drain goes on with the next event, or the error ends the service.
Proceed(commit) ==
  IF commit = "ok"
  THEN /\ pc' = "claim"
       /\ current' = NoEvent
       /\ steps' = 0 /\ bound' = 0
       /\ UNCHANGED <<source, after, batch>>
  ELSE Stops

\* finish: the claim is acknowledged; an error here is outside the failure handling.
Finish(commit) ==
  /\ pc = "ack"
  /\ rows' = IF Applied(commit) THEN [rows EXCEPT ![current].status = "DONE"] ELSE rows
  /\ Proceed(commit)
  /\ UNCHANGED <<log, order, cursor, runtime>>

\* Wrong on purpose, for a run that must reject it: one attempt too many.
AfterFailureLate(attempts) == IF attempts > RetryLimit THEN "POISON" ELSE "PENDING"

AfterFailure(attempts) == IF attempts >= RetryLimit THEN "POISON" ELSE "PENDING"

\* fail, then the exception goes on and ends the service.
FailClaim(commit) ==
  /\ pc = "fail"
  /\ rows' = IF Applied(commit)
             THEN [rows EXCEPT ![current].status = AfterFailure(rows[current].attempts)] ELSE rows
  /\ Stops
  /\ UNCHANGED <<log, order, cursor, runtime>>

-----------------------------------------------------------------------------
Serve ==
  \/ EndOfBatch \/ Probe \/ Read \/ ReadFixture \/ CheckBinding
  \/ \E commit \in Commit :
       \/ Enqueue(commit) \/ ClaimNext(commit) \/ Retain(commit)
       \/ BindFeature(commit) \/ RequireInference(commit)
       \/ \E result \in {"attached", "failed"} : Infer(result, commit)
       \/ Open(commit) \/ Advance(commit)
       \/ \E next \in {"ready", "resting"} : Publish(next, commit)
       \/ Finish(commit) \/ FailClaim(commit)

Next ==
  \/ LogGrows \/ LogRotates \/ Crash \/ Serve
  \/ \E from \in {"log", "fixture"}, commit \in Commit : Start(from, commit)

Spec == Init /\ [][Next]_vars

\* A running service goes on; an operator who keeps starting it, and a service that
\* keeps claiming, succeed in the end.
Fairness ==
  /\ WF_vars(Serve)
  /\ SF_vars(\E from \in {"log", "fixture"} : Start(from, "ok"))
  /\ SF_vars(ClaimNext("ok"))

FairSpec == Spec /\ Fairness

-----------------------------------------------------------------------------
(* Properties.                                                             *)

Row == [status : {"NONE", "PENDING", "CLAIMED", "DONE", "POISON"}, attempts : 0..RetryLimit]
Standing == {"stopped", "claim", "retain", "infer", "bind", "attach", "open", "advance",
             "publish", "ack", "fail", "probe", "read", "fixture", "enqueue", "wait"}

\* The stores and the service hold values of their types, and a pending event still has
\* an attempt left.
TypeOK ==
  /\ produced \in 0..MaxRecords /\ oldest \in 1..MaxRecords + 1
  /\ rows \in [Events -> Row]
  /\ \A e \in Events : rows[e].status = "PENDING" => rows[e].attempts < RetryLimit
  /\ ToSet(order) = Stored /\ IsInjective(order)
  /\ cursor \in LogRecords \cup {0}
  /\ source \in {"log", "fixture"}
  /\ pc \in Standing
  /\ after \in {"poll", "retry", "end"}
  /\ ToSet(batch) \subseteq Events
  /\ current \in Events \cup {NoEvent}
  /\ steps \in 0..StepBudget /\ bound \in 0..Observations
  /\ \A n \in Incidents : ToSet(evidence[n]) \subseteq Events
  /\ features \in [Incidents -> Nat]
  /\ context \in [Incidents -> {"none", "required", "failed", "attached"}]
  /\ inferences \in [Incidents -> Nat]
  /\ workflow \in [Incidents -> {"none", "ready", "claimed", "resting"}]

\* Between two stored log records no record is missing: the durable cursor moves with the
\* insertion, so a crash, backpressure or a lost commit answer loses nothing, and a log
\* that was rotated past the cursor stops the service instead of leaving a gap.
NoGap ==
  \A a, c \in Stored \cap LogRecords : \A b \in a..c : b \in Stored

\* Backpressure holds for every way rows become active: enqueue, failure and recovery.
ActiveWithinCapacity == Cardinality(Active) <= Capacity

\* An acknowledged event was processed completely: its source record is evidence, the
\* model result it asked for is attached and its workflow rests; no crash, retry or
\* failed step acknowledges less ("silently re-inferred or downgraded").
DoneIsProcessed ==
  \A e \in Events : rows[e].status = "DONE" =>
    LET n == IncidentOf[e]
    IN /\ Retained(n, e)
       /\ workflow[n] = "resting"
       /\ e \in HasFeatures => context[n] = "attached"

\* What the claims of event e may have appended as feature records.
Appendable(e) == Observations * rows[e].attempts

\* Claims are at least once, and their effects on the runtime store are bounded, not exactly
\* once: an incident keeps one source record and sees one run of the external model whatever
\* is retried, but every claim that stops before the requirement is stored leaves its feature
\* records behind, and the next one appends them again; the attempts bound how many there are.
EffectsBounded ==
  \A n \in Incidents :
    /\ Len(evidence[n]) <= 1 /\ inferences[n] <= 1
    /\ evidence[n] = <<>> => features[n] = 0
    /\ \A e \in ToSet(evidence[n]) : features[n] <= Appendable(e)

\* A settled event is a tombstone: neither a duplicate, nor recovery, nor a late
\* acknowledgement changes it.
SettledStays ==
  [][\A e \in Events : Settled(e) => rows'[e] = rows[e]]_vars

\* Every stored event is settled in the end, whatever crashes and failed commits delay
\* it: one that keeps failing becomes POISON and makes room for the next.
StoredEventSettles ==
  \A e \in Events : (e \in Stored) ~> Settled(e)

-----------------------------------------------------------------------------
(* The inductive invariant.                                                *)

\* What TypeOK leaves out of the sequences.
Sequenced ==
  /\ order \in Seq(Events) /\ batch \in Seq(Events)
  /\ evidence \in [Incidents -> Seq(Events)]

\* The steps of process, and those after the source record became evidence.
Recorded == {"infer", "bind", "attach", "open", "advance", "publish", "ack"}
Processing == Recorded \cup {"retain", "fail"}

\* The event being processed is claimed, and an incident is evidence of one source record.
ClaimIsHeld ==
  /\ pc \in Processing => current \in Events /\ rows[current].status = "CLAIMED"
  /\ pc \in Recorded => Retained(Incident, current)

\* Where process stands says what it has done for the event.
ProcessIsRecorded ==
  /\ pc = "bind" => context[Incident] = "none"
  /\ pc = "attach" => context[Incident] = "required" /\ inferences[Incident] = 0
  /\ \A n \in Incidents : context[n] = "none" => inferences[n] = 0
  /\ pc \in {"open", "advance", "publish", "ack"} /\ current \in HasFeatures =>
       context[Incident] = "attached"
  /\ pc = "ack" => workflow[Incident] = "resting"

\* A claim that may still append feature records has room for those it has not bound: what
\* the incident retains is what earlier claims appended and what this one has bound.
FeaturesAccounted ==
  /\ \A n \in Incidents : ToSet(evidence[n]) \subseteq Stored
  /\ pc \in {"retain", "infer", "bind"} /\ ToSet(evidence[Incident]) \subseteq {current} =>
       features[Incident] + Observations <= Appendable(current) + bound

\* A service that enqueues, or that drains to make room, has an event in hand.
BatchIsHeld == pc = "enqueue" \/ after = "retry" => batch # <<>>

\* The durable cursor is the newest log record that is stored.
CursorIsNewest ==
  /\ \A e \in Stored \cap LogRecords : e <= cursor
  /\ cursor # 0 => cursor \in Stored

\* The events in hand are of the fixture file, or consecutive records behind the cursor; right
\* behind it, unless nothing was ever read or the log was rotated under the read.
BatchFollows ==
  \/ ToSet(batch) \subseteq ToSet(FixtureFile)
  \/ \A k \in DOMAIN batch :
       /\ batch[k] \in LogRecords /\ batch[k] = batch[1] + k - 1 /\ batch[k] > cursor
       /\ RotationRaces \/ cursor = 0 \/ batch[1] = cursor + 1

\* The probed cursor is still in the log when the log is read.
CursorIsRetained == pc = "read" /\ ~RotationRaces /\ cursor # 0 => cursor >= oldest

IInv ==
  /\ TypeOK /\ Sequenced /\ ClaimIsHeld /\ ProcessIsRecorded /\ BatchIsHeld
  /\ CursorIsNewest /\ BatchFollows /\ CursorIsRetained
  /\ ActiveWithinCapacity /\ DoneIsProcessed /\ EffectsBounded /\ FeaturesAccounted
  /\ RotationRaces \/ NoGap
=============================================================================

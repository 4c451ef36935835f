------------------------- MODULE RealtimeQueueProofs -------------------------
(***************************************************************************)
(* Proofs about RealtimeQueue: its inductive invariant, that the queue     *)
(* keeps its capacity, that an acknowledged event was processed and that   *)
(* the log is stored without a gap, for any log, fixture file, capacity    *)
(* and number of attempts.                                                 *)
(***************************************************************************)
EXTENDS RealtimeQueue, FiniteSetTheorems, TLAPS

-----------------------------------------------------------------------------
(* Operators of the model.                                                 *)

\* The bounds of the service are positive.
LEMMA Bounds ==
  /\ Capacity \in Nat \ {0} /\ Retention \in Nat \ {0} /\ RetryLimit \in Nat \ {0}
  /\ Observations \in Nat \ {0} /\ BatchSize \in Nat \ {0} /\ StepBudget \in Nat \ {0} /\ MaxRecords \in Nat
  BY QueueAssumption

\* One attempt more allows as many feature records more as there are observations.
LEMMA Times ==
  /\ \A a \in Nat : /\ Observations * a \in Nat
                    /\ Observations * (a + 1) = Observations * a + Observations
  /\ \A a, b \in Nat : a <= b => Observations * a <= Observations * b
  BY Bounds

\* The events of a log and a fixture file are finitely many.
LEMMA FiniteEvents == IsFiniteSet(Events)
  <1>1. IsFiniteSet(LogRecords)
    BY Bounds, FS_Interval DEF LogRecords
  <1>2. QED
    BY <1>1, QueueAssumption, FS_Union DEF Events

\* An event is appended.
LEMMA Appended ==
  ASSUME NEW S, NEW s \in Seq(S), NEW e \in S
  PROVE  /\ Append(s, e) \in Seq(S) /\ Len(Append(s, e)) = Len(s) + 1
         /\ ToSet(Append(s, e)) = ToSet(s) \cup {e}
         /\ IsInjective(s) /\ e \notin ToSet(s) => IsInjective(Append(s, e))
  <1>1. /\ Append(s, e) \in Seq(S) /\ Len(s) \in Nat /\ Len(Append(s, e)) = Len(s) + 1
        /\ DOMAIN Append(s, e) = DOMAIN s \cup {Len(s) + 1} /\ DOMAIN s = 1 .. Len(s)
        /\ Append(s, e)[Len(s) + 1] = e
        /\ \A i \in DOMAIN s : Append(s, e)[i] = s[i]
    OBVIOUS
  <1>2. ToSet(Append(s, e)) = ToSet(s) \cup {e}
    BY <1>1 DEF ToSet
  <1>3. ASSUME IsInjective(s), e \notin ToSet(s)
        PROVE  IsInjective(Append(s, e))
    BY <1>1, <1>3 DEF IsInjective, ToSet
  <1>4. QED
    BY <1>1, <1>2, <1>3

\* The first event is taken.
LEMMA Rest ==
  ASSUME NEW S, NEW s \in Seq(S), s # <<>>
  PROVE  /\ Tail(s) \in Seq(S) /\ Head(s) \in S /\ Head(s) = s[1] /\ 1 \in DOMAIN s
         /\ DOMAIN s \subseteq Int /\ DOMAIN Tail(s) \subseteq Int
         /\ Tail(s) # <<>> => 1 \in DOMAIN Tail(s)
         /\ \A i \in DOMAIN Tail(s) : i + 1 \in DOMAIN s /\ Tail(s)[i] = s[i + 1]
         /\ Head(s) \in ToSet(s) /\ ToSet(Tail(s)) \subseteq ToSet(s)
  <1>1. /\ Tail(s) \in Seq(S) /\ Head(s) \in S /\ Head(s) = s[1] /\ 1 \in DOMAIN s
        /\ DOMAIN s \subseteq Int /\ DOMAIN Tail(s) \subseteq Int
        /\ Tail(s) # <<>> => 1 \in DOMAIN Tail(s)
        /\ \A i \in DOMAIN Tail(s) : i + 1 \in DOMAIN s /\ Tail(s)[i] = s[i + 1]
    OBVIOUS
  <1>2. QED
    BY <1>1 DEF ToSet

\* The events of a sequence are those at its positions.
LEMMA Elements ==
  ASSUME NEW S, NEW s \in Seq(S)
  PROVE  ToSet(s) \subseteq S /\ (Len(s) = 0 <=> s = <<>>) /\ (s = <<>> <=> ToSet(s) = {})
  <1>1. /\ DOMAIN s = 1 .. Len(s) /\ Len(s) \in Nat /\ (Len(s) = 0 <=> s = <<>>)
        /\ \A i \in DOMAIN s : s[i] \in S
    OBVIOUS
  <1>2. ToSet(s) \subseteq S
    BY <1>1 DEF ToSet
  <1>3. s # <<>> => s[1] \in ToSet(s)
    BY <1>1 DEF ToSet
  <1>4. s = <<>> => ToSet(s) = {}
    BY <1>1 DEF ToSet
  <1>5. QED
    BY <1>1, <1>2, <1>3, <1>4

\* A sequence of at most one event has one.
LEMMA OneElement ==
  ASSUME NEW S, NEW s \in Seq(S), Len(s) <= 1, NEW a \in ToSet(s), NEW b \in ToSet(s)
  PROVE  a = b
  <1>1. DOMAIN s = 1 .. Len(s) /\ Len(s) \in Nat
    OBVIOUS
  <1>2. PICK i \in DOMAIN s, j \in DOMAIN s : a = s[i] /\ b = s[j]
    BY DEF ToSet
  <1>3. i = 1 /\ j = 1
    BY <1>1, <1>2
  <1>4. QED
    BY <1>2, <1>3

\* The active rows do not become more when none is added to them.
LEMMA ActiveShrinks ==
  ASSUME IInv, Active' \subseteq Active
  PROVE  ActiveWithinCapacity'
  <1>1. IsFiniteSet(Active)
    BY FiniteEvents, FS_Subset DEF Active
  <1>2. Cardinality(Active') <= Cardinality(Active) /\ IsFiniteSet(Active')
    BY <1>1, FS_Subset
  <1>3. Cardinality(Active') \in Nat /\ Cardinality(Active) \in Nat
    BY <1>1, <1>2, FS_CardinalityType
  <1>4. QED
    BY <1>2, <1>3, Bounds DEF IInv, ActiveWithinCapacity

-----------------------------------------------------------------------------
(* What a step leaves alone.                                               *)

\* A step of the service, outside process, that changes no store.
LEMMA ServiceFrame ==
  ASSUME IInv, UNCHANGED <<queue, runtime>>, produced' \in 0 .. MaxRecords,
         oldest' \in 1 .. MaxRecords + 1, pc' \in Standing \ Processing,
         source' \in {"log", "fixture"}, after' \in {"poll", "retry", "end"},
         batch' \in Seq(Events), current' \in Events \cup {NoEvent}, steps' \in 0 .. StepBudget,
         bound' \in 0 .. Observations, BatchIsHeld', BatchFollows', CursorIsRetained'
  PROVE  IInv'
  <1> USE DEF IInv, queue, runtime
  <1>1. ToSet(batch') \subseteq Events
    BY Elements
  <1>2. Stored' = Stored /\ Active' = Active
    BY DEF Stored, Active
  <1>3. TypeOK' /\ Sequenced'
    BY <1>1, <1>2 DEF TypeOK, Sequenced
  <1>4. ClaimIsHeld' /\ ProcessIsRecorded'
    BY DEF ClaimIsHeld, ProcessIsRecorded, Processing, Recorded
  <1>5. CursorIsNewest' /\ ActiveWithinCapacity' /\ (NoGap => NoGap')
    BY <1>2 DEF CursorIsNewest, ActiveWithinCapacity, NoGap
  <1>6. DoneIsProcessed' /\ EffectsBounded'
    BY DEF DoneIsProcessed, EffectsBounded, Appendable, Retained
  <1>7. FeaturesAccounted'
    BY <1>2 DEF FeaturesAccounted, Processing, Recorded
  <1>8. QED
    BY <1>3, <1>4, <1>5, <1>6, <1>7

\* A step that changes the status of stored events: none is added, and only an event that was
\* processed is acknowledged.
LEMMA RowsFrame ==
  ASSUME IInv, UNCHANGED <<log, order, cursor, source, runtime>>,
         rows' \in [Events -> Row],
         \A e \in Events : /\ rows'[e].status = "PENDING" => rows'[e].attempts < RetryLimit
                           /\ rows'[e].status = "NONE" <=> rows[e].status = "NONE"
                           /\ rows'[e].status \in {"PENDING", "CLAIMED"} =>
                                rows[e].status \in {"PENDING", "CLAIMED"}
                           /\ rows'[e].status = "DONE" =>
                                rows[e].status = "DONE" \/ (pc = "ack" /\ e = current)
                           /\ rows[e].attempts <= rows'[e].attempts,
         pc' \in {"stopped", "claim", "retain"}, after' \in {"poll", "retry", "end"},
         batch' = batch \/ batch' = <<>>, after' = "retry" => after = "retry" /\ batch' = batch,
         current' \in Events \cup {NoEvent}, steps' \in 0 .. StepBudget, bound' \in 0 .. Observations,
         pc' = "retain" => current' \in Events /\ rows'[current'].status = "CLAIMED",
         pc' = "retain" /\ ToSet(evidence[IncidentOf[current']]) \subseteq {current'} =>
           features[IncidentOf[current']] + Observations
             <= Observations * rows'[current'].attempts + bound'
  PROVE  IInv'
  <1> USE DEF IInv, log, runtime
  <1>1. Stored' = Stored /\ Active' \subseteq Active
    BY DEF Stored, Active
  <1>2. batch' \in Seq(Events) /\ ToSet(batch') \subseteq Events
    <2>1. <<>> \in Seq(Events)
      OBVIOUS
    <2>2. batch' \in Seq(Events)
      BY <2>1 DEF Sequenced
    <2>3. QED
      BY <2>2, Elements
  <1>3. TypeOK' /\ Sequenced'
    BY <1>1, <1>2 DEF TypeOK, Sequenced, Standing
  <1>4. ClaimIsHeld' /\ ProcessIsRecorded' /\ BatchIsHeld' /\ CursorIsRetained'
    BY DEF ClaimIsHeld, ProcessIsRecorded, BatchIsHeld, CursorIsRetained, Processing, Recorded
  <1>5. CursorIsNewest' /\ (NoGap => NoGap') /\ ActiveWithinCapacity'
    BY <1>1, ActiveShrinks DEF CursorIsNewest, NoGap
  <1>6. BatchFollows'
    <2>1. CASE batch' = batch
      BY <2>1 DEF BatchFollows
    <2>2. CASE batch' = <<>>
      BY <2>2 DEF BatchFollows, ToSet
    <2>3. QED
      BY <2>1, <2>2
  <1>7. EffectsBounded'
    <2>1. SUFFICES ASSUME NEW n \in Incidents, NEW e \in ToSet(evidence[n])
                   PROVE  features[n] <= Appendable(e)'
      BY DEF EffectsBounded
    <2>2. features[n] \in Nat /\ features[n] <= Observations * rows[e].attempts /\ e \in Events
      BY DEF TypeOK, EffectsBounded, Appendable
    <2>3. /\ rows[e].attempts \in Nat /\ rows'[e].attempts \in Nat
          /\ rows[e].attempts <= rows'[e].attempts
      BY <2>2, Bounds DEF TypeOK, Row
    <2>4. Observations * rows[e].attempts <= Observations * rows'[e].attempts
      BY <2>3, Times
    <2>5. Observations * rows[e].attempts \in Nat /\ Observations * rows'[e].attempts \in Nat
      BY <2>3, Times
    <2>6. features[n] <= Observations * rows'[e].attempts
      BY <2>2, <2>4, <2>5
    <2>7. QED
      BY <2>6 DEF Appendable
  <1>8. DoneIsProcessed'
    BY DEF DoneIsProcessed, Retained, ClaimIsHeld, ProcessIsRecorded, Recorded, Incident
  <1>9. FeaturesAccounted'
    BY <1>1 DEF FeaturesAccounted, Appendable, Incident
  <1>10. QED
    BY <1>3, <1>4, <1>5, <1>6, <1>7, <1>8, <1>9

\* While the evidence of its incident is the claimed event, no event of the incident is
\* acknowledged.
LEMMA NoneDone ==
  ASSUME IInv, pc \in Recorded, NEW e \in Events, IncidentOf[e] = Incident
  PROVE  rows[e].status # "DONE"
  <1> USE DEF IInv
  <1>1. current \in Events /\ rows[current].status = "CLAIMED" /\ current \in ToSet(evidence[Incident])
    BY DEF ClaimIsHeld, Retained, Processing
  <1>2. Incident \in Incidents
    BY <1>1 DEF Incident, Incidents
  <1>3. evidence[Incident] \in Seq(Events) /\ Len(evidence[Incident]) <= 1
    BY <1>2 DEF Sequenced, EffectsBounded
  <1>4. SUFFICES ASSUME rows[e].status = "DONE"
                 PROVE  FALSE
    OBVIOUS
  <1>5. e \in ToSet(evidence[Incident])
    BY <1>4 DEF DoneIsProcessed, Retained
  <1>6. e = current
    BY <1>1, <1>3, <1>5, OneElement
  <1>7. QED
    BY <1>1, <1>4, <1>6

\* A step of process: it changes the runtime store of the one incident it works on.
LEMMA ProcessFrame ==
  ASSUME IInv, UNCHANGED <<log, queue, source, after, batch, current>>,
         pc \in Processing, pc' \in Processing, steps' \in 0 .. StepBudget,
         bound' \in 0 .. Observations,
         evidence' \in [Incidents -> Seq(Events)],
         \A n \in Incidents : /\ Len(evidence'[n]) <= 1
                              /\ ToSet(evidence[n]) \subseteq ToSet(evidence'[n]),
         ToSet(evidence'[Incident]) \subseteq ToSet(evidence[Incident]) \cup {current},
         features' \in [Incidents -> Nat],
         evidence'[Incident] = <<>> => features'[Incident] = 0,
         \A e \in ToSet(evidence'[Incident]) : features'[Incident] <= Appendable(e),
         pc' \in {"retain", "infer", "bind"} /\ ToSet(evidence'[Incident]) \subseteq {current} =>
           features'[Incident] + Observations <= Appendable(current) + bound',
         context' \in [Incidents -> {"none", "required", "failed", "attached"}],
         inferences' \in [Incidents -> Nat],
         workflow' \in [Incidents -> {"none", "ready", "claimed", "resting"}],
         \A n \in Incidents \ {Incident} :
           /\ evidence'[n] = evidence[n] /\ features'[n] = features[n]
           /\ context'[n] = context[n] /\ inferences'[n] = inferences[n] /\ workflow'[n] = workflow[n],
         pc \in Recorded \/ UNCHANGED <<context, inferences, workflow>>,
         inferences'[Incident] <= 1,
         pc' \in Recorded => current \in ToSet(evidence'[Incident]),
         ProcessIsRecorded'
  PROVE  IInv'
  <1> USE DEF IInv, log, queue
  <1>1. Stored' = Stored /\ Active' = Active
    BY DEF Stored, Active
  <1>2. \A n \in Incidents : ToSet(evidence'[n]) \subseteq Events
    BY Elements
  <1>3. TypeOK' /\ Sequenced'
    BY <1>1, <1>2 DEF TypeOK, Sequenced, Processing, Recorded, Standing
  <1>4. ClaimIsHeld'
    BY DEF ClaimIsHeld, Retained, Incident
  <1>5. BatchIsHeld' /\ CursorIsRetained' /\ BatchFollows'
    BY DEF BatchIsHeld, CursorIsRetained, BatchFollows, Processing, Recorded
  <1>6. CursorIsNewest' /\ ActiveWithinCapacity' /\ (NoGap => NoGap')
    BY <1>1 DEF CursorIsNewest, ActiveWithinCapacity, NoGap
  <1>7. EffectsBounded'
    <2>1. \A e : Appendable(e)' = Appendable(e)
      BY DEF Appendable
    <2>2. QED
      BY <2>1 DEF EffectsBounded
  <1>8. FeaturesAccounted'
    <2>1. current \in Stored /\ Incident' = Incident /\ Appendable(current)' = Appendable(current)
      BY DEF ClaimIsHeld, Stored, Incident, Appendable
    <2>2. QED
      BY <1>1, <2>1 DEF FeaturesAccounted
  <1>9. DoneIsProcessed'
    <2> SUFFICES ASSUME NEW e \in Events, rows[e].status = "DONE"
                 PROVE  /\ Retained(IncidentOf[e], e)'
                        /\ workflow'[IncidentOf[e]] = "resting"
                        /\ e \in HasFeatures => context'[IncidentOf[e]] = "attached"
      BY DEF DoneIsProcessed
    <2>1. /\ IncidentOf[e] \in Incidents /\ e \in ToSet(evidence[IncidentOf[e]])
          /\ workflow[IncidentOf[e]] = "resting"
          /\ e \in HasFeatures => context[IncidentOf[e]] = "attached"
      BY DEF DoneIsProcessed, Retained, Incidents
    <2>2. IncidentOf[e] # Incident \/ UNCHANGED <<context, inferences, workflow>>
      BY NoneDone
    <2>3. QED
      BY <2>1, <2>2 DEF Retained
  <1>10. QED
    BY <1>3, <1>4, <1>5, <1>6, <1>7, <1>8, <1>9

-----------------------------------------------------------------------------
(* The initial state, the log and the start of the service.                *)

\* Nothing is stored and nothing runs.
LEMMA InitInvariant == Init => IInv
  <1> SUFFICES ASSUME Init
               PROVE  IInv
    OBVIOUS
  <1> USE DEF Init
  <1>1. Stored = {} /\ Active = {} /\ Unstored \in Row
    BY Bounds DEF Stored, Active, Unstored, Row
  <1>2. \A S : ToSet(<<>>) = {} /\ <<>> \in Seq(S) /\ Len(<<>>) = 0
    BY DEF ToSet
  <1>3. IsInjective(<<>>)
    BY DEF IsInjective
  <1>4. TypeOK /\ Sequenced
    BY <1>1, <1>2, <1>3, Bounds DEF TypeOK, Sequenced, Unstored, Standing
  <1>5. ClaimIsHeld /\ ProcessIsRecorded /\ BatchIsHeld /\ CursorIsRetained /\ DoneIsProcessed
    BY DEF ClaimIsHeld, ProcessIsRecorded, BatchIsHeld, CursorIsRetained, DoneIsProcessed, Processing,
           Recorded, Unstored
  <1>6. CursorIsNewest /\ BatchFollows /\ NoGap
    BY <1>1, <1>2 DEF CursorIsNewest, BatchFollows, NoGap
  <1>7. ActiveWithinCapacity
    BY <1>1, Bounds, FS_EmptySet DEF ActiveWithinCapacity
  <1>8. EffectsBounded /\ FeaturesAccounted
    BY <1>2 DEF EffectsBounded, FeaturesAccounted
  <1>9. QED
    BY <1>4, <1>5, <1>6, <1>7, <1>8 DEF IInv

\* The log grows, and loses its oldest records.
LEMMA LogStep ==
  ASSUME IInv, LogGrows \/ LogRotates
  PROVE  IInv'
  <1> USE DEF IInv
  <1>1. /\ UNCHANGED <<rows, order, cursor, source, pc, after, batch, current, steps, bound, runtime>>
        /\ produced' \in 0 .. MaxRecords /\ oldest' \in 1 .. MaxRecords + 1
        /\ pc = "read" /\ ~RotationRaces => oldest' = oldest
    BY Bounds DEF LogGrows, LogRotates, queue, service, TypeOK
  <1>2. Stored' = Stored /\ Active' = Active
    BY <1>1 DEF Stored, Active
  <1>3. TypeOK' /\ Sequenced'
    BY <1>1, <1>2 DEF TypeOK, Sequenced, runtime
  <1>4. ClaimIsHeld' /\ ProcessIsRecorded' /\ BatchIsHeld' /\ CursorIsRetained'
    BY <1>1 DEF ClaimIsHeld, ProcessIsRecorded, BatchIsHeld, CursorIsRetained, Retained, Incident,
                runtime
  <1>5. CursorIsNewest' /\ BatchFollows' /\ ActiveWithinCapacity' /\ (NoGap => NoGap')
    BY <1>1, <1>2 DEF CursorIsNewest, BatchFollows, ActiveWithinCapacity, NoGap
  <1>6. DoneIsProcessed' /\ EffectsBounded' /\ FeaturesAccounted'
    BY <1>1, <1>2 DEF DoneIsProcessed, EffectsBounded, FeaturesAccounted, Appendable, Retained, Incident,
                      runtime
  <1>7. QED
    BY <1>3, <1>4, <1>5, <1>6

\* Recovery: a claim that a dead process left is pending again while it has an attempt left.
LEMMA RecoveredRow ==
  ASSUME NEW row \in Row
  PROVE  /\ Recovered(row, RetryLimit) \in Row
         /\ row.status # "CLAIMED" => Recovered(row, RetryLimit) = row
         /\ row.status = "CLAIMED" => Recovered(row, RetryLimit).status \in {"PENDING", "POISON"}
         /\ row.status = "CLAIMED" /\ Recovered(row, RetryLimit).status = "PENDING" =>
              Recovered(row, RetryLimit).attempts < RetryLimit
         /\ Recovered(row, RetryLimit).attempts = row.attempts
  BY Bounds DEF Row, Recovered

\* The service starts.
LEMMA StartStep ==
  ASSUME IInv, NEW from \in {"log", "fixture"}, NEW commit \in Commit, Start(from, commit)
  PROVE  IInv'
  <1> USE DEF IInv
  <1>1. /\ pc = "stopped" /\ UNCHANGED <<log, order, cursor, runtime, batch, current, steps, bound>>
        /\ rows' = rows \/ rows' = [e \in Events |-> Recovered(rows[e], RetryLimit)]
        /\ \/ source' = from /\ pc' = "claim" /\ after' = "poll"
           \/ UNCHANGED <<source, pc, after>>
    BY DEF Start, service
  <1>2. rows \in [Events -> Row] /\ source' \in {"log", "fixture"}
        /\ \A e \in Events : rows[e].status = "PENDING" => rows[e].attempts < RetryLimit
    BY <1>1 DEF TypeOK
  <1>3. /\ rows' \in [Events -> Row]
        /\ \A e \in Events : rows'[e].attempts = rows[e].attempts
        /\ \A e \in Events :
             \/ rows'[e] = rows[e]
             \/ /\ rows[e].status = "CLAIMED" /\ rows'[e].status \in {"PENDING", "POISON"}
                /\ rows'[e].status = "PENDING" => rows'[e].attempts < RetryLimit
    BY <1>1, <1>2, RecoveredRow
  <1>4. Stored' = Stored /\ Active' \subseteq Active
    BY <1>3 DEF Stored, Active
  <1>5. TypeOK' /\ Sequenced'
    BY <1>1, <1>2, <1>3, <1>4 DEF TypeOK, Sequenced, log, runtime, Standing
  <1>6. ClaimIsHeld' /\ ProcessIsRecorded' /\ BatchIsHeld' /\ CursorIsRetained'
    BY <1>1 DEF ClaimIsHeld, ProcessIsRecorded, BatchIsHeld, CursorIsRetained, Processing, Recorded,
                log, runtime
  <1>7. CursorIsNewest' /\ BatchFollows' /\ ActiveWithinCapacity' /\ (NoGap => NoGap')
    BY <1>1, <1>4, ActiveShrinks DEF CursorIsNewest, BatchFollows, NoGap
  <1>8. DoneIsProcessed'
    BY <1>1, <1>3 DEF DoneIsProcessed, Retained, runtime
  <1>9. EffectsBounded' /\ FeaturesAccounted'
    <2>1. \A e \in Events : Appendable(e)' = Appendable(e)
      BY <1>3 DEF Appendable
    <2>2. \A n \in Incidents : ToSet(evidence[n]) \subseteq Events
      BY DEF TypeOK
    <2>3. EffectsBounded'
      BY <1>1, <2>1, <2>2 DEF EffectsBounded, runtime
    <2>4. FeaturesAccounted'
      BY <1>1, <1>4 DEF FeaturesAccounted, runtime
    <2>5. QED
      BY <2>3, <2>4
  <1>10. QED
    BY <1>5, <1>6, <1>7, <1>8, <1>9

-----------------------------------------------------------------------------
(* Collection.                                                             *)

\* The service stops, at the end of a batch, in a crash or with an error.
LEMMA StopsStep ==
  ASSUME IInv, UNCHANGED <<log, queue, runtime>>, Stops
  PROVE  IInv'
  <1>1. /\ pc' = "stopped" /\ after' = "end" /\ batch' = <<>> /\ current' = NoEvent /\ steps' = 0
        /\ source' = source /\ bound' = 0
    BY DEF Stops
  <1>2. BatchIsHeld' /\ BatchFollows' /\ CursorIsRetained'
    BY <1>1 DEF BatchIsHeld, BatchFollows, CursorIsRetained, ToSet
  <1>3. QED
    BY <1>1, <1>2, ServiceFrame, Bounds DEF IInv, TypeOK, log, Standing, Processing, Recorded

\* The service sleeps, or asks the log for the record of its cursor.
LEMMA WaitStep ==
  ASSUME IInv, EndOfBatch \/ Crash \/ Probe
  PROVE  IInv'
  <1> USE DEF IInv
  <1>1. UNCHANGED <<log, queue, runtime>>
    BY DEF EndOfBatch, Crash, Probe
  <1>2. CASE Stops
    BY <1>1, <1>2, StopsStep
  <1>3. CASE Drain("poll")
    <2>1. /\ pc' = "claim" /\ after' = "poll" /\ UNCHANGED <<source, batch, current, steps, bound>>
      BY <1>3 DEF Drain
    <2>2. BatchIsHeld' /\ BatchFollows' /\ CursorIsRetained'
      BY <1>1, <2>1 DEF BatchIsHeld, BatchFollows, CursorIsRetained, queue
    <2>3. QED
      BY <1>1, <2>1, <2>2, ServiceFrame
      DEF TypeOK, Sequenced, log, Standing, Processing, Recorded
  <1>4. CASE (cursor # 0 => cursor >= oldest) /\ Goes("read")
    <2>1. pc' = "read" /\ UNCHANGED <<source, after, batch, current, steps, bound>>
      BY <1>4 DEF Goes
    <2>2. BatchIsHeld' /\ BatchFollows' /\ CursorIsRetained'
      BY <1>1, <1>4, <2>1 DEF BatchIsHeld, BatchFollows, CursorIsRetained, queue, log
    <2>3. QED
      BY <1>1, <2>1, <2>2, ServiceFrame
      DEF TypeOK, Sequenced, log, Standing, Processing, Recorded
  <1>5. QED
    BY <1>2, <1>3, <1>4 DEF EndOfBatch, Crash, Probe

\* The events that were collected come in hand.
LEMMA ReceiveStep ==
  ASSUME IInv, UNCHANGED <<log, queue, runtime>>, NEW events \in Seq(Events), Receive(events),
         \/ ToSet(events) \subseteq ToSet(FixtureFile)
         \/ \A k \in DOMAIN events :
              /\ events[k] \in LogRecords /\ events[k] = events[1] + k - 1 /\ events[k] > cursor
              /\ RotationRaces \/ cursor = 0 \/ events[1] = cursor + 1
  PROVE  IInv'
  <1>1. /\ batch' = events /\ UNCHANGED <<source, current, steps, bound>>
        /\ pc' \in {"claim", "enqueue"} /\ after' \in {"end", "poll"}
        /\ pc' = "enqueue" => events # <<>>
    BY DEF Receive
  <1>2. BatchIsHeld' /\ CursorIsRetained'
    BY <1>1 DEF BatchIsHeld, CursorIsRetained
  <1>3. BatchFollows'
    BY <1>1 DEF BatchFollows, queue
  <1>4. QED
    BY <1>1, <1>2, <1>3, ServiceFrame DEF IInv, TypeOK, log, Standing, Processing, Recorded

\* A read collects consecutive records behind the cursor; while the log does not rotate under it
\* the first of them is the next one.
LEMMA CollectedFollows ==
  ASSUME IInv, pc = "read"
  PROVE  /\ Collected \in Seq(Events)
         /\ \A k \in DOMAIN Collected :
              /\ Collected[k] \in LogRecords /\ Collected[k] = Collected[1] + k - 1
              /\ Collected[k] > cursor
              /\ RotationRaces \/ cursor = 0 \/ Collected[1] = cursor + 1
  <1> USE DEF IInv
  <1> DEFINE first == IF cursor + 1 > oldest THEN cursor + 1 ELSE oldest
             last == IF first + BatchSize - 1 < produced THEN first + BatchSize - 1 ELSE produced
             len == IF last < first THEN 0 ELSE last - first + 1
  <1>1. /\ cursor \in Nat /\ oldest \in Nat /\ oldest >= 1 /\ produced \in 0 .. MaxRecords
        /\ BatchSize \in Nat \ {0} /\ MaxRecords \in Nat
    BY Bounds DEF TypeOK, LogRecords
  <1>2. first \in Nat /\ first >= 1 /\ first > cursor /\ last \in Int /\ last <= MaxRecords
    BY <1>1
  <1>3. len \in Nat /\ \A k \in 1 .. len : first + k - 1 \in LogRecords
    BY <1>1, <1>2 DEF LogRecords
  <1>4. RotationRaces \/ cursor = 0 \/ first = cursor + 1
    BY <1>1 DEF CursorIsRetained
  <1>5. Collected = [k \in 1 .. len |-> first + k - 1]
    BY DEF Collected
  <1> HIDE DEF first, last, len
  <1>6. DOMAIN Collected = 1 .. len /\ \A k \in 1 .. len : Collected[k] = first + k - 1
    BY <1>5
  <1>7. Collected \in Seq(Events)
    BY <1>3, <1>5 DEF Events
  <1>8. \A k \in 1 .. len : 1 \in 1 .. len /\ Collected[1] = first
    BY <1>2, <1>3, <1>6
  <1>9. ASSUME NEW k \in 1 .. len
        PROVE  /\ Collected[k] = first + k - 1 /\ Collected[k] \in LogRecords /\ Collected[1] = first
               /\ first + k - 1 > cursor
    <2>1. k \in Nat /\ k >= 1
      BY <1>3
    <2>2. QED
      BY <1>1, <1>2, <1>3, <1>6, <1>8, <2>1
  <1>10. QED
    BY <1>4, <1>6, <1>7, <1>9

\* The log, or the fixture file, is read.
LEMMA ReadStep ==
  ASSUME IInv, Read \/ ReadFixture
  PROVE  IInv'
  <1>1. UNCHANGED <<log, queue, runtime>>
    BY DEF Read, ReadFixture
  <1>2. CASE Stops
    BY <1>1, <1>2, StopsStep
  <1>3. CASE pc = "read" /\ Receive(Collected)
    BY <1>1, <1>3, CollectedFollows, ReceiveStep
  <1>4. CASE Receive(FixtureFile)
    <2>1. FixtureFile \in Seq(Events)
      BY QueueAssumption DEF Events
    <2>2. QED
      BY <1>1, <1>4, <2>1, ReceiveStep
  <1>5. QED
    BY <1>2, <1>3, <1>4 DEF Read, ReadFixture

\* Enqueue: a full queue takes nothing, and what it takes moves the cursor by one record.
LEMMA EnqueueStep ==
  ASSUME IInv, NEW commit \in Commit, Enqueue(commit)
  PROVE  IInv'
  <1> USE DEF IInv
  <1> DEFINE e == Head(batch)
             full == e \notin Stored /\ Full
  <1>1. /\ pc = "enqueue" /\ UNCHANGED <<log, runtime>>
        /\ IF full \/ ~Applied(commit) THEN UNCHANGED queue
           ELSE /\ rows' = Inserted(e)
                /\ order' = IF e \in Stored THEN order ELSE Append(order, e)
                /\ cursor' = CursorAfter(e)
        /\ IF full THEN IF after = "retry" THEN Stops ELSE Drain("retry")
           ELSE IF commit # "ok" THEN Stops
           ELSE Receive(Tail(batch))
    BY DEF Enqueue
  <1>2. batch # <<>> /\ batch \in Seq(Events)
    BY <1>1 DEF BatchIsHeld, Sequenced
  <1>3. /\ Tail(batch) \in Seq(Events) /\ e \in Events /\ e = batch[1] /\ 1 \in DOMAIN batch
        /\ DOMAIN batch \subseteq Int /\ DOMAIN Tail(batch) \subseteq Int
        /\ Tail(batch) # <<>> => 1 \in DOMAIN Tail(batch)
        /\ \A i \in DOMAIN Tail(batch) : i + 1 \in DOMAIN batch /\ Tail(batch)[i] = batch[i + 1]
        /\ e \in ToSet(batch) /\ ToSet(Tail(batch)) \subseteq ToSet(batch)
    BY <1>2, Rest
  <1>4. CASE full
    <2>1. CASE Stops
      BY <1>1, <1>4, <2>1, StopsStep
    <2>2. CASE Drain("retry")
      <3>1. pc' = "claim" /\ after' = "retry" /\ UNCHANGED <<source, batch, current, steps, bound>>
        BY <2>2 DEF Drain
      <3>2. UNCHANGED <<log, queue, runtime>>
        BY <1>1, <1>4
      <3>3. BatchIsHeld' /\ BatchFollows' /\ CursorIsRetained'
        BY <1>2, <3>1, <3>2 DEF BatchIsHeld, BatchFollows, CursorIsRetained, queue
      <3>4. QED
        BY <3>1, <3>2, <3>3, ServiceFrame DEF TypeOK, Sequenced, log, Standing, Processing, Recorded
    <2>3. QED
      BY <1>1, <1>4, <2>1, <2>2
  <1>5. CASE ~full /\ ~Applied(commit)
    <2>1. commit # "ok"
      BY <1>5 DEF Applied
    <2>2. QED
      BY <1>1, <1>5, <2>1, StopsStep
  <1>6. CASE ~full /\ Applied(commit)
    <2>1. /\ rows' = Inserted(e) /\ cursor' = CursorAfter(e)
          /\ order' = IF e \in Stored THEN order ELSE Append(order, e)
          /\ Stops \/ Receive(Tail(batch))
      BY <1>1, <1>6
    <2>2. e \notin Stored => ~Full
      BY <1>6
    <2> HIDE DEF e, full
    <2>3. /\ batch' = <<>> \/ batch' = Tail(batch)
          /\ source' = source
          /\ batch' \in Seq(Events) /\ steps' \in 0 .. StepBudget /\ current' \in Events \cup {NoEvent}
          /\ bound' \in 0 .. Observations
          /\ pc' \in {"stopped", "claim", "enqueue"} /\ after' \in {"end", "poll"}
          /\ pc' = "enqueue" => batch' # <<>>
      <3>1. <<>> \in Seq(Events) /\ 0 \in 0 .. StepBudget /\ 0 \in 0 .. Observations
        BY Bounds
      <3>2. QED
        BY <1>3, <2>1, <3>1 DEF Stops, Receive, TypeOK
    <2>4. /\ rows' \in [Events -> Row] /\ \A d \in Events \ {e} : rows'[d] = rows[d]
          /\ e \in Stored => rows' = rows
          /\ e \notin Stored => rows'[e].status = "PENDING" /\ rows'[e].attempts = 0
      <3>1. [status |-> "PENDING", attempts |-> 0] \in Row
        BY Bounds DEF Row
      <3>2. QED
        BY <1>3, <2>1, <3>1 DEF Inserted, TypeOK
    <2>5. Stored' = Stored \cup {e} /\ Active' \subseteq Active \cup {e}
          /\ (e \in Stored => Active' = Active)
      BY <1>3, <2>4 DEF Stored, Active
    <2>6. ActiveWithinCapacity'
      <3>1. CASE e \in Stored
        BY <2>5, <3>1, ActiveShrinks
      <3>2. CASE e \notin Stored
        <4>1. IsFiniteSet(Active)
          BY FiniteEvents, FS_Subset DEF Active
        <4>2. /\ IsFiniteSet(Active \cup {e}) /\ Cardinality(Active) \in Nat
              /\ Cardinality(Active \cup {e}) <= Cardinality(Active) + 1
          BY <4>1, FS_AddElement, FS_CardinalityType
        <4>3. Cardinality(Active') <= Cardinality(Active \cup {e}) /\ IsFiniteSet(Active')
          BY <2>5, <4>2, FS_Subset
        <4>4. Cardinality(Active') \in Nat /\ Cardinality(Active \cup {e}) \in Nat
          BY <4>2, <4>3, FS_CardinalityType
        <4>5. ~(Cardinality(Active) >= Capacity)
          BY <2>2, <3>2 DEF Full
        <4>6. QED
          BY <4>2, <4>3, <4>4, <4>5, Bounds DEF ActiveWithinCapacity
      <3>3. QED
        BY <3>1, <3>2
    <2>7. /\ order' \in Seq(Events) /\ ToSet(order') = Stored' /\ IsInjective(order')
      <3>1. order \in Seq(Events) /\ ToSet(order) = Stored /\ IsInjective(order)
        BY DEF TypeOK, Sequenced
      <3>2. CASE e \in Stored
        BY <2>1, <2>5, <3>1, <3>2
      <3>3. CASE e \notin Stored
        BY <1>3, <2>1, <2>5, <3>1, <3>3, Appended
      <3>4. QED
        BY <3>2, <3>3
    <2>8. cursor' \in LogRecords \cup {0} /\ (e \in LogRecords => cursor' = e)
          /\ (e \notin LogRecords => cursor' = cursor)
      BY <2>1 DEF CursorAfter, TypeOK
    <2>9. ToSet(batch') \subseteq Events
      BY <2>3, Elements
    <2>10. TypeOK' /\ Sequenced'
      <3>1. \A d \in Events : rows'[d].status = "PENDING" => rows'[d].attempts < RetryLimit
        BY <2>4, Bounds DEF TypeOK
      <3>2. UNCHANGED <<produced, oldest, evidence, features, context, inferences, workflow>>
        BY <1>1 DEF log, runtime
      <3>3. pc' \in Standing /\ after' \in {"poll", "retry", "end"}
        BY <2>3 DEF Standing
      <3>4. TypeOK'
        BY <2>3, <2>4, <2>7, <2>8, <2>9, <3>1, <3>2, <3>3 DEF TypeOK
      <3>5. Sequenced'
        BY <2>3, <2>7, <3>2 DEF Sequenced
      <3>6. QED
        BY <3>4, <3>5
    <2>11. ClaimIsHeld' /\ ProcessIsRecorded' /\ BatchIsHeld' /\ CursorIsRetained'
      BY <1>1, <2>3 DEF ClaimIsHeld, ProcessIsRecorded, BatchIsHeld, CursorIsRetained, Processing,
                        Recorded, runtime
    <2>12. e \in LogRecords => /\ e > cursor /\ (RotationRaces \/ cursor = 0 \/ e = cursor + 1)
                               /\ \A k \in DOMAIN batch : batch[k] \in LogRecords /\ batch[k] = e + k - 1
      BY <1>3, QueueAssumption DEF BatchFollows
    <2>13. cursor \in Nat /\ LogRecords \subseteq Nat \ {0}
      BY Bounds DEF TypeOK, LogRecords
    <2>14. CursorIsNewest'
      <3>1. CASE e \in LogRecords
        <4>1. cursor' = e /\ e > cursor /\ e \in Nat
          BY <2>8, <2>12, <2>13, <3>1
        <4>2. ASSUME NEW d \in Stored \cap LogRecords
              PROVE  d <= e
          <5>1. d <= cursor /\ d \in Nat
            BY <2>13 DEF CursorIsNewest
          <5>2. QED
            BY <2>13, <4>1, <5>1
        <4>3. QED
          BY <2>5, <4>1, <4>2 DEF CursorIsNewest
      <3>2. CASE e \notin LogRecords
        <4>1. cursor' = cursor /\ Stored' \cap LogRecords = Stored \cap LogRecords
          BY <2>5, <2>8, <3>2
        <4>2. QED
          BY <2>5, <4>1 DEF CursorIsNewest
      <3>3. QED
        BY <3>1, <3>2
    <2>15. BatchFollows'
      <3>1. CASE batch' = <<>>
        BY <3>1 DEF BatchFollows, ToSet
      <3>2. CASE batch' = Tail(batch) /\ e \notin LogRecords
        BY <1>3, <2>8, <3>2 DEF BatchFollows
      <3>3. CASE batch' = Tail(batch) /\ e \in LogRecords
        <4>1. \A k \in DOMAIN Tail(batch) :
                /\ k \in Int /\ k >= 1 /\ Tail(batch)[k] \in LogRecords
                /\ Tail(batch)[k] = e + k /\ Tail(batch)[1] = e + 1
          <5>1. \A k \in DOMAIN Tail(batch) : k \in Int /\ k >= 1 /\ 1 \in DOMAIN Tail(batch)
            BY <1>3
          <5>2. e \in Int
            BY <2>13, <3>3
          <5>3. ASSUME NEW k \in DOMAIN Tail(batch)
                PROVE  Tail(batch)[k] \in LogRecords /\ Tail(batch)[k] = e + k
            <6>1. k \in Int /\ k + 1 \in DOMAIN batch /\ Tail(batch)[k] = batch[k + 1]
              BY <1>3, <5>1
            <6>2. batch[k + 1] \in LogRecords /\ batch[k + 1] = e + (k + 1) - 1
              BY <2>12, <3>3, <6>1
            <6>3. QED
              BY <5>2, <6>1, <6>2
          <5>4. QED
            BY <5>1, <5>3
        <4>2. e \in Int /\ cursor' = e
          BY <2>8, <2>13, <3>3
        <4>3. QED
          BY <3>3, <4>1, <4>2 DEF BatchFollows
      <3>4. QED
        BY <2>3, <3>1, <3>2, <3>3
    <2>16. RotationRaces \/ NoGap'
      <3>1. SUFFICES ASSUME ~RotationRaces, NoGap, NEW a \in Stored' \cap LogRecords,
                            NEW c \in Stored' \cap LogRecords, NEW b \in a .. c
                     PROVE  b \in Stored'
        BY DEF NoGap
      <3>2. a \in Nat \ {0} /\ c \in Nat \ {0} /\ b \in Nat /\ a <= b /\ b <= c
        <4>1. a \in Nat \ {0} /\ c \in Nat \ {0}
          BY <2>13, <3>1
        <4>2. QED
          BY <3>1, <4>1
      <3>3. CASE e \notin LogRecords
        BY <2>5, <3>1, <3>3 DEF NoGap
      <3>4. CASE e \in LogRecords
        <4>1. e > cursor /\ (cursor = 0 \/ e = cursor + 1) /\ e \in Nat
          BY <2>12, <2>13, <3>1, <3>4
        <4>2. \A d \in Stored \cap LogRecords : d <= cursor
          BY DEF CursorIsNewest
        <4>3. CASE c # e
          <5>1. c \in Stored \cap LogRecords /\ c <= cursor
            BY <2>5, <4>2, <4>3
          <5>2. a # e
            BY <2>13, <3>2, <4>1, <5>1
          <5>3. QED
            BY <2>5, <3>1, <5>1, <5>2 DEF NoGap
        <4>4. CASE c = e /\ b # e
          <5>1. b < e /\ a # e
            BY <3>2, <4>1, <4>4
          <5>2. a \in Stored \cap LogRecords /\ a <= cursor
            BY <2>5, <4>2, <5>1
          <5>3. cursor # 0 /\ e = cursor + 1 /\ cursor \in Stored
            BY <2>13, <3>2, <4>1, <5>2 DEF CursorIsNewest
          <5>4. b \in a .. cursor /\ cursor \in LogRecords
            BY <2>13, <3>2, <5>1, <5>3 DEF TypeOK
          <5>5. QED
            BY <2>5, <3>1, <5>2, <5>3, <5>4 DEF NoGap
        <4>5. CASE b = e
          BY <2>5, <4>5
        <4>6. QED
          BY <4>3, <4>4, <4>5
      <3>5. QED
        BY <3>3, <3>4
    <2>17. DoneIsProcessed'
      BY <1>1, <1>3, <2>4 DEF DoneIsProcessed, Retained, runtime
    <2>18. EffectsBounded' /\ FeaturesAccounted'
      <3>1. \A n \in Incidents : ToSet(evidence[n]) \subseteq Stored
        BY DEF FeaturesAccounted
      <3>2. ASSUME NEW d \in Stored
            PROVE  Appendable(d)' = Appendable(d)
        <4>1. rows'[d] = rows[d]
          BY <2>4 DEF Stored
        <4>2. QED
          BY <4>1 DEF Appendable
      <3>3. EffectsBounded'
        BY <1>1, <3>1, <3>2 DEF EffectsBounded, runtime
      <3>4. FeaturesAccounted'
        BY <1>1, <2>3, <2>5, <3>1 DEF FeaturesAccounted, runtime
      <3>5. QED
        BY <3>3, <3>4
    <2>19. QED
      BY <2>6, <2>10, <2>11, <2>14, <2>15, <2>16, <2>17, <2>18
  <1>7. QED
    BY <1>4, <1>5, <1>6

-----------------------------------------------------------------------------
(* Claims.                                                                 *)

\* The next pending event is claimed, or the drain ends.
LEMMA ClaimStep ==
  ASSUME IInv, NEW commit \in Commit, ClaimNext(commit)
  PROVE  IInv'
  <1> USE DEF IInv
  <1>1. pc = "claim" /\ UNCHANGED <<log, order, cursor, runtime>>
    BY DEF ClaimNext
  <1>2. CASE Goes(AfterDrain) /\ UNCHANGED rows
    <2>1. /\ pc' = AfterDrain /\ UNCHANGED <<source, after, batch, current, steps, bound>>
      BY <1>2 DEF Goes
    <2>2. /\ AfterDrain \in {"probe", "fixture", "enqueue", "wait"}
          /\ AfterDrain = "enqueue" => after = "retry"
      BY DEF AfterDrain, TypeOK
    <2>3. BatchIsHeld' /\ BatchFollows' /\ CursorIsRetained'
      BY <1>1, <2>1, <2>2 DEF BatchIsHeld, BatchFollows, CursorIsRetained
    <2>4. QED
      BY <1>1, <1>2, <2>1, <2>2, <2>3, ServiceFrame
      DEF TypeOK, Sequenced, log, queue, Standing, Processing, Recorded
  <1>3. ASSUME NEW e \in Events, e \in Pending,
               rows' = IF ~Applied(commit) THEN rows
                       ELSE [rows EXCEPT ![e] = [status |-> "CLAIMED", attempts |-> @.attempts + 1]],
               IF commit = "ok"
               THEN /\ pc' = "retain" /\ current' = e /\ steps' = 0 /\ bound' = 0
                    /\ UNCHANGED <<source, after, batch>>
               ELSE Stops
        PROVE  IInv'
    <2>1. rows \in [Events -> Row] /\ rows[e].status = "PENDING" /\ rows[e].attempts < RetryLimit
          /\ \A d \in Events : rows[d].status = "PENDING" => rows[d].attempts < RetryLimit
      BY <1>3 DEF TypeOK, Pending
    <2> DEFINE claimed == [status |-> "CLAIMED", attempts |-> rows[e].attempts + 1]
    <2>2. /\ claimed \in Row /\ claimed.status = "CLAIMED"
          /\ rows[e].attempts \in Nat /\ claimed.attempts = rows[e].attempts + 1
      BY <2>1, Bounds DEF Row
    <2>3. rows' = rows \/ rows' = [rows EXCEPT ![e] = claimed]
      BY <1>3
    <2>4. commit = "ok" => rows' = [rows EXCEPT ![e] = claimed]
      BY <1>3 DEF Applied
    <2> HIDE DEF claimed
    <2>5. /\ rows' \in [Events -> Row] /\ \A d \in Events \ {e} : rows'[d] = rows[d]
          /\ rows'[e] = rows[e] \/ rows'[e] = claimed
          /\ commit = "ok" => rows'[e] = claimed
      BY <2>1, <2>2, <2>3, <2>4
    <2>6. \A d \in Events : /\ rows'[d].status = "PENDING" => rows'[d].attempts < RetryLimit
                            /\ rows'[d].status = "NONE" <=> rows[d].status = "NONE"
                            /\ rows'[d].status \in {"PENDING", "CLAIMED"} =>
                                 rows[d].status \in {"PENDING", "CLAIMED"}
                            /\ rows'[d].status = "DONE" => rows[d].status = "DONE"
                            /\ rows[d].attempts <= rows'[d].attempts
      <3>1. \A d \in Events : rows[d].attempts \in Nat
        BY <2>1 DEF Row
      <3>2. QED
        BY <2>1, <2>2, <2>5, <3>1
    <2>7. /\ pc' \in {"stopped", "retain"} /\ after' \in {"poll", "retry", "end"} /\ source' = source
          /\ batch' = batch \/ batch' = <<>>
          /\ after' = "retry" => after = "retry" /\ batch' = batch
          /\ current' \in Events \cup {NoEvent} /\ steps' \in 0 .. StepBudget
          /\ bound' \in 0 .. Observations
          /\ pc' = "retain" => current' = e /\ bound' = 0 /\ commit = "ok"
      BY <1>3, Bounds DEF Stops, TypeOK
    <2> DEFINE n == IncidentOf[e]
    <2>8. ToSet(evidence[n]) \subseteq {e} =>
            features[n] + Observations <= Observations * (rows[e].attempts + 1)
      <3>1. n \in Incidents /\ evidence[n] \in Seq(Events) /\ features[n] \in Nat
        BY DEF Incidents, Sequenced, TypeOK
      <3>2. /\ Observations * rows[e].attempts \in Nat /\ Observations \in Nat
            /\ Observations * (rows[e].attempts + 1) = Observations * rows[e].attempts + Observations
        BY <2>2, Times, Bounds
      <3>3. CASE evidence[n] = <<>>
        <4>1. features[n] = 0
          BY <3>1, <3>3 DEF EffectsBounded
        <4>2. QED
          BY <3>2, <4>1
      <3>4. CASE e \in ToSet(evidence[n])
        <4>1. features[n] <= Observations * rows[e].attempts
          BY <3>1, <3>4 DEF EffectsBounded, Appendable
        <4>2. QED
          BY <3>1, <3>2, <4>1
      <3>5. ToSet(evidence[n]) \subseteq {e} => evidence[n] = <<>> \/ e \in ToSet(evidence[n])
        BY <3>1, Elements
      <3>6. QED
        BY <3>3, <3>4, <3>5
    <2>9. Observations * (rows[e].attempts + 1) \in Nat
      BY <2>2, Times
    <2>10. pc' = "retain" /\ ToSet(evidence[IncidentOf[current']]) \subseteq {current'} =>
             features[IncidentOf[current']] + Observations
               <= Observations * rows'[current'].attempts + bound'
      BY <2>2, <2>5, <2>7, <2>8, <2>9
    <2>11. QED
      BY <1>1, <2>2, <2>5, <2>6, <2>7, <2>10, RowsFrame
  <1>4. ASSUME NEW i \in DOMAIN order
        PROVE  order[i] \in Events
    BY <1>4 DEF TypeOK, Sequenced
  <1>5. QED
    BY <1>2, <1>3, <1>4 DEF ClaimNext

\* The claim ends: acknowledged, pending again, or poison.
LEMMA SettleStep ==
  ASSUME IInv, NEW commit \in Commit, Finish(commit) \/ FailClaim(commit)
  PROVE  IInv'
  <1> USE DEF IInv
  <1>1. /\ pc \in {"ack", "fail"} /\ UNCHANGED <<log, order, cursor, runtime>>
        /\ \/ rows' = rows
           \/ rows' = [rows EXCEPT ![current].status = "DONE"] /\ pc = "ack"
           \/ rows' = [rows EXCEPT ![current].status = AfterFailure(rows[current].attempts)]
        /\ Proceed(commit) \/ Stops
    BY DEF Finish, FailClaim
  <1>2. /\ current \in Events /\ rows[current].status = "CLAIMED" /\ rows \in [Events -> Row]
        /\ rows[current] \in Row
        /\ \A d \in Events : rows[d].status = "PENDING" => rows[d].attempts < RetryLimit
    BY <1>1 DEF ClaimIsHeld, Processing, Recorded, TypeOK
  <1>3. /\ AfterFailure(rows[current].attempts) \in {"PENDING", "POISON"}
        /\ AfterFailure(rows[current].attempts) = "PENDING" => rows[current].attempts < RetryLimit
    BY <1>2, Bounds DEF AfterFailure, Row
  <1>4. ASSUME NEW status \in {"DONE", "PENDING", "POISON"},
               rows' = [rows EXCEPT ![current].status = status]
        PROVE  /\ rows' \in [Events -> Row] /\ \A d \in Events \ {current} : rows'[d] = rows[d]
               /\ rows'[current].status = status /\ rows'[current].attempts = rows[current].attempts
    BY <1>2, <1>4 DEF Row
  <1>5. /\ rows' \in [Events -> Row]
        /\ \A d \in Events :
             /\ rows'[d].status = "PENDING" => rows'[d].attempts < RetryLimit
             /\ rows'[d].status = "NONE" <=> rows[d].status = "NONE"
             /\ rows'[d].status \in {"PENDING", "CLAIMED"} => rows[d].status \in {"PENDING", "CLAIMED"}
             /\ rows'[d].status = "DONE" => rows[d].status = "DONE" \/ (pc = "ack" /\ d = current)
             /\ rows'[d].attempts = rows[d].attempts
    <2>1. CASE rows' = rows
      BY <1>2, <2>1
    <2>2. CASE rows' = [rows EXCEPT ![current].status = "DONE"] /\ pc = "ack"
      BY <1>2, <1>4, <2>2
    <2>3. CASE rows' = [rows EXCEPT ![current].status = AfterFailure(rows[current].attempts)]
      <3>1. PICK status \in {"PENDING", "POISON"} : status = AfterFailure(rows[current].attempts)
        BY <1>3
      <3>2. rows' = [rows EXCEPT ![current].status = status]
        BY <2>3, <3>1
      <3>3. QED
        BY <1>2, <1>3, <1>4, <3>1, <3>2
    <2>4. QED
      BY <1>1, <2>1, <2>2, <2>3
  <1>6. /\ pc' \in {"stopped", "claim"} /\ after' \in {"poll", "retry", "end"} /\ source' = source
        /\ batch' = batch \/ batch' = <<>>
        /\ after' = "retry" => after = "retry" /\ batch' = batch
        /\ current' \in Events \cup {NoEvent} /\ steps' \in 0 .. StepBudget
        /\ bound' \in 0 .. Observations
    BY <1>1, Bounds DEF Proceed, Stops, TypeOK
  <1>7. \A d \in Events : rows[d].attempts <= rows'[d].attempts
    <2>1. \A d \in Events : rows[d].attempts \in Nat
      BY <1>2 DEF Row
    <2>2. QED
      BY <1>5, <2>1
  <1>8. QED
    BY <1>1, <1>5, <1>6, <1>7, RowsFrame

-----------------------------------------------------------------------------
(* process.                                                                *)

\* What is known of the runtime store while an event is processed.
LEMMA InProcess ==
  ASSUME IInv, pc \in Processing
  PROVE  /\ current \in Events /\ Incident \in Incidents /\ rows[current].status = "CLAIMED"
         /\ steps \in 0 .. StepBudget /\ bound \in 0 .. Observations
         /\ evidence \in [Incidents -> Seq(Events)] /\ evidence[Incident] \in Seq(Events)
         /\ \A n \in Incidents : Len(evidence[n]) <= 1 /\ inferences[n] <= 1
         /\ features \in [Incidents -> Nat]
         /\ context \in [Incidents -> {"none", "required", "failed", "attached"}]
         /\ inferences \in [Incidents -> Nat]
         /\ workflow \in [Incidents -> {"none", "ready", "claimed", "resting"}]
         /\ Appendable(current) \in Nat
         /\ pc \in Recorded => current \in ToSet(evidence[Incident])
         /\ pc \in Recorded => features[Incident] <= Appendable(current)
  <1>1. current \in Events /\ Incident \in Incidents /\ rows[current].attempts \in Nat
    BY DEF IInv, ClaimIsHeld, TypeOK, Row, Incident, Incidents
  <1>2. Appendable(current) \in Nat
    BY <1>1, Times DEF Appendable
  <1>3. QED
    BY <1>1, <1>2
    DEF IInv, ClaimIsHeld, TypeOK, Sequenced, EffectsBounded, Incident, Incidents, Retained

\* While observations may still be bound, the claim has room for those it has not bound.
LEMMA RoomForFeatures ==
  ASSUME IInv, pc \in {"infer", "bind"}
  PROVE  features[Incident] + Observations <= Appendable(current) + bound
  <1>1. pc \in Recorded /\ pc \in Processing
    BY DEF Recorded, Processing
  <1>2. /\ evidence[Incident] \in Seq(Events) /\ Len(evidence[Incident]) <= 1
        /\ current \in ToSet(evidence[Incident])
    BY <1>1, InProcess
  <1>3. ToSet(evidence[Incident]) \subseteq {current}
    BY <1>2, OneElement
  <1>4. QED
    BY <1>3 DEF IInv, FeaturesAccounted

\* A step of process that keeps the source record, and changes at most what else the runtime
\* store has of its incident.
LEMMA RecordedStep ==
  ASSUME IInv, pc \in Recorded, UNCHANGED <<log, queue, evidence, source, after, batch, current>>,
         pc' \in Recorded \cup {"fail"}, steps' \in 0 .. StepBudget, bound' \in 0 .. Observations,
         NEW f \in Nat, NEW c \in {"none", "required", "failed", "attached"}, NEW i \in {0, 1},
         NEW w \in {"none", "ready", "claimed", "resting"},
         features' = [features EXCEPT ![Incident] = f],
         context' = [context EXCEPT ![Incident] = c],
         inferences' = [inferences EXCEPT ![Incident] = i],
         workflow' = [workflow EXCEPT ![Incident] = w],
         f <= Appendable(current),
         pc' \in {"infer", "bind"} => f + Observations <= Appendable(current) + bound',
         c = "none" => i = 0,
         pc' = "bind" => c = "none",
         pc' = "attach" => c = "required" /\ i = 0,
         pc' \in {"open", "advance", "publish", "ack"} /\ current \in HasFeatures => c = "attached",
         pc' = "ack" => w = "resting"
  PROVE  IInv'
  <1>1. pc \in Processing /\ pc' \in Processing /\ pc' # "retain"
    BY DEF Processing, Recorded
  <1>2. /\ Incident \in Incidents /\ Incident' = Incident /\ features'[Incident] = f
        /\ context'[Incident] = c /\ inferences'[Incident] = i /\ workflow'[Incident] = w
        /\ \A n \in Incidents \ {Incident} :
             /\ evidence'[n] = evidence[n] /\ features'[n] = features[n]
             /\ context'[n] = context[n] /\ inferences'[n] = inferences[n] /\ workflow'[n] = workflow[n]
        /\ features' \in [Incidents -> Nat]
        /\ context' \in [Incidents -> {"none", "required", "failed", "attached"}]
        /\ inferences' \in [Incidents -> Nat]
        /\ workflow' \in [Incidents -> {"none", "ready", "claimed", "resting"}]
    BY <1>1, InProcess DEF Incident
  <1>3. ProcessIsRecorded'
    BY <1>2 DEF IInv, ProcessIsRecorded
  <1>4. /\ evidence'[Incident] # <<>>
        /\ \A e \in ToSet(evidence'[Incident]) : features'[Incident] <= Appendable(e)
    <2>1. /\ evidence[Incident] \in Seq(Events) /\ Len(evidence[Incident]) <= 1
          /\ current \in ToSet(evidence[Incident])
      BY <1>1, InProcess
    <2>2. \A e \in ToSet(evidence[Incident]) : e = current
      BY <2>1, OneElement
    <2>3. evidence[Incident] # <<>>
      BY <2>1, Elements
    <2>4. QED
      BY <1>2, <2>2, <2>3
  <1>5. QED
    BY <1>1, <1>2, <1>3, <1>4, InProcess, ProcessFrame

\* The source record becomes evidence, of an incident that has no other.
LEMMA RetainStep ==
  ASSUME IInv, NEW commit \in Commit, Retain(commit)
  PROVE  IInv'
  <1> USE DEF IInv
  <1>1. pc = "retain" /\ pc \in Processing /\ UNCHANGED <<log, queue, features, context, inferences, workflow>>
    BY DEF Retain, Processing
  <1>2. /\ current \in Events /\ Incident \in Incidents /\ steps \in 0 .. StepBudget
        /\ bound \in 0 .. Observations /\ features \in [Incidents -> Nat]
        /\ Appendable(current) \in Nat
        /\ evidence[Incident] = <<>> => features[Incident] = 0
        /\ \A e \in ToSet(evidence[Incident]) : features[Incident] <= Appendable(e)
        /\ ToSet(evidence[Incident]) \subseteq {current} =>
             features[Incident] + Observations <= Appendable(current) + bound
        /\ evidence \in [Incidents -> Seq(Events)] /\ evidence[Incident] \in Seq(Events)
        /\ \A n \in Incidents : Len(evidence[n]) <= 1 /\ inferences[n] <= 1
    BY <1>1, InProcess DEF EffectsBounded, FeaturesAccounted
  <1>3. CASE Failure /\ UNCHANGED evidence
    <2>1. pc' = "fail" /\ UNCHANGED <<source, after, batch, current, steps, bound>>
      BY <1>3 DEF Failure, Goes
    <2>2. ProcessIsRecorded'
      BY <1>1, <1>3, <2>1 DEF ProcessIsRecorded
    <2>3. pc' \in Processing /\ pc' \notin Recorded
      BY <2>1 DEF Processing, Recorded
    <2>4. QED
      BY <1>1, <1>2, <1>3, <2>1, <2>2, <2>3, InProcess, ProcessFrame
  <1>4. ASSUME ToSet(evidence[Incident]) \ {current} = {},
               evidence' = IF ~Applied(commit) \/ Retained(Incident, current) THEN evidence
                           ELSE [evidence EXCEPT ![Incident] = Append(@, current)],
               IF commit # "ok" THEN Failure
               ELSE Goes(IF current \in HasFeatures THEN "infer" ELSE "open")
        PROVE  IInv'
    <2>1. /\ UNCHANGED <<source, after, batch, current, steps, bound>> /\ pc' \in {"fail", "infer", "open"}
          /\ pc' = "open" => current \notin HasFeatures
          /\ pc' # "fail" => commit = "ok"
      BY <1>4 DEF Failure, Goes
    <2>2. pc' \in Processing /\ (pc' \in Recorded => commit = "ok")
      BY <2>1 DEF Processing, Recorded
    <2>3. /\ evidence' \in [Incidents -> Seq(Events)]
          /\ \A n \in Incidents : /\ Len(evidence'[n]) <= 1
                                  /\ ToSet(evidence[n]) \subseteq ToSet(evidence'[n])
          /\ commit = "ok" => current \in ToSet(evidence'[Incident])
          /\ \A n \in Incidents \ {Incident} : evidence'[n] = evidence[n]
          /\ ToSet(evidence'[Incident]) \subseteq ToSet(evidence[Incident]) \cup {current}
          /\ evidence'[Incident] = <<>> => evidence[Incident] = <<>>
      <3>1. CASE evidence' = evidence
        <4>1. commit = "ok" => current \in ToSet(evidence[Incident])
          <5>1. ASSUME commit = "ok", ~Retained(Incident, current)
                PROVE  FALSE
            <6>1. evidence' = [evidence EXCEPT ![Incident] = Append(@, current)]
              BY <1>4, <5>1 DEF Applied
            <6>2. Len(Append(evidence[Incident], current)) = Len(evidence[Incident]) + 1
                  /\ Len(evidence[Incident]) \in Nat
              BY <1>2, Appended
            <6>3. evidence'[Incident] = Append(evidence[Incident], current)
              BY <1>2, <6>1
            <6>4. QED
              BY <3>1, <6>2, <6>3
          <5>2. QED
            BY <5>1 DEF Retained
        <4>2. QED
          BY <1>2, <3>1, <4>1
      <3>2. CASE /\ ~Retained(Incident, current)
                 /\ evidence' = [evidence EXCEPT ![Incident] = Append(@, current)]
        <4>1. ToSet(evidence[Incident]) = {}
          BY <1>4, <3>2 DEF Retained
        <4>2. Len(evidence[Incident]) = 0
          BY <1>2, <4>1, Elements
        <4>3. /\ Append(evidence[Incident], current) \in Seq(Events)
              /\ Len(Append(evidence[Incident], current)) = 1
              /\ ToSet(Append(evidence[Incident], current)) = {current}
          <5>1. /\ Append(evidence[Incident], current) \in Seq(Events)
                /\ Len(Append(evidence[Incident], current)) = Len(evidence[Incident]) + 1
                /\ ToSet(Append(evidence[Incident], current))
                     = ToSet(evidence[Incident]) \cup {current}
            BY <1>2, Appended
          <5>2. QED
            BY <4>1, <4>2, <5>1
        <4>4. /\ evidence'[Incident] = Append(evidence[Incident], current)
              /\ \A n \in Incidents \ {Incident} : evidence'[n] = evidence[n]
              /\ evidence' \in [Incidents -> Seq(Events)]
          BY <1>2, <3>2, <4>3
        <4>5. ASSUME NEW n \in Incidents
              PROVE  Len(evidence'[n]) <= 1 /\ ToSet(evidence[n]) \subseteq ToSet(evidence'[n])
          <5>1. CASE n = Incident
            <6>1. evidence'[n] = Append(evidence[Incident], current)
              BY <4>4, <5>1
            <6>2. Len(evidence'[n]) = 1
              BY <4>3, <6>1
            <6>3. ToSet(evidence[n]) = {}
              BY <4>1, <5>1
            <6>4. QED
              BY <6>2, <6>3
          <5>2. CASE n # Incident
            BY <1>2, <4>4, <5>2
          <5>3. QED
            BY <5>1, <5>2
        <4>6. evidence'[Incident] # <<>>
          BY <4>3, <4>4
        <4>7. QED
          BY <1>2, <4>3, <4>4, <4>5, <4>6
      <3>3. QED
        BY <1>4, <3>1, <3>2
    <2>4. ProcessIsRecorded'
      BY <1>1, <2>1 DEF ProcessIsRecorded
    <2>5. \A e \in ToSet(evidence'[Incident]) : features[Incident] <= Appendable(e)
      <3>1. features[Incident] + Observations <= Appendable(current) + bound
        BY <1>2, <1>4
      <3>2. features[Incident] <= Appendable(current)
        BY <1>2, <3>1, Bounds
      <3>3. QED
        BY <1>2, <2>3, <3>2
    <2>6. ToSet(evidence[Incident]) \subseteq {current}
      BY <1>4
    <2>7. QED
      BY <1>1, <1>2, <2>1, <2>2, <2>3, <2>4, <2>5, <2>6, InProcess, ProcessFrame
  <1>5. QED
    BY <1>3, <1>4 DEF Retain

\* The observations are bound, the external model is required, and then it runs once.
LEMMA InferenceStep ==
  ASSUME IInv, NEW commit \in Commit,
         \/ CheckBinding \/ BindFeature(commit) \/ RequireInference(commit)
         \/ \E result \in {"attached", "failed"} : Infer(result, commit)
  PROVE  IInv'
  <1> USE DEF IInv
  <1>1. /\ pc \in {"infer", "bind", "attach"} /\ pc \in Recorded /\ pc \in Processing
        /\ UNCHANGED <<log, queue, evidence, workflow>>
    BY DEF CheckBinding, BindFeature, RequireInference, Infer, runtime, Recorded, Processing
  <1>2. /\ Incident \in Incidents /\ steps \in 0 .. StepBudget /\ bound \in 0 .. Observations
        /\ features \in [Incidents -> Nat] /\ features[Incident] \in Nat
        /\ Appendable(current) \in Nat /\ features[Incident] <= Appendable(current)
        /\ context \in [Incidents -> {"none", "required", "failed", "attached"}]
        /\ inferences \in [Incidents -> Nat] /\ inferences[Incident] <= 1
        /\ workflow \in [Incidents -> {"none", "ready", "claimed", "resting"}]
    BY <1>1, InProcess
  <1> DEFINE w == workflow[Incident]
  <1>3. /\ w \in {"none", "ready", "claimed", "resting"} /\ workflow' = [workflow EXCEPT ![Incident] = w]
        /\ features = [features EXCEPT ![Incident] = features[Incident]]
        /\ context = [context EXCEPT ![Incident] = context[Incident]]
        /\ inferences = [inferences EXCEPT ![Incident] = inferences[Incident]]
        /\ context[Incident] \in {"none", "required", "failed", "attached"}
        /\ inferences[Incident] \in {0, 1}
        /\ context[Incident] = "none" => inferences[Incident] = 0
        /\ pc \in {"infer", "bind"} =>
             features[Incident] + Observations <= Appendable(current) + bound
    BY <1>1, <1>2, RoomForFeatures DEF ProcessIsRecorded
  <1> HIDE DEF w
  <1>4. CASE CheckBinding
    <2>1. /\ pc = "infer" /\ UNCHANGED <<features, context, inferences>>
          /\ UNCHANGED <<source, after, batch, current, steps, bound>>
          /\ \/ pc' = "fail"
             \/ pc' = "open" /\ context[Incident] = "attached"
             \/ pc' = "bind" /\ context[Incident] = "none"
      BY <1>2, <1>4 DEF CheckBinding, Failure, Goes, runtime
    <2>2. pc' \in Recorded \cup {"fail"}
      BY <2>1 DEF Recorded
    <2>3. QED
      BY <1>1, <1>2, <1>3, <2>1, <2>2, RecordedStep
  <1>5. CASE BindFeature(commit)
    <2>1. /\ pc = "bind" /\ bound < Observations /\ UNCHANGED <<context, inferences>>
          /\ UNCHANGED <<source, after, batch, current, steps>>
          /\ \/ /\ pc' = "fail" /\ bound' = bound
                /\ \/ features' = features
                   \/ features' = [features EXCEPT ![Incident] = @ + 1]
             \/ /\ pc' = "bind" /\ bound' = bound + 1
                /\ features' = [features EXCEPT ![Incident] = @ + 1]
      BY <1>5 DEF BindFeature, Failure, Goes, Applied
    <2> DEFINE f == features[Incident] + 1
    <2>2. /\ f \in Nat /\ bound' \in 0 .. Observations /\ f <= Appendable(current)
          /\ bound' = bound + 1 => f + Observations <= Appendable(current) + bound'
      BY <1>2, <1>3, <2>1, Bounds
    <2>3. pc' \in Recorded \cup {"fail"} /\ context[Incident] = "none"
      BY <2>1 DEF Recorded, ProcessIsRecorded
    <2>4. CASE features' = features /\ pc' = "fail"
      BY <1>1, <1>2, <1>3, <2>1, <2>2, <2>3, <2>4, RecordedStep
    <2>5. CASE features' = [features EXCEPT ![Incident] = f]
      <3> HIDE DEF f
      <3> QED
        BY <1>1, <1>2, <1>3, <2>1, <2>2, <2>3, <2>5, RecordedStep
    <2>6. QED
      BY <2>1, <2>4, <2>5
  <1>6. CASE RequireInference(commit)
    <2>1. /\ pc = "bind" /\ UNCHANGED <<features, inferences>>
          /\ UNCHANGED <<source, after, batch, current, steps, bound>>
          /\ \/ context' = context /\ pc' = "fail"
             \/ /\ context' = [context EXCEPT ![Incident] = "required"]
                /\ pc' \in {"fail", "attach"}
      BY <1>6 DEF RequireInference, Failure, Goes, Applied
    <2>2. pc' \in Recorded \cup {"fail"} /\ inferences[Incident] = 0
      BY <1>3, <2>1 DEF Recorded, ProcessIsRecorded
    <2>3. CASE context' = context /\ pc' = "fail"
      BY <1>1, <1>2, <1>3, <2>1, <2>2, <2>3, RecordedStep
    <2>4. CASE context' = [context EXCEPT ![Incident] = "required"] /\ pc' \in {"fail", "attach"}
      BY <1>1, <1>2, <1>3, <2>1, <2>2, <2>4, RecordedStep
    <2>5. QED
      BY <2>1, <2>3, <2>4
  <1>7. ASSUME NEW result \in {"attached", "failed"}, Infer(result, commit)
        PROVE  IInv'
    <2>1. /\ pc = "attach" /\ features' = features /\ inferences' = [inferences EXCEPT ![Incident] = @ + 1]
          /\ context' = context \/ context' = [context EXCEPT ![Incident] = result]
          /\ UNCHANGED <<source, after, batch, current, steps, bound>>
          /\ \/ pc' = "fail"
             \/ /\ pc' = "open" /\ result = "attached"
                /\ context' = [context EXCEPT ![Incident] = result]
      BY <1>7 DEF Infer, Failure, Goes, Applied
    <2>2. context[Incident] = "required" /\ inferences[Incident] = 0
      BY <2>1 DEF ProcessIsRecorded
    <2>3. inferences' = [inferences EXCEPT ![Incident] = 1]
      BY <1>2, <2>1, <2>2
    <2>4. pc' \in Recorded \cup {"fail"}
      BY <2>1 DEF Recorded
    <2>5. CASE context' = [context EXCEPT ![Incident] = result]
      BY <1>1, <1>2, <1>3, <2>1, <2>2, <2>3, <2>4, <2>5, RecordedStep
    <2>6. CASE context' = context
      <3>1. context' = [context EXCEPT ![Incident] = "required"]
        BY <1>3, <2>2, <2>6
      <3>2. pc' = "fail"
        <4>1. SUFFICES ASSUME context' = [context EXCEPT ![Incident] = result], result = "attached"
                       PROVE  FALSE
          BY <2>1
        <4>2. context'[Incident] = "attached"
          BY <1>2, <4>1
        <4>3. QED
          BY <2>2, <2>6, <4>2
      <3>3. QED
        BY <1>1, <1>2, <1>3, <2>1, <2>3, <2>4, <3>1, <3>2, RecordedStep
    <2>7. QED
      BY <2>1, <2>5, <2>6
  <1>8. QED
    BY <1>4, <1>5, <1>6, <1>7

\* A workflow is opened, reserved for a step, and published; only one that rests is acknowledged.
LEMMA WorkflowStep ==
  ASSUME IInv, NEW commit \in Commit,
         \/ Open(commit) \/ Advance(commit)
         \/ \E next \in {"ready", "resting"} : Publish(next, commit)
  PROVE  IInv'
  <1> USE DEF IInv
  <1>1. /\ pc \in {"open", "advance", "publish"} /\ pc \in Recorded /\ pc \in Processing
        /\ UNCHANGED <<log, queue, evidence, features, context, inferences>>
    BY DEF Open, Advance, Publish, Recorded, Processing
  <1>2. /\ Incident \in Incidents /\ steps \in 0 .. StepBudget /\ bound \in 0 .. Observations
        /\ features \in [Incidents -> Nat] /\ features[Incident] \in Nat
        /\ features[Incident] <= Appendable(current)
        /\ context \in [Incidents -> {"none", "required", "failed", "attached"}]
        /\ inferences \in [Incidents -> Nat] /\ inferences[Incident] <= 1
        /\ workflow \in [Incidents -> {"none", "ready", "claimed", "resting"}]
    BY <1>1, InProcess
  <1> DEFINE c == context[Incident]
             i == inferences[Incident]
             f == features[Incident]
  <1>3. /\ c \in {"none", "required", "failed", "attached"} /\ i \in {0, 1} /\ f \in Nat
        /\ f <= Appendable(current) /\ features' = [features EXCEPT ![Incident] = f]
        /\ context' = [context EXCEPT ![Incident] = c]
        /\ inferences' = [inferences EXCEPT ![Incident] = i]
        /\ workflow = [workflow EXCEPT ![Incident] = workflow[Incident]]
        /\ workflow[Incident] \in {"none", "ready", "claimed", "resting"}
        /\ c = "none" => i = 0
        /\ current \in HasFeatures => c = "attached"
    BY <1>1, <1>2 DEF ProcessIsRecorded
  <1> HIDE DEF c, i, f
  <1>4. /\ UNCHANGED <<source, after, batch, current, bound>> /\ steps' \in 0 .. StepBudget
        /\ pc' \in {"fail", "advance", "publish", "ack"}
        /\ \/ workflow' = workflow /\ pc' # "ack"
           \/ \E w \in {"ready", "claimed", "resting"} :
                workflow' = [workflow EXCEPT ![Incident] = w] /\ (pc' = "ack" => w = "resting")
    <2>1. CASE Open(commit)
      BY <1>2, <2>1 DEF Open, Failure, Goes
    <2>2. CASE Advance(commit)
      <3>1. CASE steps = StepBudget
        BY <1>2, <2>2, <3>1 DEF Advance, Failure, Goes
      <3>2. CASE steps # StepBudget
        <4>1. steps + 1 \in 0 .. StepBudget
          BY <1>2, <3>2, Bounds
        <4>2. QED
          BY <1>2, <2>2, <3>2, <4>1 DEF Advance, Failure, Goes
      <3>3. QED
        BY <3>1, <3>2
    <2>3. ASSUME NEW next \in {"ready", "resting"}, Publish(next, commit)
          PROVE  /\ UNCHANGED <<source, after, batch, current, steps, bound>>
                 /\ pc' \in {"fail", "advance", "ack"}
                 /\ \/ workflow' = workflow /\ pc' # "ack"
                    \/ /\ workflow' = [workflow EXCEPT ![Incident] = next]
                       /\ pc' = "ack" => next = "resting"
      BY <1>2, <2>3 DEF Publish, Failure, Goes, Applied
    <2>4. QED
      BY <1>2, <2>1, <2>2, <2>3
  <1>5. pc' \in Recorded \cup {"fail"}
    BY <1>4 DEF Recorded
  <1>6. CASE workflow' = workflow /\ pc' # "ack"
    BY <1>1, <1>2, <1>3, <1>4, <1>5, <1>6, RecordedStep
  <1>7. ASSUME NEW w \in {"ready", "claimed", "resting"},
               workflow' = [workflow EXCEPT ![Incident] = w], pc' = "ack" => w = "resting"
        PROVE  IInv'
    BY <1>1, <1>2, <1>3, <1>4, <1>5, <1>7, RecordedStep
  <1>8. QED
    BY <1>4, <1>6, <1>7

-----------------------------------------------------------------------------
(* The invariant, and the properties it gives.                             *)

\* Every step of the log, the service and its operator keeps the invariant.
LEMMA NextInvariant == IInv /\ [Next]_vars => IInv'
  <1> SUFFICES ASSUME IInv, [Next]_vars
               PROVE  IInv'
    OBVIOUS
  <1>1. CASE LogGrows \/ LogRotates
    BY <1>1, LogStep
  <1>2. CASE Crash \/ Serve
    <2>1. CASE CheckBinding
      BY <2>1, InferenceStep DEF Commit
    <2>2. QED
      BY <1>2, <2>1, WaitStep, ReadStep, EnqueueStep, ClaimStep, RetainStep, InferenceStep, WorkflowStep,
         SettleStep DEF Serve
  <1>3. CASE \E from \in {"log", "fixture"}, commit \in Commit : Start(from, commit)
    BY <1>3, StartStep
  <1>4. CASE UNCHANGED vars
    <2>1. UNCHANGED <<log, queue, runtime, source, pc, after, batch, current, steps, bound>>
      BY <1>4 DEF vars, service
    <2>2. UNCHANGED <<produced, oldest, rows, order, cursor, evidence, features, context, inferences,
                  workflow>>
      BY <2>1 DEF log, queue, runtime
    <2>3. Stored' = Stored /\ Active' = Active
      BY <2>2 DEF Stored, Active
    <2>4. TypeOK' /\ Sequenced' /\ ClaimIsHeld' /\ ProcessIsRecorded' /\ BatchIsHeld'
      BY <2>1, <2>2, <2>3 DEF IInv, TypeOK, Sequenced, ClaimIsHeld, ProcessIsRecorded, BatchIsHeld,
                              Retained, Incident
    <2>5. CursorIsNewest' /\ BatchFollows' /\ CursorIsRetained' /\ ActiveWithinCapacity'
      BY <2>1, <2>2, <2>3 DEF IInv, CursorIsNewest, BatchFollows, CursorIsRetained,
                              ActiveWithinCapacity
    <2>6. DoneIsProcessed' /\ EffectsBounded' /\ FeaturesAccounted' /\ (NoGap => NoGap')
      BY <2>1, <2>2, <2>3 DEF IInv, DoneIsProcessed, EffectsBounded, FeaturesAccounted, Appendable,
                              NoGap, Retained, Incident
    <2>7. QED
      BY <2>4, <2>5, <2>6 DEF IInv
  <1>5. QED
    BY <1>1, <1>2, <1>3, <1>4 DEF Next

\* The invariant holds in every state of the service.
THEOREM Invariance == Spec => []IInv
  BY InitInvariant, NextInvariant, PTL DEF Spec

\* The queue, the runtime store and the service keep their types, and a pending event has an
\* attempt left.
THEOREM TypeCorrectness == Spec => []TypeOK
  <1>1. IInv => TypeOK
    BY DEF IInv
  <1>2. QED
    BY <1>1, Invariance, PTL

\* While the log does not rotate between the probe of the cursor and the read behind it, no record
\* is missing between two that are stored, whatever commit fails and wherever the service dies.
THEOREM NoRecordIsMissed ==
  ASSUME ~RotationRaces
  PROVE  Spec => []NoGap
  <1>1. IInv => NoGap
    BY DEF IInv
  <1>2. QED
    BY <1>1, Invariance, PTL

\* Enqueue, failure and recovery never make more rows active than the queue has room for.
THEOREM Backpressure == Spec => []ActiveWithinCapacity
  <1>1. IInv => ActiveWithinCapacity
    BY DEF IInv
  <1>2. QED
    BY <1>1, Invariance, PTL

\* An acknowledged event is evidence of its incident, has the model result it asked for, and its
\* workflow rests.
THEOREM AcknowledgedIsProcessed == Spec => []DoneIsProcessed
  <1>1. IInv => DoneIsProcessed
    BY DEF IInv
  <1>2. QED
    BY <1>1, Invariance, PTL

\* However often an event is claimed, its incident retains one source record and the model runs once
\* for it, and the feature records that repeated claims append are bounded by its attempts.
THEOREM BoundedEffects == Spec => []EffectsBounded
  <1>1. IInv => EffectsBounded
    BY DEF IInv
  <1>2. QED
    BY <1>1, Invariance, PTL

\* No step changes the row of a settled event.
LEMMA SettledStep ==
  ASSUME IInv, [Next]_vars, NEW e \in Events, Settled(e)
  PROVE  rows'[e] = rows[e]
  <1>1. rows \in [Events -> Row] /\ e \notin Pending /\ e \in Stored /\ rows[e].status # "CLAIMED"
    BY DEF IInv, TypeOK, Settled, Pending, Stored
  <1>2. CASE UNCHANGED rows
    BY <1>2
  <1>3. ASSUME NEW from \in {"log", "fixture"}, NEW commit \in Commit, Start(from, commit)
        PROVE  rows'[e] = rows[e]
    <2>1. rows' = rows \/ rows' = [d \in Events |-> Recovered(rows[d], RetryLimit)]
      BY <1>3 DEF Start
    <2>2. QED
      BY <1>1, <2>1 DEF Recovered
  <1>4. ASSUME NEW commit \in Commit, Enqueue(commit)
        PROVE  rows'[e] = rows[e]
    <2>1. rows' = rows \/ rows' = Inserted(Head(batch))
      BY <1>4 DEF Enqueue, queue
    <2>2. QED
      BY <1>1, <2>1 DEF Inserted
  <1>5. ASSUME NEW commit \in Commit, ClaimNext(commit)
        PROVE  rows'[e] = rows[e]
    <2>1. \/ rows' = rows
          \/ \E d \in Pending : \E row : rows' = [rows EXCEPT ![d] = row]
      BY <1>5 DEF ClaimNext
    <2>2. QED
      BY <1>1, <2>1
  <1>6. ASSUME NEW commit \in Commit, Finish(commit) \/ FailClaim(commit)
        PROVE  rows'[e] = rows[e]
    <2>1. pc \in Processing /\ (rows' = rows \/ \E status : rows' = [rows EXCEPT ![current].status = status])
      BY <1>6 DEF Finish, FailClaim, Processing, Recorded
    <2>2. current # e
      BY <1>1, <2>1, InProcess
    <2>3. QED
      BY <1>1, <2>1, <2>2
  <1>7. QED
    BY <1>2, <1>3, <1>4, <1>5, <1>6
    DEF Next, Serve, LogGrows, LogRotates, Crash, EndOfBatch, Probe, Read, ReadFixture, Retain,
        CheckBinding, BindFeature, RequireInference, Infer, Open, Advance, Publish, vars, queue

\* A settled event is a tombstone: neither a duplicate, nor recovery, nor a late acknowledgement
\* changes it.
THEOREM Tombstones == Spec => SettledStays
  <1>1. IInv /\ [Next]_vars => [\A e \in Events : Settled(e) => rows'[e] = rows[e]]_vars
    BY SettledStep
  <1>2. QED
    BY <1>1, Invariance, PTL DEF Spec, SettledStays

=============================================================================

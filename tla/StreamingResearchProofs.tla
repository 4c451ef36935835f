----------------------- MODULE StreamingResearchProofs -----------------------
(***************************************************************************)
(* Proofs about StreamingResearch: its inductive invariant, that a         *)
(* verified session left nothing open, that packet metadata is kept until  *)
(* its outcome is durable, and that a restored session is settled, for any *)
(* number of flows and profiles, any capacity and retry limit, and any     *)
(* number of deaths and faults.                                            *)
(***************************************************************************)
EXTENDS StreamingResearch, TLAPS

-----------------------------------------------------------------------------
(* Operators of the model.                                                 *)

\* The bounds are positive, and no flow is not a flow.
LEMMA Bounds ==
  /\ NumFlows \in Nat \ {0} /\ NumProfiles \in Nat \ {0} /\ RetryLimit \in Nat \ {0}
  /\ MaxDeaths \in Nat /\ MaxFaults \in Nat
  /\ NoFlow \notin Flows /\ \A f \in Flows : f \in Nat /\ f <= NumFlows /\ f # NoFlow
  /\ \A p \in Profiles : p \in Nat /\ p <= NumProfiles /\ p >= 1
  /\ 1 \in Profiles
  BY StreamingAssumption DEF Flows, Profiles, NoFlow

\* Nothing of nothing is a value of the type it stands in for.
LEMMA Absent ==
  /\ NoThread.step = "none" /\ NoThread.flow = NoFlow
  /\ NoSweep.step = "none" /\ NoSweep.flow = NoFlow /\ NoSweep.caller = "none"
  /\ NoWork.step = "none" /\ NoWork.flow = NoFlow /\ NoWork.outcome = "none"
  /\ NoWork \in [step : {"none", "claim", "done", "error"} \cup Settling,
                 flow : Flows \cup {NoFlow}, token : 0 .. RetryLimit,
                 outcome : Verdicts \cup {"none"}]
  /\ NoClaim.flow = NoFlow
  /\ NoClaim \in [flow : Flows \cup {NoFlow}, token : 0 .. RetryLimit,
                  profile : 0 .. NumProfiles + 1, answer : {"none", "complete", "unknown"}]
  BY Bounds DEF NoThread, NoSweep, NoWork, NoClaim

\* No coroutine runs: no recovery either.
LEMMA LoopIsFree ==
  ASSUME IInv, Free
  PROVE  /\ sweep = NoSweep /\ pc["consumer"] # "record"
         /\ \A a \in Actors : pc[a] # "recover"
  BY DEF IInv, Free, LoopIsHeld, TypedPlaces, Actors, Coroutines

\* A coroutine runs in the process that the session was started in.
LEMMA Living ==
  ASSUME IInv, NEW a \in Coroutines, pc[a] # "dead"
  PROVE  pc["restorer"] = "off" /\ \A b \in Coroutines : pc[b] # "dead"
  BY DEF IInv, DeadIsDead

\* A coroutine goes on.
LEMMA Moved ==
  ASSUME IInv, NEW a \in Actors, NEW step, Goes(a, step)
  PROVE  /\ pc'[a] = step /\ \A b \in Actors \ {a} : pc'[b] = pc[b]
         /\ pc' = [b \in Actors |-> pc'[b]]
  BY DEF IInv, TypedPlaces, Goes

\* The names of the coroutines.
LEMMA Names ==
  /\ Coroutines = {"task", "consumer", "stopper"}
  /\ Actors = {"task", "consumer", "stopper", "restorer"}
  BY DEF Coroutines, Actors

\* The failure handler cancels the consumer, which forgets its claim unless it investigates.
LEMMA ConsumerCancelled ==
  ASSUME IInv, NEW a \in {"task", "stopper"}, NEW step,
         CancelsConsumer([pc EXCEPT ![a] = step])
  PROVE  /\ pc'[a] = step /\ pc'["consumer"] = Cancelled(pc["consumer"])
         /\ \A b \in Actors \ {a, "consumer"} : pc'[b] = pc[b]
         /\ pc' = [b \in Actors |-> pc'[b]]
         /\ pc["consumer"] = "investigate" =>
              pc'["consumer"] = "abandoned" /\ current' = current
         /\ pc["consumer"] \in Over => pc'["consumer"] = pc["consumer"] /\ current' = NoClaim
         /\ pc["consumer"] \notin Over \cup {"investigate"} =>
              pc'["consumer"] = "cancelled" /\ current' = NoClaim
  <1>1. /\ pc' = [[pc EXCEPT ![a] = step] EXCEPT !["consumer"] = Cancelled(@)]
        /\ current' = IF pc["consumer"] = "investigate" THEN current ELSE NoClaim
    BY DEF CancelsConsumer
  <1>2. /\ pc = [b \in Actors |-> pc[b]] /\ a # "consumer" /\ a \in Actors
        /\ "consumer" \in Actors
    BY Names DEF IInv, TypedPlaces
  <1>3. /\ pc'[a] = step /\ pc'["consumer"] = Cancelled(pc["consumer"])
        /\ \A b \in Actors \ {a, "consumer"} : pc'[b] = pc[b]
        /\ pc' = [b \in Actors |-> pc'[b]]
    BY <1>1, <1>2
  <1>4. QED
    BY <1>1, <1>3 DEF Cancelled, Over

\* The oldest pending row is claimed.
LEMMA RowClaimed ==
  ASSUME IInv, NEW f \in Oldest, rows' = [rows EXCEPT ![f] = Claim(f)]
  PROVE  /\ f \in Flows /\ rows[f].status = "PENDING" /\ f # NoFlow /\ With("PENDING") # {}
         /\ rows'[f] \in Row /\ rows'[f].status = "CLAIMED"
         /\ \A g \in Flows \ {f} : rows'[g] = rows[g]
         /\ rows' \in [Flows -> Row]
         /\ \A g \in Flows : /\ rows'[g].status = "ABSENT" => g # f
                             /\ rows[g].status = "ABSENT" => rows'[g] = rows[g]
                             /\ rows[g].status = "DONE" => rows'[g] = rows[g]
                             /\ rows'[g].status = "PENDING" => rows'[g] = rows[g]
  <1> USE DEF IInv
  <1>1. f \in Flows /\ rows[f].status = "PENDING" /\ f # NoFlow /\ With("PENDING") # {}
    BY Bounds DEF Oldest, With
  <1>2. rows[f].attempts \in 0 .. RetryLimit /\ rows[f].attempts < RetryLimit
    BY <1>1 DEF TypedDisk, Row, RowsFollow
  <1>3. Claim(f) = [status |-> "CLAIMED", attempts |-> rows[f].attempts + 1]
    BY DEF Claim
  <1>4. rows[f].attempts + 1 \in 0 .. RetryLimit
    BY <1>2, Bounds
  <1>5. Claim(f) \in Row /\ Claim(f).status = "CLAIMED"
    BY <1>3, <1>4 DEF Row
  <1>6. QED
    BY <1>1, <1>5 DEF TypedDisk

-----------------------------------------------------------------------------
(* What a step leaves alone.                                               *)

\* The parts of the invariant that a step does not touch.
LEMMA Frame ==
  ASSUME IInv
  PROVE  /\ UNCHANGED <<rows, inputs, committed, outcomes, ledger, lifecycle>> => TypedDisk'
         /\ UNCHANGED <<rows, inputs, committed, outcomes, seen>> => RowsFollow'
         /\ UNCHANGED <<sweep, rows, outcomes>> => SweepFollows'
         /\ UNCHANGED <<rows, inputs, committed, writer, seen>> /\ pc'["task"] = pc["task"] =>
              WriterFollows'
         /\ UNCHANGED <<rows, outcomes, ledger, worker, current>>
              /\ pc'["consumer"] = pc["consumer"] => WorkerFollows'
         /\ session'.error \/ pc'["restorer"] # "off" => CleanSession'
         /\ session'.error \/ pc'["restorer"] # "off" => FailureIsNoted'
         /\ UNCHANGED <<sweep, loop>> /\ UNCHANGED pc => LoopIsHeld'
         /\ UNCHANGED <<rows, inputs, committed, outcomes, ledger, lifecycle, writer, sweep>>
              /\ pc'["task"] = pc["task"] /\ pc'["consumer"] = pc["consumer"] => VerifiedStays'
         /\ UNCHANGED <<rows, inputs, committed, outcomes, ledger, writer, worker, current>>
              /\ pc'["consumer"] = pc["consumer"] /\ pc["restorer"] = "off"
              /\ session'.error = session.error /\ session'.done = session.done => CleanSession'
  <1> USE DEF IInv
  <1>1. UNCHANGED <<rows, inputs, committed, outcomes, ledger, lifecycle>> => TypedDisk'
    BY DEF TypedDisk
  <1>2. UNCHANGED <<rows, inputs, committed, outcomes, seen>> => RowsFollow'
    BY DEF RowsFollow, InputKeptUntilOutcome
  <1>3. UNCHANGED <<sweep, rows, outcomes>> => SweepFollows'
    BY DEF SweepFollows
  <1>4. UNCHANGED <<rows, inputs, committed, writer, seen>> /\ pc'["task"] = pc["task"] =>
          WriterFollows'
    BY DEF WriterFollows
  <1>5. UNCHANGED <<rows, outcomes, ledger, worker, current>>
          /\ pc'["consumer"] = pc["consumer"] => WorkerFollows'
    BY DEF WorkerFollows
  <1>6. session'.error \/ pc'["restorer"] # "off" => CleanSession' /\ FailureIsNoted'
    BY DEF CleanSession, Clean, FailureIsNoted
  <1>7. UNCHANGED <<sweep, loop>> /\ UNCHANGED pc => LoopIsHeld'
    BY DEF LoopIsHeld
  <1>8. UNCHANGED <<rows, inputs, committed, outcomes, ledger, lifecycle, writer, sweep>>
          /\ pc'["task"] = pc["task"] /\ pc'["consumer"] = pc["consumer"] => VerifiedStays'
    BY DEF VerifiedStays, VerifiedIsSettled
  <1>9. UNCHANGED <<rows, inputs, committed, outcomes, ledger, writer, worker, current>>
          /\ pc'["consumer"] = pc["consumer"] /\ pc["restorer"] = "off"
          /\ session'.error = session.error /\ session'.done = session.done => CleanSession'
    BY DEF CleanSession, Clean, CleanFlow, SettledFlow, With
  <1>10. QED
    BY <1>1, <1>2, <1>3, <1>4, <1>5, <1>6, <1>7, <1>8, <1>9

\* A coroutine goes on in a living process, and the disk and the loop stay as they are.
LEMMA StepFrame ==
  ASSUME IInv, Free, UNCHANGED <<disk, loop, sweep>>, pc["restorer"] = "off",
         pc'["restorer"] = "off", \A b \in Coroutines : pc'[b] \notin {"dead", "recover"},
         pc'["consumer"] # "record"
  PROVE  /\ TypedDisk' /\ SweepFollows' /\ LoopIsHeld' /\ DeadIsDead'
         /\ seen' = seen => RowsFollow'
  <1>1. TypedDisk' /\ SweepFollows' /\ (seen' = seen => RowsFollow')
    BY Frame DEF disk
  <1>2. sweep = NoSweep /\ loop = "free" /\ loop' = "free" /\ sweep' = NoSweep
    BY LoopIsFree DEF Free
  <1>3. \A b \in Actors : pc'[b] # "recover"
    BY Names
  <1>4. LoopIsHeld'
    BY <1>2, <1>3, Absent DEF LoopIsHeld, Settling, Actors, Coroutines
  <1>5. QED
    BY <1>1, <1>4 DEF DeadIsDead

\* A verified session stays settled if what it says stays.
LEMMA VerifiedFrame ==
  ASSUME IInv, UNCHANGED <<disk, sweep>>,
         "VERIFIED" \in lifecycle =>
           /\ writer' = writer
           /\ pc'["consumer"] = pc["consumer"]
           /\ pc'["task"] \in {"closing", "done", "dead"} \cup Handling
  PROVE  VerifiedStays'
  BY DEF IInv, VerifiedStays, VerifiedIsSettled, disk

\* What a step leaves alone has its type.
LEMMA TypedFrame ==
  ASSUME IInv, UNCHANGED <<writer, worker, current, seen>>,
         session' \in [aborted : BOOLEAN, error : BOOLEAN, done : BOOLEAN, blocked : BOOLEAN,
                       started : BOOLEAN],
         windows' \subseteq Flows, deaths' \in 0 .. MaxDeaths, faults' \in 0 .. MaxFaults
  PROVE  TypedWork'
  BY DEF IInv, TypedWork

\* The fields of a session.
LEMMA SessionFields ==
  ASSUME IInv
  PROVE  /\ session \in [aborted : BOOLEAN, error : BOOLEAN, done : BOOLEAN, blocked : BOOLEAN,
                         started : BOOLEAN]
         /\ windows \subseteq Flows /\ deaths \in 0 .. MaxDeaths /\ faults \in 0 .. MaxFaults
  BY DEF IInv, TypedWork

-----------------------------------------------------------------------------
(* The failure handler.                                                    *)

\* A coroutine that handles a failure has noted it.
LEMMA FailureNoted ==
  ASSUME IInv, NEW a \in Coroutines, pc[a] \in Handling
  PROVE  session.error /\ pc["restorer"] = "off" /\ \A b \in Coroutines : pc[b] # "dead"
  <1>1. pc[a] # "dead"
    BY DEF Handling
  <1>2. QED
    BY <1>1, Living DEF IInv, FailureIsNoted

LEMMA FailureClosesStep ==
  ASSUME IInv, NEW a \in Coroutines, FailureCloses(a)
  PROVE  IInv'
  <1> USE DEF IInv
  <1>1. /\ pc[a] = "close" /\ Free /\ Goes(a, "silence")
        /\ session' = [session EXCEPT !.started = FALSE]
        /\ UNCHANGED <<disk, loop, sweep, writer, worker, current, windows, seen, deaths, faults>>
    BY DEF FailureCloses, At
  <1>2. /\ pc'[a] = "silence" /\ \A b \in Actors \ {a} : pc'[b] = pc[b]
        /\ pc' = [b \in Actors |-> pc'[b]]
    BY <1>1, Moved, Names
  <1>3. /\ session.error /\ pc["restorer"] = "off" /\ pc'["restorer"] = "off"
        /\ \A b \in Coroutines : pc'[b] # "dead"
        /\ pc["consumer"] # "record" /\ \A b \in Actors : pc[b] # "recover"
    BY <1>1, <1>2, FailureNoted, LoopIsFree, Names DEF Handling
  <1>4. TypedDisk' /\ SweepFollows' /\ LoopIsHeld' /\ DeadIsDead' /\ RowsFollow'
    BY <1>1, <1>2, <1>3, StepFrame, Names
  <1>5. TypedPlaces'
    BY <1>1, <1>2, Names DEF TypedPlaces, Handling
  <1>6. TypedWork'
    BY <1>1, SessionFields, TypedFrame
  <1>7. FailureIsNoted' /\ CleanSession'
    <2>1. session'.error
      BY <1>1, <1>3, SessionFields
    <2>2. QED
      BY <2>1, Frame
  <1>8. WriterFollows'
    BY <1>1, <1>2, Names DEF WriterFollows, disk, Handling
  <1>9. WorkerFollows'
    BY <1>1, <1>2, <1>3, Names DEF WorkerFollows, disk, Handling, Asking
  <1>10. VerifiedStays'
    BY <1>1, <1>2, Names, VerifiedFrame DEF VerifiedStays, Handling
  <1>11. QED
    BY <1>4, <1>5, <1>6, <1>7, <1>8, <1>9, <1>10

LEMMA FailureCancelsStep ==
  ASSUME IInv, NEW a \in Coroutines, FailureCancels(a)
  PROVE  IInv'
  <1> USE DEF IInv
  <1>1. /\ pc[a] = "silence" /\ Free
        /\ \/ a = "consumer" /\ Goes(a, "gather") /\ UNCHANGED current
           \/ a # "consumer" /\ CancelsConsumer([pc EXCEPT ![a] = "gather"])
        /\ UNCHANGED <<disk, loop, sweep, writer, worker, session, windows, seen, deaths, faults>>
    BY DEF FailureCancels, At
  <1>2. /\ session.error /\ pc["restorer"] = "off"
        /\ \A b \in Coroutines : pc[b] # "dead"
        /\ pc["consumer"] # "record" /\ \A b \in Actors : pc[b] # "recover"
        /\ sweep = NoSweep
    BY <1>1, FailureNoted, LoopIsFree DEF Handling
  <1>3. /\ pc'[a] = "gather" /\ \A b \in Actors \ {a, "consumer"} : pc'[b] = pc[b]
        /\ pc' = [b \in Actors |-> pc'[b]]
        /\ \/ pc'["consumer"] = "gather" /\ current' = current /\ a = "consumer"
           \/ pc'["consumer"] = "cancelled" /\ current' = NoClaim /\ pc["consumer"] # "done"
           \/ pc'["consumer"] = pc["consumer"] /\ current' = NoClaim /\ pc["consumer"] \in Over
           \/ pc["consumer"] = "investigate" /\ pc'["consumer"] = "abandoned" /\ current' = current
    <2>1. CASE a = "consumer"
      BY <1>1, <2>1, Moved, Names
    <2>2. CASE a # "consumer"
      <3>1. a \in {"task", "stopper"} /\ CancelsConsumer([pc EXCEPT ![a] = "gather"])
        BY <1>1, <2>2, Names
      <3>2. QED
        BY <3>1, ConsumerCancelled DEF Over
    <2>3. QED
      BY <2>1, <2>2
  <1>4. /\ pc'["restorer"] = "off" /\ pc'["consumer"] # "record"
        /\ \A b \in Coroutines : pc'[b] \notin {"dead", "recover"}
    BY <1>2, <1>3, Names
  <1>5. TypedDisk' /\ SweepFollows' /\ LoopIsHeld' /\ DeadIsDead' /\ RowsFollow'
    BY <1>1, <1>2, <1>4, StepFrame
  <1>6. TypedPlaces'
    BY <1>1, <1>3, Names DEF TypedPlaces, Handling, Asking, Over
  <1>7. TypedWork'
    BY <1>1, <1>3, Absent DEF TypedWork
  <1>8. FailureIsNoted' /\ CleanSession'
    BY <1>1, <1>2, Frame
  <1>9. WriterFollows'
    BY <1>1, <1>3, Names DEF WriterFollows, disk, Handling
  <1>10. WorkerFollows'
    BY <1>1, <1>2, <1>3, Absent DEF WorkerFollows, disk, Handling, Asking, Over
  <1>11. VerifiedStays'
    <2>1. "VERIFIED" \in lifecycle => pc'["consumer"] = pc["consumer"]
      BY <1>1, <1>2, <1>3, Names DEF VerifiedStays, Over
    <2>2. QED
      BY <1>1, <1>3, <2>1, Names, VerifiedFrame DEF VerifiedStays, Handling
  <1>12. QED
    BY <1>5, <1>6, <1>7, <1>8, <1>9, <1>10, <1>11

\* A coroutine begins recover_no_retry.
LEMMA SweepBegins ==
  ASSUME IInv, Free, NEW a \in Actors, NEW caller \in {"finalize", "failure", "restore"},
         Sweeps(a, caller)
  PROVE  /\ pc'[a] = "recover" /\ \A b \in Actors \ {a} : pc'[b] = pc[b]
         /\ pc' = [b \in Actors |-> pc'[b]]
         /\ sweep' = [step |-> "requeue", flow |-> NoFlow, caller |-> caller]
         /\ loop' = a /\ sweep' # NoSweep
         /\ (caller = "restore" <=> a = "restorer") /\ (caller = "finalize" => a = "task") =>
              LoopIsHeld'
         /\ SweepFollows'
  <1>1. /\ pc'[a] = "recover" /\ \A b \in Actors \ {a} : pc'[b] = pc[b]
        /\ pc' = [b \in Actors |-> pc'[b]]
        /\ sweep' = [step |-> "requeue", flow |-> NoFlow, caller |-> caller]
        /\ loop' = a
    BY Moved DEF Sweeps
  <1>2. sweep' # NoSweep /\ SweepFollows'
    BY <1>1 DEF NoSweep, SweepFollows, Settling
  <1>3. /\ \A b \in Actors : pc[b] # "recover"
        /\ pc["consumer"] # "record"
    BY LoopIsFree
  <1>4. ASSUME caller = "restore" <=> a = "restorer", caller = "finalize" => a = "task"
        PROVE  LoopIsHeld'
    BY <1>1, <1>2, <1>3, <1>4, Names DEF LoopIsHeld, Settling
  <1>5. QED
    BY <1>1, <1>2, <1>4

LEMMA FailureGathersStep ==
  ASSUME IInv, NEW a \in Coroutines, FailureGathers(a)
  PROVE  IInv'
  <1> USE DEF IInv
  <1>1. /\ pc[a] = "gather" /\ Free /\ Sweeps(a, "failure")
        /\ lifecycle' = lifecycle \cup {"ABORTED"}
        /\ UNCHANGED <<rows, inputs, committed, outcomes, ledger, writer, worker, current, session,
                       windows, seen, deaths, faults>>
    BY DEF FailureGathers, At
  <1>2. /\ session.error /\ pc["restorer"] = "off" /\ \A b \in Coroutines : pc[b] # "dead"
        /\ pc["consumer"] # "record"
    BY <1>1, FailureNoted, LoopIsFree DEF Handling
  <1>3. /\ pc'[a] = "recover" /\ \A b \in Actors \ {a} : pc'[b] = pc[b]
        /\ pc' = [b \in Actors |-> pc'[b]] /\ a \in Actors /\ a # "restorer"
        /\ sweep' = [step |-> "requeue", flow |-> NoFlow, caller |-> "failure"]
        /\ loop' = a /\ LoopIsHeld' /\ SweepFollows'
    BY <1>1, SweepBegins, Names
  <1>4. TypedDisk' /\ RowsFollow'
    BY <1>1, Frame DEF TypedDisk
  <1>5. DeadIsDead'
    BY <1>2, <1>3, Names DEF DeadIsDead
  <1>6. TypedPlaces'
    BY <1>1, <1>3, Names DEF TypedPlaces, Handling, Sweeping
  <1>7. TypedWork'
    BY <1>1, SessionFields, TypedFrame
  <1>8. FailureIsNoted' /\ CleanSession'
    BY <1>1, <1>2, Frame
  <1>9. WriterFollows'
    BY <1>1, <1>3, Names DEF WriterFollows, Handling
  <1>10. WorkerFollows'
    BY <1>1, <1>2, <1>3, Names DEF WorkerFollows, Handling, Asking
  <1>11. VerifiedStays'
    BY <1>1, <1>3, Names DEF VerifiedStays, VerifiedIsSettled, Handling, Settling
  <1>12. QED
    BY <1>3, <1>4, <1>5, <1>6, <1>7, <1>8, <1>9, <1>10, <1>11

LEMMA FailureReportsStep ==
  ASSUME IInv, NEW a \in Coroutines, FailureReports(a)
  PROVE  IInv'
  <1> USE DEF IInv
  <1>1. /\ pc[a] = "update" /\ Free /\ Goes(a, IF a = "stopper" THEN "cancel" ELSE "done")
        /\ UNCHANGED <<disk, loop, sweep, writer, worker, current, session, windows, seen, deaths,
                       faults>>
    BY DEF FailureReports, At
  <1>2. /\ pc'[a] = (IF a = "stopper" THEN "cancel" ELSE "done")
        /\ \A b \in Actors \ {a} : pc'[b] = pc[b]
        /\ pc' = [b \in Actors |-> pc'[b]]
    BY <1>1, Moved, Names
  <1>3. /\ session.error /\ pc["restorer"] = "off" /\ pc'["restorer"] = "off"
        /\ \A b \in Coroutines : pc'[b] # "dead"
        /\ pc["consumer"] # "record" /\ \A b \in Actors : pc[b] # "recover"
    BY <1>1, <1>2, FailureNoted, LoopIsFree, Names DEF Handling
  <1>4. TypedDisk' /\ SweepFollows' /\ LoopIsHeld' /\ DeadIsDead' /\ RowsFollow'
    BY <1>1, <1>2, <1>3, StepFrame, Names
  <1>5. TypedPlaces'
    BY <1>1, <1>2, Names DEF TypedPlaces, Handling, Over
  <1>6. TypedWork'
    BY <1>1, SessionFields, TypedFrame
  <1>7. FailureIsNoted' /\ CleanSession'
    BY <1>1, <1>3, Frame
  <1>8. WriterFollows'
    BY <1>1, <1>2, Names DEF WriterFollows, disk, Handling
  <1>9. WorkerFollows'
    BY <1>1, <1>2, <1>3, Names DEF WorkerFollows, disk, Handling, Asking
  <1>10. VerifiedStays'
    BY <1>1, <1>2, Names, VerifiedFrame DEF VerifiedStays, Handling
  <1>11. QED
    BY <1>4, <1>5, <1>6, <1>7, <1>8, <1>9, <1>10

\* Closing, cancelling, gathering and reporting keep the invariant.
LEMMA FailureStep ==
  ASSUME IInv, NEW a \in Coroutines, Failure(a)
  PROVE  IInv'
  BY FailureClosesStep, FailureCancelsStep, FailureGathersStep, FailureReportsStep DEF Failure

\* A coroutine fails: _failure has begun, and what failed is noted.
LEMMA Failing ==
  ASSUME IInv, Free, NEW a \in Coroutines, Fails(a), pc[a] # "dead", UNCHANGED <<loop, sweep, disk>>
  PROVE  /\ pc'[a] = "close" /\ \A b \in Actors \ {a} : pc'[b] = pc[b]
         /\ pc' = [b \in Actors |-> pc'[b]]
         /\ session' \in [aborted : BOOLEAN, error : BOOLEAN, done : BOOLEAN, blocked : BOOLEAN,
                         started : BOOLEAN]
         /\ session'.error /\ windows' = {}
         /\ TypedDisk' /\ TypedPlaces' /\ SweepFollows' /\ LoopIsHeld' /\ DeadIsDead'
         /\ FailureIsNoted' /\ CleanSession' /\ (seen' = seen => RowsFollow')
  <1> USE DEF IInv
  <1>1. /\ pc'[a] = "close" /\ \A b \in Actors \ {a} : pc'[b] = pc[b]
        /\ pc' = [b \in Actors |-> pc'[b]]
    BY Moved, Names DEF Fails
  <1>2. /\ session' \in [aborted : BOOLEAN, error : BOOLEAN, done : BOOLEAN, blocked : BOOLEAN,
                        started : BOOLEAN]
        /\ session'.error /\ windows' = {}
    BY SessionFields DEF Fails
  <1>3. /\ pc["restorer"] = "off" /\ \A b \in Coroutines : pc[b] # "dead"
        /\ pc["consumer"] # "record" /\ \A b \in Actors : pc[b] # "recover"
    BY Living, LoopIsFree
  <1>4. /\ pc'["restorer"] = "off" /\ pc'["consumer"] # "record"
        /\ \A b \in Coroutines : pc'[b] \notin {"dead", "recover"}
    BY <1>1, <1>3, Names
  <1>5. /\ TypedDisk' /\ SweepFollows' /\ LoopIsHeld' /\ DeadIsDead'
        /\ (seen' = seen => RowsFollow')
    BY <1>3, <1>4, StepFrame
  <1>6. TypedPlaces'
    BY <1>1, Names DEF TypedPlaces, Handling
  <1>7. FailureIsNoted' /\ CleanSession'
    BY <1>2, Frame
  <1>8. QED
    BY <1>1, <1>2, <1>5, <1>6, <1>7

-----------------------------------------------------------------------------
(* The steps of the capture task and of stop() that fail.                  *)

LEMMA TaskFailsStep ==
  ASSUME IInv, TaskFails
  PROVE  IInv'
  <1> USE DEF IInv
  <1>1. /\ Free /\ Fails("task")
        /\ \/ pc["task"] \in {"commit", "enqueue"} /\ writer' = NoThread
           \/ pc["task"] \in {"collect", "exclude", "closing"} /\ writer' = writer
        /\ faults' \in 0 .. MaxFaults
        /\ UNCHANGED <<disk, loop, sweep, worker, current, seen, deaths>>
    BY SessionFields, Bounds DEF TaskFails, At, Fault
  <1>2. writer' = NoThread /\ (writer' = writer \/ pc["task"] \in {"commit", "enqueue"})
    BY <1>1 DEF WriterFollows
  <1>3. /\ pc'["task"] = "close" /\ \A b \in Actors \ {"task"} : pc'[b] = pc[b]
        /\ session' \in [aborted : BOOLEAN, error : BOOLEAN, done : BOOLEAN, blocked : BOOLEAN,
                        started : BOOLEAN]
        /\ windows' = {}
        /\ TypedDisk' /\ TypedPlaces' /\ SweepFollows' /\ LoopIsHeld' /\ DeadIsDead'
        /\ FailureIsNoted' /\ CleanSession' /\ RowsFollow'
    BY <1>1, Failing, Names
  <1>4. TypedWork'
    BY <1>1, <1>2, <1>3 DEF TypedWork
  <1>5. WriterFollows'
    BY <1>2, <1>3, Absent DEF WriterFollows
  <1>6. WorkerFollows'
    BY <1>1, <1>3, Names DEF WorkerFollows, disk
  <1>7. VerifiedStays'
    <2>1. "VERIFIED" \in lifecycle => writer' = writer
      BY <1>2 DEF VerifiedStays, Handling
    <2>2. QED
      BY <1>1, <1>3, <2>1, Names, VerifiedFrame DEF Handling
  <1>8. QED
    BY <1>3, <1>4, <1>5, <1>6, <1>7

LEMMA DrainTimedOutStep ==
  ASSUME IInv, DrainTimedOut
  PROVE  IInv'
  <1> USE DEF IInv
  <1>1. /\ pc["task"] = "expired" /\ Free /\ Goes("task", "quiet")
        /\ session' = [session EXCEPT !.error = TRUE, !.started = FALSE] /\ windows' = {}
        /\ UNCHANGED <<disk, loop, sweep, writer, worker, current, seen, deaths, faults>>
    BY DEF DrainTimedOut, At
  <1>2. /\ pc'["task"] = "quiet" /\ \A b \in Actors \ {"task"} : pc'[b] = pc[b]
        /\ pc' = [b \in Actors |-> pc'[b]]
    BY <1>1, Moved, Names
  <1>3. /\ pc["restorer"] = "off" /\ pc'["restorer"] = "off" /\ pc'["consumer"] # "record"
        /\ \A b \in Coroutines : pc'[b] \notin {"dead", "recover"}
    BY <1>1, <1>2, Living, LoopIsFree, Names
  <1>4. /\ session' \in [aborted : BOOLEAN, error : BOOLEAN, done : BOOLEAN, blocked : BOOLEAN,
                        started : BOOLEAN]
        /\ session'.error
    BY <1>1, SessionFields
  <1>5. TypedDisk' /\ SweepFollows' /\ LoopIsHeld' /\ DeadIsDead' /\ RowsFollow'
    BY <1>1, <1>3, StepFrame
  <1>6. TypedPlaces'
    BY <1>1, <1>2, Names DEF TypedPlaces
  <1>7. TypedWork'
    BY <1>1, <1>4, SessionFields, TypedFrame
  <1>8. FailureIsNoted' /\ CleanSession'
    BY <1>4, Frame
  <1>9. WriterFollows' /\ WorkerFollows'
    BY <1>1, <1>2, Names DEF WriterFollows, WorkerFollows, disk
  <1>10. VerifiedStays'
    BY <1>1, VerifiedFrame DEF VerifiedStays, Handling
  <1>11. QED
    BY <1>5, <1>6, <1>7, <1>8, <1>9, <1>10

LEMMA DrainRecoversStep ==
  ASSUME IInv, DrainRecovers
  PROVE  IInv'
  <1> USE DEF IInv
  <1>1. /\ pc["task"] = "quiet" /\ Free /\ Sweeps("task", "finalize")
        /\ UNCHANGED <<disk, writer, worker, current, session, windows, seen, deaths, faults>>
    BY DEF DrainRecovers, At
  <1>2. /\ session.error /\ pc["restorer"] = "off" /\ \A b \in Coroutines : pc[b] # "dead"
        /\ pc["consumer"] # "record"
    BY <1>1, Living, LoopIsFree, Names DEF FailureIsNoted
  <1>3. /\ pc'["task"] = "recover" /\ \A b \in Actors \ {"task"} : pc'[b] = pc[b]
        /\ pc' = [b \in Actors |-> pc'[b]]
        /\ sweep' = [step |-> "requeue", flow |-> NoFlow, caller |-> "finalize"]
        /\ loop' = "task" /\ LoopIsHeld' /\ SweepFollows'
    BY <1>1, SweepBegins, Names
  <1>4. TypedDisk' /\ RowsFollow'
    BY <1>1, Frame DEF disk
  <1>5. DeadIsDead'
    BY <1>2, <1>3, Names DEF DeadIsDead
  <1>6. TypedPlaces'
    BY <1>1, <1>3, Names DEF TypedPlaces, Handling, Sweeping
  <1>7. TypedWork'
    BY <1>1, SessionFields, TypedFrame
  <1>8. FailureIsNoted' /\ CleanSession'
    BY <1>1, <1>2, Frame
  <1>9. WriterFollows'
    BY <1>1, <1>3, Names DEF WriterFollows, disk
  <1>10. WorkerFollows'
    BY <1>1, <1>2, <1>3, Names DEF WorkerFollows, disk
  <1>11. VerifiedStays'
    BY <1>1 DEF VerifiedStays, Handling, disk
  <1>12. QED
    BY <1>3, <1>4, <1>5, <1>6, <1>7, <1>8, <1>9, <1>10, <1>11

\* stop() aborts at once, or after its deadline.
LEMMA StopFailsStep ==
  ASSUME IInv, Free, pc["stopper"] \in {"idle", "drain"}, Fails("stopper"),
         UNCHANGED <<disk, loop, sweep, writer, worker, current, seen, deaths, faults>>
  PROVE  IInv'
  <1> USE DEF IInv
  <1>1. /\ pc'["stopper"] = "close" /\ \A b \in Actors \ {"stopper"} : pc'[b] = pc[b]
        /\ session' \in [aborted : BOOLEAN, error : BOOLEAN, done : BOOLEAN, blocked : BOOLEAN,
                        started : BOOLEAN]
        /\ windows' = {}
        /\ TypedDisk' /\ TypedPlaces' /\ SweepFollows' /\ LoopIsHeld' /\ DeadIsDead'
        /\ FailureIsNoted' /\ CleanSession' /\ RowsFollow'
    BY Failing, Names
  <1>2. TypedWork'
    BY <1>1, SessionFields, TypedFrame
  <1>3. WriterFollows' /\ WorkerFollows'
    BY <1>1, Names, Frame DEF disk
  <1>4. VerifiedStays'
    BY <1>1, Names, Frame DEF disk
  <1>5. QED
    BY <1>1, <1>2, <1>3, <1>4

LEMMA StopCancelsStep ==
  ASSUME IInv, StopCancels
  PROVE  IInv'
  <1> USE DEF IInv
  <1>1. /\ pc["stopper"] = "cancel" /\ Free
        /\ pc' = [pc EXCEPT !["stopper"] = "done", !["task"] = "done"]
        /\ UNCHANGED <<disk, loop, sweep, writer, worker, current, session, windows, seen, deaths,
                       faults>>
    BY DEF StopCancels, At
  <1>2. /\ pc'["stopper"] = "done" /\ pc'["task"] = "done"
        /\ pc'["consumer"] = pc["consumer"] /\ pc'["restorer"] = pc["restorer"]
        /\ pc' = [b \in Actors |-> pc'[b]]
    BY <1>1, Names DEF TypedPlaces
  <1>3. /\ session.error /\ pc["restorer"] = "off" /\ pc'["restorer"] = "off"
        /\ pc'["consumer"] # "record"
        /\ \A b \in Coroutines : pc'[b] \notin {"dead", "recover"}
    BY <1>1, <1>2, Living, LoopIsFree, Names DEF FailureIsNoted
  <1>4. TypedDisk' /\ SweepFollows' /\ LoopIsHeld' /\ DeadIsDead' /\ RowsFollow'
    BY <1>1, <1>3, StepFrame
  <1>5. TypedPlaces'
    BY <1>1, <1>2, Names DEF TypedPlaces
  <1>6. TypedWork'
    BY <1>1, SessionFields, TypedFrame
  <1>7. FailureIsNoted' /\ CleanSession'
    BY <1>1, <1>3, Frame
  <1>8. WriterFollows' /\ WorkerFollows'
    BY <1>1, <1>2, Names DEF WriterFollows, WorkerFollows, disk
  <1>9. VerifiedStays'
    BY <1>1, <1>2, VerifiedFrame DEF VerifiedStays
  <1>10. QED
    BY <1>4, <1>5, <1>6, <1>7, <1>8, <1>9

-----------------------------------------------------------------------------
(* recover_no_retry.                                                       *)

\* A recovery runs after a failure, or after the death of the process.
LEMMA Recovering ==
  ASSUME IInv, NEW a \in Actors, pc[a] = "recover"
  PROVE  /\ loop = a /\ sweep # NoSweep
         /\ sweep \in [step : Sweeping, flow : Flows \cup {NoFlow},
                       caller : {"finalize", "failure", "restore"}]
         /\ session.error \/ pc["restorer"] # "off"
         /\ sweep.caller = "restore" <=> a = "restorer"
         /\ sweep.caller = "finalize" => a = "task"
         /\ a # "restorer" => /\ session.error /\ pc["restorer"] = "off"
                              /\ \A b \in Coroutines : pc[b] # "dead"
         /\ pc["restorer"] \in {"off", "recover"}
         /\ pc["consumer"] # "record" /\ \A b \in Actors \ {a} : pc[b] # "recover"
  <1> USE DEF IInv
  <1>1. loop = a /\ \A b \in Actors \ {a} : pc[b] # "recover"
    BY DEF LoopIsHeld
  <1>2. sweep # NoSweep
    <2>1. loop # "free"
      BY <1>1, Names
    <2>2. pc["consumer"] \in {"load", "record"} => loop # "consumer"
      BY <1>1
    <2>3. QED
      BY <2>1, <2>2 DEF LoopIsHeld
  <1>3. sweep \in [step : Sweeping, flow : Flows \cup {NoFlow},
                   caller : {"finalize", "failure", "restore"}]
    BY <1>2 DEF TypedPlaces
  <1>4. /\ sweep.caller = "restore" <=> a = "restorer"
        /\ sweep.caller = "finalize" => a = "task"
    BY <1>1, <1>2 DEF LoopIsHeld
  <1>5. pc["restorer"] = "off" => session.error
    BY <1>2 DEF FailureIsNoted
  <1>6. ASSUME a # "restorer"
        PROVE  session.error /\ pc["restorer"] = "off" /\ \A b \in Coroutines : pc[b] # "dead"
    <2>1. a \in Coroutines /\ pc[a] # "dead"
      BY <1>6 DEF Actors
    <2>2. QED
      BY <2>1, <1>5, Living
  <1>7. pc["restorer"] \in {"off", "recover"}
    BY <1>6
  <1>8. pc["consumer"] # "record"
    BY <1>1 DEF LoopIsHeld
  <1>9. QED
    BY <1>1, <1>2, <1>3, <1>4, <1>5, <1>6, <1>7, <1>8

\* The recovery goes on to its next step.
LEMMA SweepMoves ==
  ASSUME IInv, NEW a \in Actors, pc[a] = "recover", NEW step \in Sweeping,
         NEW f \in Flows \cup {NoFlow}, step \in Settling <=> f # NoFlow, SweepGoes(step, f),
         UNCHANGED <<pc, loop, writer, worker, current, session, windows, seen, deaths, faults>>
  PROVE  /\ sweep' = [step |-> step, flow |-> f, caller |-> sweep.caller]
         /\ TypedPlaces' /\ TypedWork' /\ LoopIsHeld' /\ DeadIsDead' /\ FailureIsNoted'
         /\ CleanSession'
  <1> USE DEF IInv
  <1>1. sweep' = [step |-> step, flow |-> f, caller |-> sweep.caller]
    BY Recovering DEF SweepGoes
  <1>2. sweep # NoSweep /\ sweep' # NoSweep /\ loop = a /\ pc["restorer"] \in {"off", "recover"}
    BY <1>1, Recovering DEF NoSweep, Sweeping
  <1>3. TypedPlaces'
    BY <1>1, Recovering DEF TypedPlaces
  <1>4. TypedWork'
    BY SessionFields, TypedFrame
  <1>5. LoopIsHeld'
    BY <1>1, <1>2 DEF LoopIsHeld
  <1>6. DeadIsDead'
    BY <1>2 DEF DeadIsDead
  <1>7. FailureIsNoted' /\ CleanSession'
    BY Recovering, Frame
  <1>8. QED
    BY <1>1, <1>3, <1>4, <1>5, <1>6, <1>7

LEMMA RecoverRequeuesStep ==
  ASSUME IInv, NEW a \in Actors, RecoverRequeues(a)
  PROVE  IInv'
  <1> USE DEF IInv
  <1>1. /\ pc[a] = "recover" /\ sweep.step = "requeue" /\ SweepGoes("claim", NoFlow)
        /\ rows' = [f \in Flows |-> GivenBack(rows[f])]
        /\ UNCHANGED <<inputs, committed, outcomes, ledger, lifecycle, pc, loop, writer, worker,
                       current, session, windows, seen, deaths, faults>>
    BY DEF RecoverRequeues, Recovers
  <1>2. /\ sweep' = [step |-> "claim", flow |-> NoFlow, caller |-> sweep.caller]
        /\ TypedPlaces' /\ TypedWork' /\ LoopIsHeld' /\ DeadIsDead' /\ FailureIsNoted'
        /\ CleanSession'
    BY <1>1, SweepMoves DEF Sweeping, Settling
  <1>3. ASSUME NEW f \in Flows
        PROVE  /\ rows'[f] \in Row /\ rows[f] \in Row /\ rows'[f].attempts = rows[f].attempts
               /\ rows'[f].status = "ABSENT" <=> rows[f].status = "ABSENT"
               /\ rows'[f].status = "DONE" <=> rows[f].status = "DONE"
               /\ rows'[f].status = "PENDING" =>
                    rows[f].status = "PENDING" \/ rows[f].attempts < RetryLimit
    <2>1. rows[f] \in Row /\ rows'[f] = GivenBack(rows[f])
      BY <1>1 DEF TypedDisk
    <2>2. rows[f].attempts \in Nat /\ RetryLimit \in Nat
      BY <2>1, Bounds DEF Row
    <2>3. CASE rows[f].status # "CLAIMED"
      BY <2>1, <2>3 DEF GivenBack
    <2>4. CASE rows[f].status = "CLAIMED" /\ rows[f].attempts >= RetryLimit
      BY <2>1, <2>4 DEF GivenBack, Row
    <2>5. CASE rows[f].status = "CLAIMED" /\ ~(rows[f].attempts >= RetryLimit)
      <3>1. rows'[f] = [rows[f] EXCEPT !.status = "PENDING"] /\ rows[f].attempts < RetryLimit
        BY <2>1, <2>2, <2>5 DEF GivenBack
      <3>2. QED
        BY <2>1, <2>5, <3>1 DEF Row
    <2>6. QED
      BY <2>3, <2>4, <2>5
  <1>4. rows' = [f \in Flows |-> rows'[f]]
    BY <1>1
  <1>5. TypedDisk'
    BY <1>1, <1>3, <1>4 DEF TypedDisk
  <1>6. RowsFollow'
    BY <1>1, <1>3 DEF RowsFollow, InputKeptUntilOutcome, TypedDisk
  <1>7. SweepFollows'
    BY <1>2 DEF SweepFollows, Settling
  <1>8. WriterFollows'
    BY <1>1, <1>3, Absent DEF WriterFollows, TypedWork
  <1>9. WorkerFollows'
    BY <1>1, <1>3 DEF WorkerFollows, TypedWork
  <1>10. VerifiedStays'
    BY <1>1, <1>2, <1>3 DEF VerifiedStays, VerifiedIsSettled, TypedDisk, Settling
  <1>11. QED
    BY <1>2, <1>5, <1>6, <1>7, <1>8, <1>9, <1>10

LEMMA RecoverClaimsStep ==
  ASSUME IInv, NEW a \in Actors, RecoverClaims(a)
  PROVE  IInv'
  <1> USE DEF IInv
  <1>1. /\ pc[a] = "recover" /\ sweep.step = "claim"
        /\ \/ \E f \in Oldest : rows' = [rows EXCEPT ![f] = Claim(f)] /\ SweepGoes("outcome", f)
           \/ SweepGoes("sweep", NoFlow) /\ rows' = rows
        /\ UNCHANGED <<inputs, committed, outcomes, ledger, lifecycle, pc, loop, writer, worker,
                       current, session, windows, seen, deaths, faults>>
    BY DEF RecoverClaims, Recovers
  <1>2. CASE SweepGoes("sweep", NoFlow) /\ rows' = rows
    <2>1. /\ sweep' = [step |-> "sweep", flow |-> NoFlow, caller |-> sweep.caller]
          /\ TypedPlaces' /\ TypedWork' /\ LoopIsHeld' /\ DeadIsDead' /\ FailureIsNoted'
          /\ CleanSession'
      BY <1>1, <1>2, SweepMoves DEF Sweeping, Settling
    <2>2. TypedDisk' /\ RowsFollow' /\ WriterFollows' /\ WorkerFollows'
      BY <1>1, <1>2, Frame
    <2>3. SweepFollows'
      BY <2>1 DEF SweepFollows, Settling
    <2>4. VerifiedStays'
      BY <1>1, <1>2, <2>1 DEF VerifiedStays, VerifiedIsSettled, Settling
    <2>5. QED
      BY <2>1, <2>2, <2>3, <2>4
  <1>3. ASSUME NEW f \in Oldest, rows' = [rows EXCEPT ![f] = Claim(f)], SweepGoes("outcome", f)
        PROVE  IInv'
    <2>1. /\ f \in Flows /\ rows[f].status = "PENDING" /\ f # NoFlow
          /\ rows'[f] \in Row /\ rows'[f].status = "CLAIMED"
          /\ \A g \in Flows \ {f} : rows'[g] = rows[g]
          /\ rows' \in [Flows -> Row]
          /\ \A g \in Flows : /\ rows'[g].status = "ABSENT" => g # f
                              /\ rows[g].status = "ABSENT" => rows'[g] = rows[g]
                              /\ rows[g].status = "DONE" => rows'[g] = rows[g]
                              /\ rows'[g].status = "PENDING" => rows'[g] = rows[g]
      BY <1>3, RowClaimed
    <2>2. /\ sweep' = [step |-> "outcome", flow |-> f, caller |-> sweep.caller]
          /\ TypedPlaces' /\ TypedWork' /\ LoopIsHeld' /\ DeadIsDead' /\ FailureIsNoted'
          /\ CleanSession'
      BY <1>1, <1>3, <2>1, SweepMoves DEF Sweeping, Settling
    <2>3. \A g \in Flows : rows[g].status # "ABSENT" => rows'[g].status # "ABSENT"
      BY <2>1
    <2>4. TypedDisk'
      BY <1>1, <2>1 DEF TypedDisk
    <2>5. RowsFollow'
      BY <1>1, <2>1, <2>3 DEF RowsFollow, InputKeptUntilOutcome, TypedDisk
    <2>6. SweepFollows'
      BY <2>1, <2>2, <2>3 DEF SweepFollows
    <2>7. WriterFollows'
      BY <1>1, <2>1, <2>3, Absent DEF WriterFollows, TypedWork
    <2>8. WorkerFollows'
      BY <1>1, <2>1, <2>3 DEF WorkerFollows, TypedWork
    <2>9. "VERIFIED" \notin lifecycle
      BY <2>1 DEF VerifiedStays, VerifiedIsSettled, RowsFollow
    <2>10. VerifiedStays'
      BY <1>1, <2>9 DEF VerifiedStays
    <2>11. QED
      BY <2>2, <2>4, <2>5, <2>6, <2>7, <2>8, <2>10
  <1>4. QED
    BY <1>1, <1>2, <1>3

LEMMA RecoverRecordsStep ==
  ASSUME IInv, NEW a \in Actors, RecoverRecords(a)
  PROVE  IInv'
  <1> USE DEF IInv
  <1>1. /\ pc[a] = "recover" /\ sweep.step = "outcome" /\ SweepGoes("finish", sweep.flow)
        /\ outcomes' = [outcomes EXCEPT ![sweep.flow] = @ \cup {"UNKNOWN_CRASH"}]
        /\ UNCHANGED <<rows, inputs, committed, ledger, lifecycle, pc, loop, writer, worker,
                       current, session, windows, seen, deaths, faults>>
    BY DEF RecoverRecords, Recovers
  <1>2. /\ sweep.flow \in Flows /\ sweep.flow # NoFlow /\ rows[sweep.flow].status # "ABSENT"
        /\ "VERIFIED" \notin lifecycle
    BY <1>1, Recovering DEF LoopIsHeld, SweepFollows, VerifiedStays, Settling
  <1>3. /\ sweep' = [step |-> "finish", flow |-> sweep.flow, caller |-> sweep.caller]
        /\ TypedPlaces' /\ TypedWork' /\ LoopIsHeld' /\ DeadIsDead' /\ FailureIsNoted'
        /\ CleanSession'
    BY <1>1, <1>2, SweepMoves DEF Sweeping, Settling
  <1>4. /\ outcomes' \in [Flows -> SUBSET (Verdicts \cup {"UNKNOWN_CRASH"})]
        /\ outcomes'[sweep.flow] # {}
        /\ \A g \in Flows \ {sweep.flow} : outcomes'[g] = outcomes[g]
    BY <1>1, <1>2 DEF TypedDisk
  <1>5. TypedDisk'
    BY <1>1, <1>4 DEF TypedDisk
  <1>6. RowsFollow'
    BY <1>1, <1>2, <1>4 DEF RowsFollow, InputKeptUntilOutcome, TypedDisk
  <1>7. SweepFollows'
    BY <1>1, <1>2, <1>3, <1>4 DEF SweepFollows
  <1>8. WriterFollows'
    BY <1>1, Frame
  <1>9. WorkerFollows'
    BY <1>1, <1>4 DEF WorkerFollows, TypedWork
  <1>10. VerifiedStays'
    BY <1>1, <1>2 DEF VerifiedStays
  <1>11. QED
    BY <1>3, <1>5, <1>6, <1>7, <1>8, <1>9, <1>10

LEMMA RecoverFinishesStep ==
  ASSUME IInv, NEW a \in Actors, RecoverFinishes(a)
  PROVE  IInv'
  <1> USE DEF IInv
  <1>1. /\ pc[a] = "recover" /\ sweep.step = "finish" /\ SweepGoes("purge", sweep.flow)
        /\ rows' = [rows EXCEPT ![sweep.flow].status = "DONE"]
        /\ UNCHANGED <<inputs, committed, outcomes, ledger, lifecycle, pc, loop, writer, worker,
                       current, session, windows, seen, deaths, faults>>
    BY DEF RecoverFinishes, Recovers
  <1>2. /\ sweep.flow \in Flows /\ sweep.flow # NoFlow /\ rows[sweep.flow].status # "ABSENT"
        /\ outcomes[sweep.flow] # {} /\ "VERIFIED" \notin lifecycle
    BY <1>1, Recovering DEF LoopIsHeld, SweepFollows, VerifiedStays, Settling
  <1>3. /\ sweep' = [step |-> "purge", flow |-> sweep.flow, caller |-> sweep.caller]
        /\ TypedPlaces' /\ TypedWork' /\ LoopIsHeld' /\ DeadIsDead' /\ FailureIsNoted'
        /\ CleanSession'
    BY <1>1, <1>2, SweepMoves DEF Sweeping, Settling
  <1>4. /\ rows' \in [Flows -> Row]
        /\ rows'[sweep.flow].status = "DONE"
        /\ \A g \in Flows \ {sweep.flow} : rows'[g] = rows[g]
    BY <1>1, <1>2 DEF TypedDisk, Row
  <1>5. TypedDisk'
    BY <1>1, <1>4 DEF TypedDisk
  <1>6. RowsFollow'
    BY <1>1, <1>2, <1>4 DEF RowsFollow, InputKeptUntilOutcome, TypedDisk
  <1>7. SweepFollows'
    BY <1>1, <1>2, <1>3, <1>4 DEF SweepFollows
  <1>8. WriterFollows'
    BY <1>1, <1>2, <1>4, Absent DEF WriterFollows, TypedWork
  <1>9. WorkerFollows'
    BY <1>1, <1>4 DEF WorkerFollows, TypedWork
  <1>10. VerifiedStays'
    BY <1>1, <1>2 DEF VerifiedStays
  <1>11. QED
    BY <1>3, <1>5, <1>6, <1>7, <1>8, <1>9, <1>10

\* Metadata is deleted that is accounted for.
LEMMA RecoverPurgesStep ==
  ASSUME IInv, NEW a \in Actors, RecoverPurges(a)
  PROVE  IInv'
  <1> USE DEF IInv
  <1>1. /\ pc[a] = "recover"
        /\ \/ /\ sweep.step = "purge" /\ SweepGoes("claim", NoFlow)
              /\ inputs' = inputs \ {sweep.flow}
           \/ /\ sweep.step = "sweep" /\ SweepGoes("check", NoFlow)
              /\ inputs' = inputs \ Swept
        /\ UNCHANGED <<rows, committed, outcomes, ledger, lifecycle, pc, loop, writer, worker,
                       current, session, windows, seen, deaths, faults>>
    BY DEF RecoverPurges, Recovers
  <1>2. PICK next \in {"claim", "check"} : SweepGoes(next, NoFlow)
    BY <1>1
  <1>3. /\ sweep' = [step |-> next, flow |-> NoFlow, caller |-> sweep.caller]
        /\ TypedPlaces' /\ TypedWork' /\ LoopIsHeld' /\ DeadIsDead' /\ FailureIsNoted'
        /\ CleanSession'
    BY <1>1, <1>2, SweepMoves DEF Sweeping, Settling
  <1>4. inputs' \subseteq inputs
    BY <1>1
  <1>5. \A f \in inputs \ inputs' : rows[f].status = "DONE" /\ outcomes[f] # {}
    <2>1. sweep.step = "purge" => rows[sweep.flow].status = "DONE" /\ outcomes[sweep.flow] # {}
      BY DEF SweepFollows, Settling
    <2>2. QED
      BY <1>1, <2>1 DEF Swept, Purgeable
  <1>6. TypedDisk'
    BY <1>1, <1>4 DEF TypedDisk
  <1>7. RowsFollow'
    BY <1>1, <1>4, <1>5 DEF RowsFollow, InputKeptUntilOutcome
  <1>8. SweepFollows'
    BY <1>3 DEF SweepFollows, Settling
  <1>9. WriterFollows'
    <2>1. writer.step = "audit" => writer.flow \in inputs'
      BY <1>5 DEF WriterFollows
    <2>2. QED
      BY <1>1, <2>1 DEF WriterFollows
  <1>10. WorkerFollows'
    BY <1>1, Frame
  <1>11. VerifiedStays'
    BY <1>1, <1>3, <1>4 DEF VerifiedStays, VerifiedIsSettled, Settling
  <1>12. QED
    BY <1>3, <1>6, <1>7, <1>8, <1>9, <1>10, <1>11

\* The recovery ends: only one that found nothing left lets a session be restored.
LEMMA RecoveryEnds ==
  ASSUME IInv, NEW a \in Actors, pc[a] = "recover",
         RecoveryRaises(a) \/ (inputs = {} /\ RecoveryReturns(a)),
         UNCHANGED <<disk, writer, worker, current, seen, deaths>>, faults' \in 0 .. MaxFaults
  PROVE  IInv'
  <1> USE DEF IInv
  <1>1. /\ loop = a /\ sweep.caller \in {"finalize", "failure", "restore"}
        /\ session.error \/ pc["restorer"] # "off"
        /\ sweep.caller = "restore" <=> a = "restorer"
        /\ sweep.caller = "finalize" => a = "task"
        /\ a # "restorer" => /\ session.error /\ pc["restorer"] = "off"
                             /\ \A b \in Coroutines : pc[b] # "dead"
        /\ pc["restorer"] \in {"off", "recover"}
        /\ pc["consumer"] # "record" /\ \A b \in Actors \ {a} : pc[b] # "recover"
    BY Recovering
  <1>2. loop' = "free" /\ sweep' = NoSweep
    BY DEF RecoveryRaises, RecoveryReturns
  \* Whoever ran it goes on as its caller.
  <1>3. PICK next \in {"close", "done", "conclude", "update", "refused", "ledger"} :
          /\ Goes(a, next)
          /\ next \in {"close", "done", "conclude"} => a = "task" /\ "VERIFIED" \notin lifecycle
          /\ next = "update" => a # "restorer"
          /\ next \in {"refused", "ledger"} => a = "restorer"
          /\ next = "ledger" => inputs = {}
    <2>1. CASE sweep.caller = "finalize"
      <3>1. a = "task" /\ "VERIFIED" \notin lifecycle
        BY <1>1, <2>1 DEF VerifiedStays
      <3>2. \E next \in {"close", "done", "conclude"} : Goes(a, next)
        BY <2>1 DEF RecoveryRaises, RecoveryReturns, Fails
      <3>3. QED
        BY <3>1, <3>2
    <2>2. CASE sweep.caller = "failure"
      <3>1. Goes(a, "update") /\ a # "restorer"
        BY <1>1, <2>2 DEF RecoveryRaises, RecoveryReturns
      <3>2. QED
        BY <3>1
    <2>3. CASE sweep.caller = "restore"
      <3>1. (Goes(a, "refused") \/ (Goes(a, "ledger") /\ inputs = {})) /\ a = "restorer"
        BY <1>1, <2>3 DEF RecoveryRaises, RecoveryReturns
      <3>2. QED
        BY <3>1
    <2>4. QED
      BY <1>1, <2>1, <2>2, <2>3
  <1>4. /\ windows' \subseteq Flows
        /\ session' \in [aborted : BOOLEAN, error : BOOLEAN, done : BOOLEAN, blocked : BOOLEAN,
                         started : BOOLEAN]
        /\ session.error => session'.error
    <2>1. \/ UNCHANGED <<session, windows>>
          \/ session' = [session EXCEPT !.error = TRUE] /\ windows' = windows
          \/ session' = [session EXCEPT !.aborted = TRUE, !.error = TRUE, !.done = TRUE]
             /\ windows' = {}
      BY <1>1 DEF RecoveryRaises, RecoveryReturns, Fails
    <2>2. QED
      BY <2>1, SessionFields
  <1>5. /\ pc'[a] = next /\ \A b \in Actors \ {a} : pc'[b] = pc[b]
        /\ pc' = [b \in Actors |-> pc'[b]]
    BY <1>3, Moved
  <1>6. session'.error \/ pc'["restorer"] # "off"
    BY <1>1, <1>3, <1>4, <1>5, Names
  <1>7. TypedDisk' /\ RowsFollow'
    BY Frame DEF disk
  <1>8. TypedPlaces'
    BY <1>1, <1>2, <1>3, <1>5, Names DEF TypedPlaces, Handling
  <1>9. TypedWork'
    BY <1>4, SessionFields, TypedFrame
  <1>10. LoopIsHeld' /\ SweepFollows'
    BY <1>1, <1>2, <1>3, <1>5, Names, Absent DEF LoopIsHeld, SweepFollows, Settling
  <1>11. DeadIsDead'
    BY <1>1, <1>3, <1>5, Names DEF DeadIsDead, disk
  <1>12. FailureIsNoted' /\ CleanSession'
    BY <1>6, Frame
  <1>13. WriterFollows'
    BY <1>3, <1>5, Names DEF WriterFollows, disk
  <1>14. WorkerFollows'
    BY <1>1, <1>3, <1>5, Names DEF WorkerFollows, Handling, Asking, disk
  <1>15. VerifiedStays'
    <2>1. "VERIFIED" \in lifecycle =>
            /\ pc'["consumer"] = pc["consumer"]
            /\ pc'["task"] \in {"closing", "done", "dead"} \cup Handling
      BY <1>3, <1>5, Names DEF VerifiedStays, Handling
    <2>2. QED
      BY <1>2, <2>1, Absent DEF VerifiedStays, VerifiedIsSettled, Settling, disk
  <1>16. QED
    BY <1>7, <1>8, <1>9, <1>10, <1>11, <1>12, <1>13, <1>14, <1>15

LEMMA RecoverChecksStep ==
  ASSUME IInv, NEW a \in Actors, RecoverChecks(a)
  PROVE  IInv'
  <1>1. /\ pc[a] = "recover" /\ UNCHANGED <<disk, writer, worker, current, seen, deaths, faults>>
        /\ RecoveryRaises(a) \/ (inputs = {} /\ RecoveryReturns(a))
    BY DEF RecoverChecks, Recovers, Orphans
  <1>2. faults' \in 0 .. MaxFaults
    BY <1>1, SessionFields
  <1>3. QED
    BY <1>1, <1>2, RecoveryEnds

LEMMA RecoverFailsStep ==
  ASSUME IInv, NEW a \in Actors, RecoverFails(a)
  PROVE  IInv'
  <1>1. /\ pc[a] = "recover" /\ UNCHANGED <<disk, writer, worker, current, seen, deaths>>
        /\ RecoveryRaises(a) /\ Fault
    BY DEF RecoverFails
  <1>2. faults' \in 0 .. MaxFaults
    BY <1>1, SessionFields, Bounds DEF Fault
  <1>3. QED
    BY <1>1, <1>2, RecoveryEnds

\* A recovery, whoever runs it, keeps the invariant.
LEMMA RecoveryStep ==
  ASSUME IInv, NEW a \in Actors, Recovery(a)
  PROVE  IInv'
  BY RecoverRequeuesStep, RecoverClaimsStep, RecoverRecordsStep, RecoverFinishesStep,
     RecoverPurgesStep, RecoverChecksStep, RecoverFailsStep
     DEF Recovery

-----------------------------------------------------------------------------
(* The storage threads.                                                    *)

\* A storage thread goes on, whoever holds the loop.
LEMMA ThreadFrame ==
  ASSUME IInv, writer # NoThread \/ worker # NoWork, UNCHANGED <<pc, loop, sweep, session>>
  PROVE  /\ pc["restorer"] = "off" /\ TypedPlaces' /\ LoopIsHeld' /\ DeadIsDead'
         /\ writer # NoThread \/ writer' = writer => FailureIsNoted'
  <1> USE DEF IInv
  <1>1. pc["restorer"] = "off"
    BY DEF DeadIsDead
  <1>2. TypedPlaces' /\ LoopIsHeld' /\ DeadIsDead'
    BY <1>1 DEF TypedPlaces, LoopIsHeld, DeadIsDead
  <1>3. ASSUME writer # NoThread \/ writer' = writer
        PROVE  FailureIsNoted'
    BY <1>3, <1>1 DEF FailureIsNoted
  <1>4. QED
    BY <1>1, <1>2, <1>3

\* The thread of the capture task checks the capacity, or fails.
LEMMA WriterGoesStep ==
  ASSUME IInv, WriterChecks \/ WriterFails
  PROVE  IInv'
  <1> USE DEF IInv
  <1>1. /\ writer.step \in {"check", "input", "audit", "enqueue"}
        /\ UNCHANGED <<disk, pc, loop, sweep, worker, current, session, windows, seen, deaths>>
        /\ faults' \in 0 .. MaxFaults
    BY SessionFields, Bounds DEF WriterChecks, WriterFails, Fault
  <1>2. PICK next \in {"full", "input", "error"} :
          writer' = [writer EXCEPT !.step = next] /\ (next = "error" \/ writer.step = "check")
    BY DEF WriterChecks, WriterFails
  <1>3. /\ writer # NoThread /\ writer.flow \in Flows
        /\ writer' = [step |-> next, flow |-> writer.flow]
    BY <1>1, <1>2, Absent DEF TypedWork
  <1>4. writer' # NoThread /\ writer'.step = next /\ writer'.flow = writer.flow
    BY <1>3 DEF NoThread
  <1>5. TypedPlaces' /\ LoopIsHeld' /\ DeadIsDead' /\ FailureIsNoted' /\ pc["restorer"] = "off"
    BY <1>1, <1>3, <1>4, ThreadFrame
  <1>6. TypedDisk' /\ SweepFollows' /\ RowsFollow' /\ WorkerFollows'
    BY <1>1, Frame DEF disk
  <1>7. TypedWork'
    BY <1>1, <1>3 DEF TypedWork
  <1>8. WriterFollows'
    BY <1>1, <1>2, <1>3, <1>4 DEF WriterFollows, disk
  <1>9. CleanSession'
    <2>1. ASSUME NEW f \in Flows, CleanFlow(f)
          PROVE  CleanFlow(f)'
      BY <1>1, <1>4, <2>1 DEF CleanFlow, SettledFlow, disk
    <2>2. QED
      BY <1>1, <2>1 DEF CleanSession, Clean, SettledFlow, With, disk
  <1>10. VerifiedStays'
    BY <1>1, <1>3 DEF VerifiedStays, disk
  <1>11. QED
    BY <1>5, <1>6, <1>7, <1>8, <1>9, <1>10

\* The input file, the audit event, or the row of a flow that has none.
LEMMA WriterCommitsStep ==
  ASSUME IInv, WriterCommits
  PROVE  IInv'
  <1> USE DEF IInv
  <1>1. /\ writer.step \in {"input", "audit", "enqueue"}
        /\ \/ /\ writer.step = "input" /\ inputs' = inputs \cup {writer.flow}
              /\ writer' = [writer EXCEPT !.step = "audit"] /\ UNCHANGED <<committed, rows>>
           \/ /\ writer.step = "audit" /\ committed' = committed \cup {writer.flow}
              /\ writer' = [writer EXCEPT !.step = "done"] /\ UNCHANGED <<inputs, rows>>
           \/ /\ writer.step = "enqueue"
              /\ rows' = [rows EXCEPT ![writer.flow].status = "PENDING"]
              /\ writer' = [writer EXCEPT !.step = "done"] /\ UNCHANGED <<inputs, committed>>
        /\ UNCHANGED <<outcomes, ledger, lifecycle, pc, loop, sweep, worker, current, session,
                       windows, seen, deaths, faults>>
    BY DEF WriterCommits
  <1>2. PICK next \in {"audit", "done"} :
          /\ writer' = [writer EXCEPT !.step = next]
          /\ next = "audit" <=> writer.step = "input"
    BY <1>1
  <1>3. /\ writer # NoThread /\ writer.flow \in Flows
        /\ writer' = [step |-> next, flow |-> writer.flow]
    BY <1>1, <1>2, Absent DEF TypedWork
  <1>4. writer' # NoThread /\ writer'.step = next /\ writer'.flow = writer.flow
    BY <1>3 DEF NoThread
  <1>5. TypedPlaces' /\ LoopIsHeld' /\ DeadIsDead' /\ FailureIsNoted' /\ pc["restorer"] = "off"
    BY <1>1, <1>3, <1>4, ThreadFrame
  <1>6. /\ rows[writer.flow].status = "ABSENT" /\ rows[writer.flow].attempts = 0
        /\ outcomes[writer.flow] = {} /\ writer.flow <= seen
        /\ writer.step = "audit" => writer.flow \in inputs
        /\ writer.step = "enqueue" => writer.flow \in committed
    BY <1>1, <1>3 DEF WriterFollows, RowsFollow
  <1>7. /\ rows' \in [Flows -> Row] /\ \A g \in Flows \ {writer.flow} : rows'[g] = rows[g]
        /\ writer.step # "enqueue" => rows' = rows
        /\ writer.step = "enqueue" =>
             rows'[writer.flow].status = "PENDING" /\ rows'[writer.flow].attempts = 0
    <2>1. CASE writer.step = "enqueue"
      <3>1. rows' = [rows EXCEPT ![writer.flow].status = "PENDING"]
        BY <1>1, <2>1
      <3>2. rows \in [Flows -> Row]
        BY DEF TypedDisk
      <3>3. rows[writer.flow] = [status |-> "ABSENT", attempts |-> 0]
        BY <1>3, <1>6, <3>2 DEF Row
      <3>4. rows' = [rows EXCEPT ![writer.flow] = [status |-> "PENDING", attempts |-> 0]]
        <4>1. [rows[writer.flow] EXCEPT !.status = "PENDING"] = [status |-> "PENDING", attempts |-> 0]
          BY <3>3
        <4>2. QED
          BY <3>1, <4>1
      <3>5. [status |-> "PENDING", attempts |-> 0] \in Row
        BY Bounds DEF Row
      <3>6. QED
        BY <1>3, <2>1, <3>2, <3>4, <3>5
    <2>2. CASE writer.step # "enqueue"
      BY <1>1, <2>2 DEF TypedDisk
    <2>3. QED
      BY <2>1, <2>2
  <1>8. /\ inputs \subseteq inputs' /\ committed \subseteq committed'
        /\ inputs' \subseteq inputs \cup {writer.flow}
        /\ committed' \subseteq committed \cup {writer.flow}
        /\ writer.step = "input" => writer.flow \in inputs' /\ committed' = committed
        /\ writer.step = "audit" => writer.flow \in committed' /\ inputs' = inputs
        /\ writer.step = "enqueue" => committed' = committed /\ inputs' = inputs
    BY <1>1
  <1>9. TypedDisk'
    BY <1>1, <1>3, <1>7, <1>8 DEF TypedDisk
  <1>10. TypedWork'
    BY <1>1, <1>3 DEF TypedWork
  <1>11. RowsFollow'
    <2>1. ASSUME NEW f \in Flows
          PROVE  /\ rows'[f].status # "ABSENT" => f \in committed'
                 /\ rows'[f].status = "ABSENT" => rows'[f].attempts = 0 /\ outcomes'[f] = {}
                 /\ rows'[f].status = "PENDING" => rows'[f].attempts < RetryLimit
      <3>1. CASE f = writer.flow /\ writer.step = "enqueue"
        BY <1>6, <1>7, <1>8, <3>1, Bounds
      <3>2. CASE ~(f = writer.flow /\ writer.step = "enqueue")
        BY <1>1, <1>7, <1>8, <3>2 DEF RowsFollow
      <3>3. QED
        BY <3>1, <3>2
    <2>2. \A f \in committed' : f <= seen'
      BY <1>1, <1>6, <1>8 DEF RowsFollow
    <2>3. ASSUME NEW f \in committed' \ inputs'
          PROVE  rows'[f].status = "DONE" /\ outcomes'[f] # {}
      <3>1. f \in committed \ inputs
        BY <1>1, <1>6, <1>8, <2>3
      <3>2. rows[f].status = "DONE" /\ outcomes[f] # {} /\ f \in Flows
        BY <3>1 DEF RowsFollow, InputKeptUntilOutcome, TypedDisk
      <3>3. QED
        BY <1>1, <1>6, <1>7, <3>2
    <2>4. QED
      BY <2>1, <2>2, <2>3 DEF RowsFollow, InputKeptUntilOutcome
  <1>12. \A g \in Flows : rows[g].status # "ABSENT" => rows'[g] = rows[g]
    BY <1>6, <1>7
  <1>13. SweepFollows'
    <2>1. sweep.step \in Settling => sweep.flow \in Flows
      BY Absent DEF TypedPlaces, LoopIsHeld, Settling
    <2>2. QED
      BY <1>1, <1>12, <2>1 DEF SweepFollows
  <1>14. WriterFollows'
    <2>1. CASE writer.step = "input"
      BY <1>1, <1>2, <1>3, <1>4, <1>6, <1>7, <1>8, <2>1 DEF WriterFollows
    <2>2. CASE writer.step = "audit"
      BY <1>1, <1>2, <1>3, <1>4, <1>6, <1>7, <1>8, <2>2 DEF WriterFollows
    <2>3. CASE writer.step = "enqueue"
      BY <1>1, <1>2, <1>3, <1>4, <1>6, <1>7, <1>8, <2>3 DEF WriterFollows
    <2>4. QED
      BY <1>1, <2>1, <2>2, <2>3
  <1>15. WorkerFollows'
    BY <1>1, <1>6, <1>7 DEF WorkerFollows, TypedWork
  <1>16. CleanSession'
    <2> SUFFICES ASSUME Clean
                 PROVE  CleanSession'
      BY <1>1 DEF CleanSession, Clean
    <2>1. ASSUME NEW f \in Flows, SettledFlow(f)
          PROVE  SettledFlow(f)'
      BY <1>1, <1>6, <1>7, <1>8, <2>1 DEF SettledFlow
    <2>2. ASSUME NEW f \in Flows
          PROVE  CleanFlow(f)'
      <3>1. CleanFlow(f)
        BY DEF CleanSession
      <3>2. CASE f = writer.flow
        BY <1>1, <1>4, <1>6, <1>7, <3>2 DEF CleanFlow
      <3>3. CASE f # writer.flow
        <4>1. rows'[f] = rows[f] /\ (f \in committed' <=> f \in committed) /\ outcomes' = outcomes
          BY <1>1, <1>7, <1>8, <3>3
        <4>2. QED
          BY <1>1, <1>4, <2>1, <3>1, <3>3, <4>1 DEF CleanFlow
      <3>4. QED
        BY <3>2, <3>3
    <2>3. pc["consumer"] = "done" => session.done /\ With("PENDING") = {}
      BY DEF CleanSession
    <2>4. pc["consumer"] = "done" => writer.step # "enqueue"
      BY <1>3, <2>3 DEF FailureIsNoted, Clean, WriterFollows
    <2>5. (pc["consumer"] = "done" => session.done /\ With("PENDING") = {})'
      BY <1>1, <1>7, <2>3, <2>4 DEF With
    <2>6. /\ (pc["consumer"] \in Asking => rows[current.flow].status = "CLAIMED")'
          /\ (pc["consumer"] = "finish" => rows[current.flow].status \in {"CLAIMED", "DONE"})'
          /\ (pc["consumer"] = "claim" /\ worker.flow # NoFlow =>
                rows[worker.flow].status = "CLAIMED")'
      BY <1>1, <1>12 DEF CleanSession, WorkerFollows, TypedWork
    <2>7. (pc["consumer"] = "finish" /\ worker.outcome # "UNKNOWN" =>
             /\ worker.step = "outcome" => outcomes[worker.flow] = {}
             /\ worker.step \in {"finish", "purge", "done"} => outcomes[worker.flow] = {worker.outcome}
             /\ worker.step = "done" => SettledFlow(worker.flow))'
      <3>1. pc["consumer"] = "finish" => worker.flow \in Flows
        BY DEF WorkerFollows, TypedWork
      <3>2. PICK g \in Flows \cup {NoFlow} : g = worker.flow /\ worker' = worker
        BY <1>1 DEF TypedWork
      <3>3. SettledFlow(g) /\ g \in Flows => SettledFlow(g)'
        BY <2>1
      <3>4. QED
        BY <1>1, <3>1, <3>2, <3>3 DEF CleanSession, SettledFlow
    <2>8. QED
      BY <2>2, <2>5, <2>6, <2>7 DEF CleanSession
  <1>17. VerifiedStays'
    BY <1>1, <1>3 DEF VerifiedStays
  <1>18. QED
    BY <1>5, <1>9, <1>10, <1>11, <1>13, <1>14, <1>15, <1>16, <1>17

\* The consumer's thread works on a row that the session has.
LEMMA Working ==
  ASSUME IInv, worker.step # "none"
  PROVE  /\ worker # NoWork /\ pc["restorer"] = "off" /\ "VERIFIED" \notin lifecycle
         /\ worker.step \in {"claim", "done", "error"} \cup Settling
         /\ worker.flow \in Flows => rows[worker.flow].status # "ABSENT"
         /\ worker.step \in Settling =>
              worker.flow \in Flows /\ worker.outcome \in Verdicts
         /\ pc["consumer"] \in {"claim", "finish", "cancelled"}
  <1> USE DEF IInv
  <1>1. worker # NoWork
    BY Absent
  <1>2. pc["restorer"] = "off"
    BY <1>1 DEF DeadIsDead
  <1>3. "VERIFIED" \notin lifecycle
    BY <1>1 DEF VerifiedStays, WorkerFollows
  <1>4. pc["consumer"] \in {"claim", "finish", "cancelled"}
    BY <1>1 DEF TypedPlaces, WorkerFollows, Over
  <1>5. /\ worker.step \in {"claim", "done", "error"} \cup Settling
        /\ worker.flow \in Flows => rows[worker.flow].status # "ABSENT"
        /\ worker.step \in Settling => worker.flow \in Flows /\ worker.outcome \in Verdicts
    BY Bounds DEF TypedWork, WorkerFollows
  <1>6. QED
    BY <1>1, <1>2, <1>3, <1>4, <1>5

\* The thread ends with an error, whatever it was about to do.
LEMMA WorkerErrs ==
  ASSUME IInv, worker.step \in {"claim", "outcome", "finish", "purge"},
         worker' = [worker EXCEPT !.step = "error"],
         UNCHANGED <<disk, pc, loop, sweep, writer, current, session, windows, seen, deaths>>,
         faults' \in 0 .. MaxFaults
  PROVE  IInv'
  <1> USE DEF IInv
  <1>1. /\ worker.step \in {"claim", "outcome", "finish", "purge"}
        /\ worker' = [worker EXCEPT !.step = "error"]
        /\ UNCHANGED <<disk, pc, loop, sweep, writer, current, session, windows, seen, deaths>>
        /\ faults' \in 0 .. MaxFaults
    OBVIOUS
  <1>2. /\ worker' = [step |-> "error", flow |-> worker.flow, token |-> worker.token,
                      outcome |-> worker.outcome]
        /\ worker' \in [step : {"none", "claim", "done", "error"} \cup Settling,
                        flow : Flows \cup {NoFlow}, token : 0 .. RetryLimit,
                        outcome : Verdicts \cup {"none"}]
    BY <1>1 DEF TypedWork
  <1>3. /\ worker'.step = "error" /\ worker'.flow = worker.flow
        /\ worker'.outcome = worker.outcome
    BY <1>2
  <1>4. /\ worker # NoWork /\ pc["restorer"] = "off" /\ "VERIFIED" \notin lifecycle
        /\ pc["consumer"] \in {"claim", "finish", "cancelled"}
    BY <1>1, Working
  <1>5. TypedPlaces' /\ LoopIsHeld' /\ DeadIsDead' /\ FailureIsNoted'
    BY <1>1, <1>4, ThreadFrame
  <1>6. TypedDisk' /\ SweepFollows' /\ RowsFollow' /\ WriterFollows'
    BY <1>1, Frame DEF disk
  <1>7. TypedWork'
    BY <1>1, <1>2 DEF TypedWork
  <1>8. WorkerFollows'
    BY <1>1, <1>3, <1>4 DEF WorkerFollows, Asking, Handling, Settling, disk
  <1>9. CleanSession'
    <2>1. ASSUME NEW f \in Flows, CleanFlow(f)
          PROVE  CleanFlow(f)'
      BY <1>1, <1>3, <2>1 DEF CleanFlow, SettledFlow, disk
    <2>2. QED
      BY <1>1, <1>3, <1>4, <2>1 DEF CleanSession, Clean, Asking, disk
  <1>10. VerifiedStays'
    BY <1>1, <1>4 DEF VerifiedStays, disk
  <1>11. QED
    BY <1>5, <1>6, <1>7, <1>8, <1>9, <1>10

LEMMA WorkerClaimsStep ==
  ASSUME IInv, WorkerClaims
  PROVE  IInv'
  <1> USE DEF IInv
  <1>1. /\ worker.step = "claim"
        /\ \/ With("PENDING") = {} /\ worker' = [worker EXCEPT !.step = "done"] /\ rows' = rows
           \/ \E f \in Oldest :
                /\ rows' = [rows EXCEPT ![f] = Claim(f)]
                /\ worker' = [worker EXCEPT !.step = "done", !.flow = f,
                                            !.token = rows'[f].attempts]
        /\ UNCHANGED <<inputs, committed, outcomes, ledger, lifecycle, pc, loop, sweep, writer,
                       current, session, windows, seen, deaths, faults>>
    BY DEF WorkerClaims
  <1>2. /\ worker # NoWork /\ pc["restorer"] = "off" /\ "VERIFIED" \notin lifecycle
        /\ pc["consumer"] \in {"claim", "cancelled"} /\ worker.flow = NoFlow
        /\ pc["consumer"] = "claim" => worker.outcome = "none" /\ current = NoClaim
    BY <1>1, Working DEF WorkerFollows, Settling
  <1>3. TypedPlaces' /\ LoopIsHeld' /\ DeadIsDead' /\ FailureIsNoted'
    BY <1>1, <1>2, ThreadFrame
  <1>4. VerifiedStays'
    BY <1>1, <1>2 DEF VerifiedStays
  <1>5. CASE worker' = [worker EXCEPT !.step = "done"] /\ rows' = rows
    <2>1. /\ worker' = [step |-> "done", flow |-> worker.flow, token |-> worker.token,
                        outcome |-> worker.outcome]
          /\ worker' \in [step : {"none", "claim", "done", "error"} \cup Settling,
                          flow : Flows \cup {NoFlow}, token : 0 .. RetryLimit,
                          outcome : Verdicts \cup {"none"}]
      BY <1>5 DEF TypedWork
    <2>2. /\ worker'.step = "done" /\ worker'.flow = worker.flow
          /\ worker'.outcome = worker.outcome
      BY <2>1
    <2>3. TypedDisk' /\ SweepFollows' /\ RowsFollow' /\ WriterFollows'
      BY <1>1, <1>5, Frame
    <2>4. TypedWork'
      BY <1>1, <2>1 DEF TypedWork
    <2>5. WorkerFollows'
      BY <1>1, <1>2, <1>5, <2>2 DEF WorkerFollows, Asking, Handling, Settling
    <2>6. CleanSession'
      <3>1. ASSUME NEW f \in Flows, CleanFlow(f)
            PROVE  CleanFlow(f)'
        BY <1>1, <1>5, <2>2, <3>1 DEF CleanFlow, SettledFlow
      <3>2. QED
        BY <1>1, <1>2, <1>5, <2>2, <3>1 DEF CleanSession, Clean, Asking
    <2>7. QED
      BY <1>3, <1>4, <2>3, <2>4, <2>5, <2>6
  <1>6. ASSUME NEW f \in Oldest, rows' = [rows EXCEPT ![f] = Claim(f)],
               worker' = [worker EXCEPT !.step = "done", !.flow = f, !.token = rows'[f].attempts]
        PROVE  IInv'
    <2>1. /\ f \in Flows /\ rows[f].status = "PENDING" /\ f # NoFlow
          /\ rows'[f] \in Row /\ rows'[f].status = "CLAIMED"
          /\ \A g \in Flows \ {f} : rows'[g] = rows[g]
          /\ rows' \in [Flows -> Row]
          /\ \A g \in Flows : /\ rows'[g].status = "ABSENT" => g # f
                              /\ rows[g].status = "ABSENT" => rows'[g] = rows[g]
                              /\ rows[g].status = "DONE" => rows'[g] = rows[g]
                              /\ rows'[g].status = "PENDING" => rows'[g] = rows[g]
      BY <1>6, RowClaimed
    <2>2. /\ \A g \in Flows : rows[g].status # "ABSENT" => rows'[g].status # "ABSENT"
          /\ UNCHANGED <<inputs, committed, outcomes, ledger, lifecycle, pc, loop, sweep, writer,
                         current, session, windows, seen, deaths, faults>>
      BY <1>1, <2>1
    <2>3. /\ worker' = [step |-> "done", flow |-> f, token |-> rows'[f].attempts,
                        outcome |-> worker.outcome]
          /\ worker' \in [step : {"none", "claim", "done", "error"} \cup Settling,
                          flow : Flows \cup {NoFlow}, token : 0 .. RetryLimit,
                          outcome : Verdicts \cup {"none"}]
      BY <1>6, <2>1 DEF TypedWork, Row
    <2>4. worker'.step = "done" /\ worker'.flow = f /\ worker'.outcome = worker.outcome
      BY <2>3
    <2>5. TypedDisk'
      BY <2>1, <2>2 DEF TypedDisk
    <2>6. TypedWork'
      BY <2>2, <2>3 DEF TypedWork
    <2>7. RowsFollow'
      BY <2>1, <2>2 DEF RowsFollow, InputKeptUntilOutcome, TypedDisk
    <2>8. SweepFollows'
      BY <2>1, <2>2, Absent DEF SweepFollows, TypedPlaces, LoopIsHeld, Settling
    <2>9. WriterFollows'
      BY <2>1, <2>2, Absent DEF WriterFollows, TypedWork
    <2>10. WorkerFollows'
      BY <1>2, <2>1, <2>2, <2>4 DEF WorkerFollows, Asking, Handling, Settling, TypedWork
    <2>11. CleanSession'
      <3> SUFFICES ASSUME Clean
                   PROVE  CleanSession'
        BY <1>1 DEF CleanSession, Clean
      <3>1. pc["consumer"] = "claim" /\ current = NoClaim
        BY <1>2 DEF Clean
      <3>2. ASSUME NEW g \in Flows
            PROVE  CleanFlow(g)'
        <4>1. CleanFlow(g)
          BY DEF CleanSession
        <4>2. CASE g = f
          BY <2>1, <2>2, <2>4, <3>1, <4>1, <4>2 DEF CleanFlow
        <4>3. CASE g # f
          <5>1. rows'[g] = rows[g] /\ g # NoFlow /\ worker.flow = NoFlow /\ current.flow = NoFlow
            BY <1>2, <2>1, <3>1, <4>3, Bounds, Absent
          <5>2. rows[g].status # "CLAIMED"
            BY <3>1, <4>1, <5>1 DEF CleanFlow
          <5>3. QED
            BY <2>2, <3>1, <4>1, <5>1, <5>2 DEF CleanFlow, SettledFlow
        <4>4. QED
          BY <4>2, <4>3
      <3>3. QED
        BY <2>1, <2>2, <2>4, <3>1, <3>2 DEF CleanSession, Asking
    <2>12. QED
      BY <1>3, <1>4, <2>5, <2>6, <2>7, <2>8, <2>9, <2>10, <2>11
  <1>7. QED
    BY <1>1, <1>5, <1>6

LEMMA WorkerFailsStep ==
  ASSUME IInv, WorkerFails
  PROVE  IInv'
  <1>1. faults' \in 0 .. MaxFaults
    BY SessionFields, Bounds DEF WorkerFails, Fault
  <1>2. QED
    BY <1>1, WorkerErrs DEF WorkerFails

\* store.finish: the outcome is in the audit first.
LEMMA WorkerRecords ==
  ASSUME IInv, worker.step = "outcome",
         outcomes' = [outcomes EXCEPT ![worker.flow] = @ \cup {worker.outcome}],
         worker' = [worker EXCEPT !.step = "finish"],
         UNCHANGED <<rows, inputs, committed, ledger, lifecycle, pc, loop, sweep, writer, current,
                     session, windows, seen, deaths, faults>>
  PROVE  IInv'
  <1> USE DEF IInv
  <1>1. /\ worker # NoWork /\ pc["restorer"] = "off" /\ "VERIFIED" \notin lifecycle
        /\ pc["consumer"] \in {"finish", "cancelled"}
        /\ worker.flow \in Flows /\ worker.outcome \in Verdicts
        /\ rows[worker.flow].status # "ABSENT"
    BY Working DEF Settling, WorkerFollows
  <1>2. /\ worker' = [step |-> "finish", flow |-> worker.flow, token |-> worker.token,
                      outcome |-> worker.outcome]
        /\ worker' \in [step : {"none", "claim", "done", "error"} \cup Settling,
                        flow : Flows \cup {NoFlow}, token : 0 .. RetryLimit,
                        outcome : Verdicts \cup {"none"}]
    BY DEF TypedWork, Settling
  <1>3. /\ worker'.step = "finish" /\ worker'.flow = worker.flow
        /\ worker'.outcome = worker.outcome
    BY <1>2
  <1>4. /\ outcomes' \in [Flows -> SUBSET (Verdicts \cup {"UNKNOWN_CRASH"})]
        /\ outcomes'[worker.flow] = outcomes[worker.flow] \cup {worker.outcome}
        /\ outcomes'[worker.flow] # {}
        /\ \A g \in Flows \ {worker.flow} : outcomes'[g] = outcomes[g]
    BY <1>1 DEF TypedDisk
  <1>5. TypedPlaces' /\ LoopIsHeld' /\ DeadIsDead' /\ FailureIsNoted'
    BY <1>1, ThreadFrame
  <1>6. TypedDisk'
    BY <1>4 DEF TypedDisk
  <1>7. TypedWork'
    BY <1>2 DEF TypedWork
  <1>8. RowsFollow'
    BY <1>1, <1>4 DEF RowsFollow, InputKeptUntilOutcome, TypedDisk
  <1>9. SweepFollows'
    <2>1. sweep.step \in Settling => sweep.flow \in Flows
      BY Absent DEF TypedPlaces, LoopIsHeld, Settling
    <2>2. QED
      BY <1>4, <2>1 DEF SweepFollows
  <1>10. WriterFollows'
    BY Frame
  <1>11. WorkerFollows'
    BY <1>1, <1>3, <1>4 DEF WorkerFollows, Asking, Handling, Settling
  <1>12. CleanSession'
    <2> SUFFICES ASSUME Clean
                 PROVE  CleanSession'
      BY DEF CleanSession, Clean
    <2>1. pc["consumer"] = "finish" /\ worker.flow = current.flow
      BY <1>1 DEF Clean, WorkerFollows
    <2>2. rows[worker.flow].status \in {"CLAIMED", "DONE"}
      BY <2>1 DEF CleanSession
    <2>3. ASSUME NEW g \in Flows
          PROVE  CleanFlow(g)'
      <3>1. CleanFlow(g)
        BY DEF CleanSession
      <3>2. CASE g = worker.flow
        BY <1>3, <2>1, <2>2, <3>1, <3>2 DEF CleanFlow
      <3>3. CASE g # worker.flow
        BY <1>3, <1>4, <2>1, <3>1, <3>3 DEF CleanFlow, SettledFlow
      <3>4. QED
        BY <3>2, <3>3
    <2>4. worker.outcome # "UNKNOWN" => outcomes'[worker.flow] = {worker.outcome}
      BY <1>4, <2>1 DEF CleanSession
    <2>5. QED
      BY <1>3, <2>1, <2>3, <2>4 DEF CleanSession, Asking
  <1>13. VerifiedStays'
    BY <1>1 DEF VerifiedStays
  <1>14. QED
    BY <1>5, <1>6, <1>7, <1>8, <1>9, <1>10, <1>11, <1>12, <1>13

\* Then the row is done.
LEMMA WorkerSettles ==
  ASSUME IInv, worker.step = "finish",
         rows' = [rows EXCEPT ![worker.flow].status = "DONE"],
         worker' = [worker EXCEPT !.step = "purge"],
         UNCHANGED <<outcomes, inputs, committed, ledger, lifecycle, pc, loop, sweep, writer,
                     current, session, windows, seen, deaths, faults>>
  PROVE  IInv'
  <1> USE DEF IInv
  <1>1. /\ worker # NoWork /\ pc["restorer"] = "off" /\ "VERIFIED" \notin lifecycle
        /\ pc["consumer"] \in {"finish", "cancelled"}
        /\ worker.flow \in Flows /\ worker.outcome \in Verdicts
        /\ rows[worker.flow].status # "ABSENT" /\ outcomes[worker.flow] # {}
    BY Working DEF Settling, WorkerFollows
  <1>2. /\ worker' = [step |-> "purge", flow |-> worker.flow, token |-> worker.token,
                      outcome |-> worker.outcome]
        /\ worker' \in [step : {"none", "claim", "done", "error"} \cup Settling,
                        flow : Flows \cup {NoFlow}, token : 0 .. RetryLimit,
                        outcome : Verdicts \cup {"none"}]
    BY DEF TypedWork, Settling
  <1>3. /\ worker'.step = "purge" /\ worker'.flow = worker.flow
        /\ worker'.outcome = worker.outcome
    BY <1>2
  <1>4. /\ rows' \in [Flows -> Row] /\ rows'[worker.flow].status = "DONE"
        /\ \A g \in Flows \ {worker.flow} : rows'[g] = rows[g]
    BY <1>1 DEF TypedDisk, Row
  <1>5. TypedPlaces' /\ LoopIsHeld' /\ DeadIsDead' /\ FailureIsNoted'
    BY <1>1, ThreadFrame
  <1>6. TypedDisk'
    BY <1>4 DEF TypedDisk
  <1>7. TypedWork'
    BY <1>2 DEF TypedWork
  <1>8. RowsFollow'
    BY <1>1, <1>4 DEF RowsFollow, InputKeptUntilOutcome, TypedDisk
  <1>9. SweepFollows'
    <2>1. sweep.step \in Settling => sweep.flow \in Flows
      BY Absent DEF TypedPlaces, LoopIsHeld, Settling
    <2>2. QED
      BY <1>4, <2>1 DEF SweepFollows
  <1>10. WriterFollows'
    BY <1>1, <1>4, Absent DEF WriterFollows, TypedWork
  <1>11. WorkerFollows'
    BY <1>1, <1>3, <1>4 DEF WorkerFollows, Asking, Handling, Settling, TypedWork
  <1>12. CleanSession'
    <2> SUFFICES ASSUME Clean
                 PROVE  CleanSession'
      BY DEF CleanSession, Clean
    <2>1. pc["consumer"] = "finish" /\ worker.flow = current.flow
      BY <1>1 DEF Clean, WorkerFollows
    <2>2. ASSUME NEW g \in Flows
          PROVE  CleanFlow(g)'
      <3>1. CleanFlow(g)
        BY DEF CleanSession
      <3>2. CASE g = worker.flow
        BY <1>3, <1>4, <2>1, <3>2 DEF CleanFlow
      <3>3. CASE g # worker.flow
        BY <1>3, <1>4, <2>1, <3>1, <3>3 DEF CleanFlow, SettledFlow
      <3>4. QED
        BY <3>2, <3>3
    <2>3. worker.outcome # "UNKNOWN" => outcomes'[worker.flow] = {worker.outcome}
      BY <2>1 DEF CleanSession
    <2>4. QED
      BY <1>3, <1>4, <2>1, <2>2, <2>3 DEF CleanSession, Asking
  <1>13. VerifiedStays'
    BY <1>1 DEF VerifiedStays
  <1>14. QED
    BY <1>5, <1>6, <1>7, <1>8, <1>9, <1>10, <1>11, <1>12, <1>13

\* And the metadata is deleted last.
LEMMA WorkerPurges ==
  ASSUME IInv, worker.step = "purge", inputs' = inputs \ {worker.flow},
         worker' = [worker EXCEPT !.step = "done"],
         UNCHANGED <<outcomes, rows, committed, ledger, lifecycle, pc, loop, sweep, writer,
                     current, session, windows, seen, deaths, faults>>
  PROVE  IInv'
  <1> USE DEF IInv
  <1>1. /\ worker # NoWork /\ pc["restorer"] = "off" /\ "VERIFIED" \notin lifecycle
        /\ pc["consumer"] \in {"finish", "cancelled"}
        /\ worker.flow \in Flows /\ worker.outcome \in Verdicts
        /\ rows[worker.flow].status = "DONE" /\ outcomes[worker.flow] # {}
    BY Working DEF Settling, WorkerFollows
  <1>2. /\ worker' = [step |-> "done", flow |-> worker.flow, token |-> worker.token,
                      outcome |-> worker.outcome]
        /\ worker' \in [step : {"none", "claim", "done", "error"} \cup Settling,
                        flow : Flows \cup {NoFlow}, token : 0 .. RetryLimit,
                        outcome : Verdicts \cup {"none"}]
    BY DEF TypedWork, Settling
  <1>3. /\ worker'.step = "done" /\ worker'.flow = worker.flow
        /\ worker'.outcome = worker.outcome
    BY <1>2
  <1>4. TypedPlaces' /\ LoopIsHeld' /\ DeadIsDead' /\ FailureIsNoted'
    BY <1>1, ThreadFrame
  <1>5. TypedDisk'
    BY DEF TypedDisk
  <1>6. TypedWork'
    BY <1>2 DEF TypedWork
  <1>7. RowsFollow'
    BY <1>1 DEF RowsFollow, InputKeptUntilOutcome
  <1>8. SweepFollows'
    BY Frame
  <1>9. WriterFollows'
    <2>1. writer.step = "audit" => writer.flow # worker.flow
      BY <1>1 DEF WriterFollows
    <2>2. QED
      BY <2>1 DEF WriterFollows
  <1>10. WorkerFollows'
    BY <1>1, <1>3 DEF WorkerFollows, Asking, Handling, Settling
  <1>11. CleanSession'
    <2> SUFFICES ASSUME Clean
                 PROVE  CleanSession'
      BY DEF CleanSession, Clean
    <2>1. pc["consumer"] = "finish" /\ worker.flow = current.flow
      BY <1>1 DEF Clean, WorkerFollows
    <2>2. ASSUME NEW g \in Flows, CleanFlow(g)
          PROVE  CleanFlow(g)'
      BY <1>3, <2>1, <2>2 DEF CleanFlow, SettledFlow
    <2>3. ASSUME worker.outcome # "UNKNOWN"
          PROVE  outcomes[worker.flow] = {worker.outcome} /\ SettledFlow(worker.flow)'
      <3>1. outcomes[worker.flow] = {worker.outcome}
        BY <2>1, <2>3 DEF CleanSession
      <3>2. worker.outcome = "COMPLETE" => \A p \in Profiles : ledger[worker.flow][p] = "complete"
        BY <2>1 DEF WorkerFollows
      <3>3. worker.outcome \in {"COMPLETE", "QUARANTINED"}
        BY <1>1, <2>3 DEF Verdicts
      <3>4. QED
        BY <1>1, <1>3, <3>1, <3>2, <3>3 DEF SettledFlow
    <2>4. QED
      BY <1>3, <2>1, <2>2, <2>3 DEF CleanSession, Asking
  <1>12. VerifiedStays'
    BY <1>1 DEF VerifiedStays
  <1>13. QED
    BY <1>4, <1>5, <1>6, <1>7, <1>8, <1>9, <1>10, <1>11, <1>12

LEMMA WorkerFinishesStep ==
  ASSUME IInv, WorkerFinishes
  PROVE  IInv'
  <1>1. CASE worker.step = "outcome"
    BY <1>1, WorkerRecords DEF WorkerFinishes
  <1>2. CASE worker.step = "finish"
    <2>1. UNCHANGED <<outcomes, inputs, committed, ledger, lifecycle, pc, loop, sweep, writer,
                      current, session, windows, seen, deaths, faults>>
      BY <1>2 DEF WorkerFinishes
    <2>2. CASE /\ rows' = [rows EXCEPT ![worker.flow].status = "DONE"]
               /\ worker' = [worker EXCEPT !.step = "purge"]
      BY <1>2, <2>1, <2>2, WorkerSettles
    <2>3. CASE rows' = rows /\ worker' = [worker EXCEPT !.step = "error"]
      <3>1. faults' \in 0 .. MaxFaults
        BY <2>1, SessionFields
      <3>2. QED
        BY <1>2, <2>1, <2>3, <3>1, WorkerErrs DEF disk
    <2>4. QED
      BY <1>2, <2>2, <2>3 DEF WorkerFinishes
  <1>3. CASE worker.step = "purge"
    BY <1>3, WorkerPurges DEF WorkerFinishes
  <1>4. QED
    BY <1>1, <1>2, <1>3 DEF WorkerFinishes

-----------------------------------------------------------------------------
(* The steps of the capture task that may be those of a clean session.     *)

\* Flows are where they were if rows, metadata, outcomes and the consumer stay.
LEMMA CleanFrame ==
  ASSUME IInv, UNCHANGED <<rows, inputs, committed, outcomes, ledger, worker, current>>,
         pc'["consumer"] = pc["consumer"], pc["restorer"] = "off",
         session'.error = session.error,
         session.done => session'.done,
         \A f \in committed : rows[f].status = "ABSENT" /\ ~session.error =>
           writer.step = "none" \/ writer.flow # f \/ (writer'.step # "none" /\ writer'.flow = f)
  PROVE  CleanSession'
  <1> USE DEF IInv
  <1> SUFFICES ASSUME Clean
               PROVE  CleanSession'
    BY DEF CleanSession, Clean
  <1>1. ASSUME NEW f \in Flows
        PROVE  CleanFlow(f)'
    <2>1. CleanFlow(f)
      BY DEF CleanSession
    <2>2. QED
      BY <2>1 DEF CleanFlow, SettledFlow, Clean
  <1>2. (pc["consumer"] = "done" => session.done /\ With("PENDING") = {})'
    BY DEF CleanSession, Clean, With
  <1>3. QED
    BY <1>1, <1>2 DEF CleanSession, SettledFlow

LEMMA CompletesFlowStep ==
  ASSUME IInv, CompletesFlow
  PROVE  IInv'
  <1> USE DEF IInv
  <1>1. /\ pc["task"] = "collect" /\ Free /\ seen < NumFlows /\ seen' = seen + 1
        /\ \/ Goes("task", "exclude") /\ writer' = writer
           \/ Goes("task", "commit") /\ writer' = [step |-> "check", flow |-> seen']
        /\ UNCHANGED <<disk, loop, sweep, worker, current, session, windows, deaths, faults>>
    BY DEF CompletesFlow, At
  <1>2. /\ pc'["task"] \in {"exclude", "commit"} /\ \A b \in Actors \ {"task"} : pc'[b] = pc[b]
        /\ pc' = [b \in Actors |-> pc'[b]]
        /\ \/ pc'["task"] = "exclude" /\ writer' = writer
           \/ pc'["task"] = "commit" /\ writer' = [step |-> "check", flow |-> seen']
    BY <1>1, Moved, Names
  <1>3. writer = NoThread
    BY <1>1 DEF WriterFollows
  <1>4. /\ pc["restorer"] = "off" /\ pc'["restorer"] = "off" /\ pc'["consumer"] # "record"
        /\ \A b \in Coroutines : pc'[b] \notin {"dead", "recover"}
    BY <1>1, <1>2, Living, LoopIsFree, Names
  <1>5. /\ seen' \in Flows /\ seen' \in 0 .. NumFlows /\ seen' > seen /\ seen' \notin committed
        /\ rows[seen'].status = "ABSENT"
    <2>1. seen \in Nat /\ seen' \in Nat /\ seen' = seen + 1 /\ seen' <= NumFlows /\ NumFlows \in Nat
      BY <1>1, Bounds DEF TypedWork
    <2>2. seen' \notin committed
      BY <2>1 DEF RowsFollow
    <2>3. QED
      BY <2>1, <2>2 DEF RowsFollow, Flows
  <1>6. TypedDisk' /\ SweepFollows' /\ LoopIsHeld' /\ DeadIsDead'
    BY <1>1, <1>4, StepFrame
  <1>7. RowsFollow'
    BY <1>1, <1>5, Bounds DEF RowsFollow, InputKeptUntilOutcome, disk, TypedWork, TypedDisk
  <1>8. TypedPlaces'
    BY <1>1, <1>2, Names DEF TypedPlaces
  <1>9. TypedWork'
    BY <1>1, <1>2, <1>3, <1>5 DEF TypedWork
  <1>10. FailureIsNoted'
    BY <1>1, <1>2, <1>4, Names, LoopIsFree DEF FailureIsNoted, Handling
  <1>11. WriterFollows'
    BY <1>1, <1>2, <1>3, <1>5, Absent DEF WriterFollows, disk
  <1>12. WorkerFollows'
    BY <1>1, <1>2, Names, Frame DEF disk
  <1>13. CleanSession'
    BY <1>1, <1>2, <1>3, <1>4, Absent, Names, CleanFrame DEF disk
  <1>14. VerifiedStays'
    BY <1>1 DEF VerifiedStays, Handling, disk
  <1>15. QED
    BY <1>6, <1>7, <1>8, <1>9, <1>10, <1>11, <1>12, <1>13, <1>14

LEMMA CommittedStep ==
  ASSUME IInv, Committed
  PROVE  IInv'
  <1> USE DEF IInv
  <1>1. /\ pc["task"] = "commit" /\ Free /\ writer.step = "done" /\ Goes("task", "enqueue")
        /\ windows' = windows \cup {writer.flow} /\ writer' = [writer EXCEPT !.step = "enqueue"]
        /\ UNCHANGED <<disk, loop, sweep, worker, current, session, seen, deaths, faults>>
    BY DEF Committed, At
  <1>2. /\ pc'["task"] = "enqueue" /\ \A b \in Actors \ {"task"} : pc'[b] = pc[b]
        /\ pc' = [b \in Actors |-> pc'[b]]
    BY <1>1, Moved, Names
  <1>3. /\ writer.flow \in Flows /\ writer' = [step |-> "enqueue", flow |-> writer.flow]
    BY <1>1, Absent DEF TypedWork
  <1>4. writer'.step = "enqueue" /\ writer'.flow = writer.flow
    BY <1>3
  <1>5. /\ pc["restorer"] = "off" /\ pc'["restorer"] = "off" /\ pc'["consumer"] # "record"
        /\ \A b \in Coroutines : pc'[b] \notin {"dead", "recover"}
    BY <1>1, <1>2, Living, LoopIsFree, Names
  <1>6. TypedDisk' /\ SweepFollows' /\ LoopIsHeld' /\ DeadIsDead' /\ RowsFollow'
    BY <1>1, <1>5, StepFrame
  <1>7. TypedPlaces'
    BY <1>1, <1>2, Names DEF TypedPlaces
  <1>8. TypedWork'
    <2>1. windows' \subseteq Flows
      BY <1>1, <1>3, SessionFields
    <2>2. writer' \in [step : {"check", "input", "audit", "enqueue", "full", "done", "error"},
                       flow : Flows]
      BY <1>3
    <2>3. UNCHANGED <<worker, current, session, seen, deaths, faults>>
      BY <1>1
    <2>4. QED
      BY <2>1, <2>2, <2>3 DEF TypedWork
  <1>9. FailureIsNoted'
    BY <1>1, <1>2, <1>5, Names, LoopIsFree DEF FailureIsNoted, Handling
  <1>10. WriterFollows'
    BY <1>1, <1>2, <1>4 DEF WriterFollows, disk
  <1>11. WorkerFollows'
    BY <1>1, <1>2, Names, Frame DEF disk
  <1>12. CleanSession'
    BY <1>1, <1>2, <1>4, <1>5, Names, CleanFrame DEF disk
  <1>13. VerifiedStays'
    BY <1>1 DEF VerifiedStays, Handling, disk
  <1>14. QED
    BY <1>6, <1>7, <1>8, <1>9, <1>10, <1>11, <1>12, <1>13

LEMMA HandedOffStep ==
  ASSUME IInv, HandedOff
  PROVE  IInv'
  <1> USE DEF IInv
  <1>1. /\ Free /\ writer' = NoThread
        /\ \/ pc["task"] = "commit" /\ writer.step = "full" /\ Goes("task", "exclude")
           \/ pc["task"] = "enqueue" /\ writer.step = "done" /\ Goes("task", "collect")
           \/ pc["task"] = "exclude" /\ Goes("task", "collect")
        /\ UNCHANGED <<disk, loop, sweep, worker, current, session, windows, seen, deaths, faults>>
    BY DEF HandedOff, At
  <1>2. /\ pc["task"] \in {"commit", "enqueue", "exclude"}
        /\ pc'["task"] \in {"exclude", "collect"} /\ \A b \in Actors \ {"task"} : pc'[b] = pc[b]
        /\ pc' = [b \in Actors |-> pc'[b]]
    BY <1>1, Moved, Names
  <1>3. writer # NoThread => writer.flow \notin committed \/ rows[writer.flow].status # "ABSENT"
    BY <1>1 DEF WriterFollows
  <1>4. /\ pc["restorer"] = "off" /\ pc'["restorer"] = "off" /\ pc'["consumer"] # "record"
        /\ \A b \in Coroutines : pc'[b] \notin {"dead", "recover"}
    BY <1>2, <1>1, Living, LoopIsFree, Names
  <1>5. TypedDisk' /\ SweepFollows' /\ LoopIsHeld' /\ DeadIsDead' /\ RowsFollow'
    BY <1>1, <1>4, StepFrame
  <1>6. TypedPlaces'
    BY <1>1, <1>2, Names DEF TypedPlaces
  <1>7. TypedWork'
    BY <1>1 DEF TypedWork
  <1>8. FailureIsNoted'
    BY <1>1, <1>2, <1>4, Names, LoopIsFree DEF FailureIsNoted, Handling
  <1>9. WriterFollows'
    BY <1>1, <1>2, Absent DEF WriterFollows
  <1>10. WorkerFollows'
    BY <1>1, <1>2, Names, Frame DEF disk
  <1>11. CleanSession'
    BY <1>1, <1>2, <1>3, <1>4, Absent, Names, CleanFrame DEF disk
  <1>12. VerifiedStays'
    BY <1>1, <1>2 DEF VerifiedStays, Handling, disk
  <1>13. QED
    BY <1>5, <1>6, <1>7, <1>8, <1>9, <1>10, <1>11, <1>12

LEMMA CollectEndsStep ==
  ASSUME IInv, CollectEnds
  PROVE  IInv'
  <1> USE DEF IInv
  <1>1. /\ pc["task"] = "collect" /\ Free
        /\ Goes("task", IF session.aborted THEN "done" ELSE "drain")
        /\ session' = [session EXCEPT !.done = TRUE]
        /\ UNCHANGED <<disk, loop, sweep, writer, worker, current, windows, seen, deaths, faults>>
    BY DEF CollectEnds, At
  <1>2. /\ pc'["task"] \in {"done", "drain"} /\ \A b \in Actors \ {"task"} : pc'[b] = pc[b]
        /\ pc' = [b \in Actors |-> pc'[b]]
    BY <1>1, Moved, Names
  <1>3. /\ session' \in [aborted : BOOLEAN, error : BOOLEAN, done : BOOLEAN, blocked : BOOLEAN,
                        started : BOOLEAN]
        /\ session'.done /\ session'.error = session.error /\ session'.aborted = session.aborted
    BY <1>1, SessionFields
  <1>4. /\ pc["restorer"] = "off" /\ pc'["restorer"] = "off" /\ pc'["consumer"] # "record"
        /\ \A b \in Coroutines : pc'[b] \notin {"dead", "recover"}
        /\ writer = NoThread
    BY <1>1, <1>2, Living, LoopIsFree, Names DEF WriterFollows
  <1>5. TypedDisk' /\ SweepFollows' /\ LoopIsHeld' /\ DeadIsDead' /\ RowsFollow'
    BY <1>1, <1>4, StepFrame
  <1>6. TypedPlaces'
    BY <1>1, <1>2, Names DEF TypedPlaces
  <1>7. TypedWork'
    BY <1>1, <1>3, SessionFields, TypedFrame
  <1>8. FailureIsNoted'
    BY <1>1, <1>2, <1>3, <1>4, Names, LoopIsFree DEF FailureIsNoted, Handling
  <1>9. WriterFollows'
    BY <1>1, <1>2, <1>4, Absent DEF WriterFollows
  <1>10. WorkerFollows'
    BY <1>1, <1>2, Names, Frame DEF disk
  <1>11. CleanSession'
    BY <1>1, <1>2, <1>3, <1>4, Absent, Names, CleanFrame DEF disk
  <1>12. VerifiedStays'
    BY <1>1 DEF VerifiedStays, Handling, disk
  <1>13. QED
    BY <1>5, <1>6, <1>7, <1>8, <1>9, <1>10, <1>11, <1>12

LEMMA DrainExpiresStep ==
  ASSUME IInv, DrainExpires
  PROVE  IInv'
  <1> USE DEF IInv
  <1>1. /\ pc["task"] = "drain" /\ Free /\ pc["consumer"] \notin Over
        /\ CancelsConsumer([pc EXCEPT !["task"] = "expired"])
        /\ UNCHANGED <<disk, loop, sweep, writer, worker, session, windows, seen, deaths, faults>>
    BY DEF DrainExpires, At, Ended
  <1>2. /\ pc'["task"] = "expired" /\ \A b \in Actors \ {"task", "consumer"} : pc'[b] = pc[b]
        /\ pc' = [b \in Actors |-> pc'[b]]
        /\ \/ pc'["consumer"] = "cancelled" /\ current' = NoClaim
           \/ pc["consumer"] = "investigate" /\ pc'["consumer"] = "abandoned" /\ current' = current
    BY <1>1, ConsumerCancelled
  <1>3. /\ pc["restorer"] = "off" /\ pc'["restorer"] = "off" /\ pc'["consumer"] # "record"
        /\ \A b \in Coroutines : pc'[b] \notin {"dead", "recover"}
        /\ sweep = NoSweep
    BY <1>1, <1>2, Living, LoopIsFree, Names
  <1>4. TypedDisk' /\ SweepFollows' /\ LoopIsHeld' /\ DeadIsDead' /\ RowsFollow'
    BY <1>1, <1>3, StepFrame
  <1>5. TypedPlaces'
    BY <1>1, <1>2, Names DEF TypedPlaces, Asking, Over
  <1>6. TypedWork'
    BY <1>1, <1>2, Absent DEF TypedWork
  <1>7. FailureIsNoted'
    BY <1>1, <1>2, <1>3, Names DEF FailureIsNoted, Handling
  <1>8. WriterFollows'
    BY <1>1, <1>2 DEF WriterFollows, disk
  <1>9. WorkerFollows'
    BY <1>1, <1>2, Absent DEF WorkerFollows, disk, Handling, Asking, Over
  <1>10. CleanSession'
    <2> SUFFICES ASSUME Clean'
                 PROVE  CleanSession'
      BY DEF CleanSession
    <2>1. /\ pc["consumer"] = "investigate" /\ pc'["consumer"] = "abandoned" /\ current' = current
          /\ Clean
      BY <1>1, <1>2, <1>3 DEF Clean
    <2>2. ASSUME NEW f \in Flows, CleanFlow(f)
          PROVE  CleanFlow(f)'
      BY <1>1, <2>1, <2>2 DEF CleanFlow, SettledFlow, disk
    <2>3. QED
      BY <1>1, <2>1, <2>2 DEF CleanSession, Asking, disk
  <1>11. VerifiedStays'
    BY <1>1 DEF VerifiedStays, Handling, disk
  <1>12. QED
    BY <1>4, <1>5, <1>6, <1>7, <1>8, <1>9, <1>10, <1>11

LEMMA DrainedStep ==
  ASSUME IInv, Drained
  PROVE  IInv'
  <1> USE DEF IInv
  <1>1. /\ Free /\ pc["task"] \in {"drain", "expired"}
        /\ \/ /\ pc["consumer"] = "done"
              /\ Goes("task", IF session.aborted THEN "done" ELSE "conclude")
           \/ pc["consumer"] = "cancelled" /\ pc["task"] = "drain" /\ Goes("task", "done")
        /\ UNCHANGED <<disk, loop, sweep, writer, worker, current, session, windows, seen, deaths,
                       faults>>
    BY DEF Drained
  <1>2. /\ pc'["task"] \in {"done", "conclude"} /\ \A b \in Actors \ {"task"} : pc'[b] = pc[b]
        /\ pc' = [b \in Actors |-> pc'[b]]
        /\ pc'["task"] = "conclude" => pc["consumer"] = "done"
        /\ pc["consumer"] = "cancelled" => session.error
    <2>1. pc["task"] # "dead"
      BY <1>1
    <2>2. pc["restorer"] = "off"
      BY <2>1, Living, Names
    <2>3. pc["consumer"] = "cancelled" => session.error
      BY <1>1, <2>2 DEF FailureIsNoted
    <2>4. QED
      BY <1>1, <2>3, Moved, Names
  <1>3. /\ pc["restorer"] = "off" /\ pc'["restorer"] = "off" /\ pc'["consumer"] # "record"
        /\ \A b \in Coroutines : pc'[b] \notin {"dead", "recover"}
        /\ writer = NoThread
    BY <1>1, <1>2, Living, LoopIsFree, Names DEF WriterFollows
  <1>4. TypedDisk' /\ SweepFollows' /\ LoopIsHeld' /\ DeadIsDead' /\ RowsFollow'
    BY <1>1, <1>3, StepFrame
  <1>5. TypedPlaces'
    BY <1>1, <1>2, Names DEF TypedPlaces
  <1>6. TypedWork'
    BY <1>1, SessionFields, TypedFrame
  <1>7. FailureIsNoted'
    BY <1>1, <1>2, <1>3, Names, LoopIsFree DEF FailureIsNoted, Handling
  <1>8. WriterFollows'
    BY <1>1, <1>2, <1>3, Absent DEF WriterFollows
  <1>9. WorkerFollows'
    BY <1>1, <1>2, Names, Frame DEF disk
  <1>10. CleanSession'
    BY <1>1, <1>2, <1>3, Absent, Names, CleanFrame DEF disk
  <1>11. VerifiedStays'
    BY <1>1 DEF VerifiedStays, Handling, disk
  <1>12. QED
    BY <1>4, <1>5, <1>6, <1>7, <1>8, <1>9, <1>10, <1>11

\* Only a clean session is concluded as verified, and then every flow is settled.
LEMMA ConcludesStep ==
  ASSUME IInv, Concludes
  PROVE  IInv'
  <1> USE DEF IInv
  <1>1. /\ pc["task"] = "conclude" /\ Free /\ Goes("task", "closing")
        /\ lifecycle' = lifecycle \cup {Finalization} /\ windows' = {}
        /\ session' = [session EXCEPT !.started = FALSE]
        /\ UNCHANGED <<rows, inputs, committed, outcomes, ledger, loop, sweep, writer, worker,
                       current, seen, deaths, faults>>
    BY DEF Concludes, At
  <1>2. /\ pc'["task"] = "closing" /\ \A b \in Actors \ {"task"} : pc'[b] = pc[b]
        /\ pc' = [b \in Actors |-> pc'[b]]
    BY <1>1, Moved, Names
  <1>3. /\ session' \in [aborted : BOOLEAN, error : BOOLEAN, done : BOOLEAN, blocked : BOOLEAN,
                        started : BOOLEAN]
        /\ session'.done = session.done /\ session'.error = session.error
        /\ session'.aborted = session.aborted
    BY <1>1, SessionFields
  <1>4. /\ pc["restorer"] = "off" /\ pc'["restorer"] = "off"
        /\ \A b \in Coroutines : pc'[b] \notin {"dead", "recover"}
        /\ pc["consumer"] # "record" /\ \A b \in Actors : pc'[b] # "recover"
        /\ writer = NoThread /\ sweep = NoSweep /\ "VERIFIED" \notin lifecycle
    BY <1>1, <1>2, Living, LoopIsFree, Names DEF WriterFollows, VerifiedStays, Handling
  <1>5. TypedDisk'
    BY <1>1 DEF TypedDisk, Finalization
  <1>6. SweepFollows' /\ RowsFollow'
    BY <1>1, Frame
  <1>7. LoopIsHeld' /\ DeadIsDead'
    BY <1>1, <1>2, <1>4, Names, Absent DEF LoopIsHeld, DeadIsDead, Free, Settling
  <1>8. TypedPlaces'
    BY <1>1, <1>2, Names DEF TypedPlaces
  <1>9. TypedWork'
    BY <1>1, <1>3, SessionFields, TypedFrame
  <1>10. FailureIsNoted'
    BY <1>1, <1>2, <1>3, <1>4, Names DEF FailureIsNoted, Handling
  <1>11. WriterFollows'
    BY <1>1, <1>2, <1>4, Absent DEF WriterFollows
  <1>12. WorkerFollows'
    BY <1>1, <1>2, Names, Frame
  <1>13. CleanSession'
    BY <1>1, <1>2, <1>3, <1>4, Absent, Names, CleanFrame
  <1>14. ASSUME ~session.error
         PROVE  /\ pc["consumer"] = "done"
                /\ \A f \in committed : SettledFlow(f)
    <2>1. pc["consumer"] = "done"
      BY <1>1, <1>4, <1>14 DEF FailureIsNoted
    <2>2. Clean /\ current = NoClaim
      BY <1>4, <1>14, <2>1 DEF Clean, WorkerFollows
    <2>3. ASSUME NEW f \in committed
          PROVE  SettledFlow(f)
      <3>1. f \in Flows /\ rows[f] \in Row
        BY DEF TypedDisk
      <3>2. CleanFlow(f) /\ rows[f].status # "PENDING"
        BY <2>1, <2>2, <3>1 DEF CleanSession, With
      <3>3. rows[f].status \notin {"ABSENT", "CLAIMED", "POISON"}
        BY <1>4, <2>1, <2>2, <3>1, <3>2, Absent, Bounds DEF CleanFlow
      <3>4. rows[f].status = "DONE"
        BY <3>1, <3>2, <3>3 DEF Row
      <3>5. QED
        BY <2>1, <3>2, <3>4 DEF CleanFlow
    <2>4. QED
      BY <2>1, <2>3
  <1>15. VerifiedStays'
    <2>1. CASE session.error
      BY <1>1, <1>4, <2>1 DEF VerifiedStays, Finalization
    <2>2. CASE ~session.error
      <3>1. pc["consumer"] = "done" /\ \A f \in committed : SettledFlow(f)
        BY <1>14, <2>2
      <3>2. VerifiedIsSettled'
        BY <1>1, <3>1 DEF VerifiedIsSettled, SettledFlow
      <3>3. QED
        BY <1>1, <1>2, <1>4, <3>1, <3>2, Names, Absent DEF VerifiedStays, Settling
    <2>3. QED
      BY <2>1, <2>2
  <1>16. QED
    BY <1>5, <1>6, <1>7, <1>8, <1>9, <1>10, <1>11, <1>12, <1>13, <1>15

\* The capture of a concluded session is closed.
LEMMA TaskEndsStep ==
  ASSUME IInv, TaskEnds
  PROVE  IInv'
  <1> USE DEF IInv
  <1>1. /\ pc["task"] = "closing" /\ Free /\ Goes("task", "done")
        /\ UNCHANGED <<disk, loop, sweep, writer, worker, current, session, windows, seen, deaths,
                       faults>>
    BY DEF TaskEnds, At
  <1>2. /\ pc'["task"] = "done" /\ \A b \in Actors \ {"task"} : pc'[b] = pc[b]
        /\ pc' = [b \in Actors |-> pc'[b]]
    BY <1>1, Moved, Names
  <1>3. /\ pc["restorer"] = "off" /\ pc'["restorer"] = "off" /\ pc'["consumer"] # "record"
        /\ \A b \in Coroutines : pc'[b] \notin {"dead", "recover"}
        /\ writer = NoThread
    BY <1>1, <1>2, Living, LoopIsFree, Names DEF WriterFollows
  <1>4. TypedDisk' /\ SweepFollows' /\ LoopIsHeld' /\ DeadIsDead' /\ RowsFollow'
    BY <1>1, <1>3, StepFrame
  <1>5. TypedPlaces'
    BY <1>1, <1>2, Names DEF TypedPlaces
  <1>6. TypedWork'
    BY <1>1, SessionFields, TypedFrame
  <1>7. FailureIsNoted'
    BY <1>1, <1>2, <1>3, Names, LoopIsFree DEF FailureIsNoted, Handling
  <1>8. WriterFollows'
    BY <1>1, <1>2, <1>3, Absent DEF WriterFollows
  <1>9. WorkerFollows'
    BY <1>1, <1>2, Names, Frame DEF disk
  <1>10. CleanSession'
    BY <1>1, <1>2, <1>3, Absent, Names, CleanFrame DEF disk
  <1>11. VerifiedStays'
    BY <1>1, <1>2, Names, VerifiedFrame
  <1>12. QED
    BY <1>4, <1>5, <1>6, <1>7, <1>8, <1>9, <1>10, <1>11

\* The capture task's steps keep the invariant.
LEMMA CaptureStep ==
  ASSUME IInv, Capture
  PROVE  IInv'
  BY CompletesFlowStep, CommittedStep, HandedOffStep, TaskFailsStep, CollectEndsStep,
     DrainExpiresStep, DrainedStep, DrainTimedOutStep, DrainRecoversStep, ConcludesStep,
     TaskEndsStep
     DEF Capture

-----------------------------------------------------------------------------
(* stop().                                                                 *)

\* stop() begins to drain, or returns when the task has ended.
LEMMA StopDrainsStep ==
  ASSUME IInv, Free, pc["stopper"] \in {"idle", "drain"}, NEW step \in {"drain", "done"},
         Goes("stopper", step),
         UNCHANGED <<disk, loop, sweep, writer, worker, current, session, windows, seen, deaths,
                     faults>>
  PROVE  IInv'
  <1> USE DEF IInv
  <1>1. /\ pc'["stopper"] = step /\ \A b \in Actors \ {"stopper"} : pc'[b] = pc[b]
        /\ pc' = [b \in Actors |-> pc'[b]]
    BY Moved, Names
  <1>2. /\ pc["restorer"] = "off" /\ pc'["restorer"] = "off" /\ pc'["consumer"] # "record"
        /\ \A b \in Coroutines : pc'[b] \notin {"dead", "recover"}
    BY <1>1, Living, LoopIsFree, Names
  <1>3. TypedDisk' /\ SweepFollows' /\ LoopIsHeld' /\ DeadIsDead' /\ RowsFollow'
    BY <1>2, StepFrame
  <1>4. TypedPlaces'
    BY <1>1, Names DEF TypedPlaces
  <1>5. TypedWork'
    BY SessionFields, TypedFrame
  <1>6. FailureIsNoted'
    BY <1>1, <1>2, Names, LoopIsFree DEF FailureIsNoted, Handling
  <1>7. WriterFollows' /\ WorkerFollows' /\ VerifiedStays'
    BY <1>1, Names, Frame DEF disk
  <1>8. CleanSession'
    BY <1>1, <1>2, Names, Frame DEF disk
  <1>9. QED
    BY <1>3, <1>4, <1>5, <1>6, <1>7, <1>8

\* Stopping, by draining or aborting, keeps the invariant.
LEMMA StopStep ==
  ASSUME IInv, Stop
  PROVE  IInv'
  <1>1. CASE StopBegins
    BY <1>1, StopDrainsStep, StopFailsStep DEF StopBegins, At
  <1>2. CASE StopReturns
    BY <1>2, StopDrainsStep DEF StopReturns, At
  <1>3. CASE StopExpires
    BY <1>3, StopFailsStep DEF StopExpires, At
  <1>4. QED
    BY <1>1, <1>2, <1>3, StopCancelsStep DEF Stop

-----------------------------------------------------------------------------
(* The consumer.                                                           *)

\* The consumer goes on: what it does not touch stays.
LEMMA ConsumerFrame ==
  ASSUME IInv, NEW step \in {"poll", "claim", "finish", "done"} \cup Asking,
         Goes("consumer", step), pc["consumer"] \in {"poll", "claim", "finish"} \cup Asking,
         sweep = NoSweep, \A b \in Actors : pc[b] # "recover",
         (loop' = "free" /\ step # "record") \/ (loop' = "consumer" /\ step \in {"load", "record"}),
         UNCHANGED <<rows, inputs, committed, outcomes, lifecycle, sweep, writer, seen>>
  PROVE  /\ pc'["consumer"] = step /\ \A b \in Actors \ {"consumer"} : pc'[b] = pc[b]
         /\ pc["restorer"] = "off" /\ pc'["restorer"] = "off" /\ "VERIFIED" \notin lifecycle
         /\ TypedPlaces' /\ RowsFollow' /\ SweepFollows' /\ WriterFollows' /\ DeadIsDead'
         /\ LoopIsHeld' /\ VerifiedStays'
         /\ session' = session => FailureIsNoted'
  <1> USE DEF IInv
  <1>1. /\ pc'["consumer"] = step /\ \A b \in Actors \ {"consumer"} : pc'[b] = pc[b]
        /\ pc' = [b \in Actors |-> pc'[b]]
    BY Moved, Names
  <1>2. pc["consumer"] \notin {"done", "dead", "cancelled"} /\ step # "dead" /\ step # "recover"
    BY DEF Asking
  <1>3. /\ pc["restorer"] = "off" /\ pc'["restorer"] = "off"
        /\ \A b \in Coroutines : pc'[b] # "dead"
    BY <1>1, <1>2, Living, Names
  <1>4. "VERIFIED" \notin lifecycle
    BY <1>2 DEF VerifiedStays
  <1>5. TypedPlaces'
    BY <1>1, Names DEF TypedPlaces, Asking, Over
  <1>6. RowsFollow' /\ SweepFollows'
    BY Frame
  <1>7. WriterFollows'
    BY <1>1, Names, Frame
  <1>8. DeadIsDead'
    BY <1>3 DEF DeadIsDead
  <1>9. LoopIsHeld'
    BY <1>1, <1>2, Names, Absent DEF LoopIsHeld, Settling
  <1>10. VerifiedStays'
    BY <1>4 DEF VerifiedStays
  <1>11. ASSUME session' = session
         PROVE  FailureIsNoted'
    BY <1>1, <1>2, <1>3, <1>11, Names DEF FailureIsNoted, Handling, Asking
  <1>12. QED
    BY <1>1, <1>3, <1>4, <1>5, <1>6, <1>7, <1>8, <1>9, <1>10, <1>11

\* The consumer settles a flow it has claimed, and every other is where it was.
LEMMA OutcomeBegins ==
  ASSUME IInv, NEW outcome \in Verdicts, Finishes(outcome),
         pc["consumer"] \in {"claim", "finish"} \cup Asking,
         sweep = NoSweep, \A b \in Actors : pc[b] # "recover", loop' = "free",
         UNCHANGED <<rows, inputs, committed, outcomes, lifecycle, sweep, writer, session, windows,
                     seen, deaths>>,
         faults' \in 0 .. MaxFaults, TypedDisk',
         current' \in [flow : Flows \cup {NoFlow}, token : 0 .. RetryLimit,
                       profile : 0 .. NumProfiles + 1, answer : {"none", "complete", "unknown"}],
         current'.flow \in Flows, rows[current'.flow].status # "ABSENT",
         outcome = "COMPLETE" => \A p \in Profiles : ledger'[current'.flow][p] = "complete",
         \A f \in Flows \ {current'.flow} : ledger'[f] = ledger[f],
         Clean => /\ rows[current'.flow].status \in {"CLAIMED", "DONE"}
                  /\ \A f \in Flows : rows[f].status = "CLAIMED" => f = current'.flow
                  /\ \A f \in Flows : rows[f].status = "DONE" => f = current'.flow \/ SettledFlow(f)
                  /\ outcome # "UNKNOWN" => outcomes[current'.flow] = {}
  PROVE  IInv'
  <1> USE DEF IInv
  <1>1. /\ worker' = [step |-> "outcome", flow |-> current'.flow, token |-> current'.token,
                      outcome |-> outcome]
        /\ Goes("consumer", "finish")
    BY DEF Finishes
  <1>2. /\ worker'.step = "outcome" /\ worker'.flow = current'.flow /\ worker'.outcome = outcome
        /\ worker'.flow # NoFlow /\ outcome # "none"
        /\ worker' \in [step : {"none", "claim", "done", "error"} \cup Settling,
                        flow : Flows \cup {NoFlow}, token : 0 .. RetryLimit,
                        outcome : Verdicts \cup {"none"}]
    BY <1>1, Bounds DEF Settling, Verdicts
  <1>3. /\ pc'["consumer"] = "finish" /\ \A b \in Actors \ {"consumer"} : pc'[b] = pc[b]
        /\ pc["restorer"] = "off" /\ pc'["restorer"] = "off"
        /\ TypedPlaces' /\ RowsFollow' /\ SweepFollows' /\ WriterFollows' /\ DeadIsDead'
        /\ LoopIsHeld' /\ VerifiedStays' /\ FailureIsNoted'
    BY <1>1, ConsumerFrame
  <1>4. TypedWork'
    BY <1>2 DEF TypedWork
  <1>5. WorkerFollows'
    BY <1>2, <1>3 DEF WorkerFollows, Asking, Handling, Settling
  <1>6. CleanSession'
    <2> SUFFICES ASSUME Clean
                 PROVE  CleanSession'
      BY <1>3 DEF CleanSession, Clean, Asking
    <2>1. ASSUME NEW f \in Flows
          PROVE  CleanFlow(f)'
      <3>1. CleanFlow(f)
        BY DEF CleanSession
      <3>2. CASE f = current'.flow
        BY <1>3, <3>1, <3>2 DEF CleanFlow
      <3>3. CASE f # current'.flow
        BY <1>3, <3>1, <3>3 DEF CleanFlow, SettledFlow
      <3>4. QED
        BY <3>2, <3>3
    <2>2. QED
      BY <1>2, <1>3, <2>1 DEF CleanSession, Asking
  <1>7. QED
    BY <1>3, <1>4, <1>5, <1>6

\* The consumer asks a profile about the flow it has claimed.
LEMMA AskingGoesOn ==
  ASSUME IInv, NEW step \in Asking, Goes("consumer", step), pc["consumer"] \in {"claim"} \cup Asking,
         sweep = NoSweep, \A b \in Actors : pc[b] # "recover", worker' = NoWork,
         (loop' = "free" /\ step # "record") \/ (loop' = "consumer" /\ step \in {"load", "record"}),
         UNCHANGED <<rows, inputs, committed, outcomes, lifecycle, sweep, writer, session, windows,
                     seen, deaths>>,
         faults' \in 0 .. MaxFaults, TypedDisk',
         current' \in [flow : Flows \cup {NoFlow}, token : 0 .. RetryLimit,
                       profile : 0 .. NumProfiles + 1, answer : {"none", "complete", "unknown"}],
         current'.flow \in Flows, rows[current'.flow].status # "ABSENT",
         current'.profile \in Profiles,
         \A p \in Profiles : p < current'.profile => ledger'[current'.flow][p] = "complete",
         step = "record" => current'.answer # "none",
         \A f \in Flows \ {current'.flow} : ledger'[f] = ledger[f],
         Clean => /\ rows[current'.flow].status = "CLAIMED" /\ outcomes[current'.flow] = {}
                  /\ \A f \in Flows : rows[f].status = "CLAIMED" => f = current'.flow
                  /\ \A f \in Flows : rows[f].status = "DONE" => SettledFlow(f)
  PROVE  IInv'
  <1> USE DEF IInv
  <1>1. /\ pc'["consumer"] = step /\ \A b \in Actors \ {"consumer"} : pc'[b] = pc[b]
        /\ pc["restorer"] = "off" /\ pc'["restorer"] = "off"
        /\ TypedPlaces' /\ RowsFollow' /\ SweepFollows' /\ WriterFollows' /\ DeadIsDead'
        /\ LoopIsHeld' /\ VerifiedStays' /\ FailureIsNoted'
    BY ConsumerFrame
  <1>2. TypedWork'
    BY Absent DEF TypedWork
  <1>3. WorkerFollows'
    BY <1>1, Absent, Bounds DEF WorkerFollows, Asking, Handling, Settling
  <1>4. CleanSession'
    <2> SUFFICES ASSUME Clean
                 PROVE  CleanSession'
      BY <1>1 DEF CleanSession, Clean, Asking
    <2>1. ASSUME NEW f \in Flows
          PROVE  CleanFlow(f)'
      <3>1. CleanFlow(f)
        BY DEF CleanSession
      <3>2. CASE f = current'.flow
        BY <1>1, <3>1, <3>2 DEF CleanFlow, Asking
      <3>3. CASE f # current'.flow
        BY <1>1, <3>1, <3>3 DEF CleanFlow, SettledFlow
      <3>4. QED
        BY <3>2, <3>3
    <2>2. QED
      BY <1>1, <2>1 DEF CleanSession, Asking
  <1>5. QED
    BY <1>1, <1>2, <1>3, <1>4

\* The claimed flow while it is asked about.
LEMMA Asked ==
  ASSUME IInv, pc["consumer"] \in Asking
  PROVE  /\ current \in [flow : Flows \cup {NoFlow}, token : 0 .. RetryLimit,
                         profile : 0 .. NumProfiles + 1, answer : {"none", "complete", "unknown"}]
         /\ current.flow \in Flows /\ rows[current.flow].status # "ABSENT"
         /\ current.profile \in Profiles /\ worker = NoWork
         /\ \A p \in Profiles : p < current.profile => ledger[current.flow][p] = "complete"
         /\ pc["consumer"] = "record" => current.answer \in {"complete", "unknown"}
         /\ Clean => /\ rows[current.flow].status = "CLAIMED" /\ outcomes[current.flow] = {}
                     /\ \A f \in Flows : rows[f].status = "CLAIMED" => f = current.flow
                     /\ \A f \in Flows : rows[f].status = "DONE" => SettledFlow(f)
  <1> USE DEF IInv
  <1>1. /\ current \in [flow : Flows \cup {NoFlow}, token : 0 .. RetryLimit,
                        profile : 0 .. NumProfiles + 1, answer : {"none", "complete", "unknown"}]
        /\ current.flow \in Flows /\ rows[current.flow].status # "ABSENT"
        /\ current.profile \in Profiles /\ worker = NoWork
        /\ \A p \in Profiles : p < current.profile => ledger[current.flow][p] = "complete"
        /\ pc["consumer"] = "record" => current.answer \in {"complete", "unknown"}
    BY DEF WorkerFollows, TypedWork
  <1>2. pc["consumer"] \notin {"claim", "finish"}
    BY DEF Asking
  <1>3. ASSUME Clean
        PROVE  /\ rows[current.flow].status = "CLAIMED" /\ outcomes[current.flow] = {}
               /\ \A f \in Flows : rows[f].status = "CLAIMED" => f = current.flow
               /\ \A f \in Flows : rows[f].status = "DONE" => SettledFlow(f)
    BY <1>1, <1>2, <1>3 DEF CleanSession, CleanFlow
  <1>4. QED
    BY <1>1, <1>3

\* The ledger entry that a step writes.
LEMMA LedgerWritten ==
  ASSUME IInv, pc["consumer"] \in Asking,
         NEW entry \in {"attempted", "dispatched", "received", "complete", "unknown"},
         ledger' = [ledger EXCEPT ![current.flow][current.profile] = entry],
         UNCHANGED <<rows, inputs, committed, outcomes, lifecycle>>
  PROVE  /\ TypedDisk' /\ \A f \in Flows \ {current.flow} : ledger'[f] = ledger[f]
         /\ ledger'[current.flow][current.profile] = entry
         /\ \A p \in Profiles : p < current.profile => ledger'[current.flow][p] = "complete"
  <1> USE DEF IInv
  <1>1. /\ current.flow \in Flows /\ current.profile \in Profiles
        /\ \A p \in Profiles : p < current.profile => ledger[current.flow][p] = "complete"
    BY Asked
  <1>2. ledger \in [Flows -> [Profiles -> {"none", "attempted", "dispatched", "received",
                                           "complete", "unknown"}]]
    BY DEF TypedDisk
  <1>3. /\ ledger' \in [Flows -> [Profiles -> {"none", "attempted", "dispatched", "received",
                                               "complete", "unknown"}]]
        /\ ledger'[current.flow][current.profile] = entry
        /\ \A f \in Flows \ {current.flow} : ledger'[f] = ledger[f]
        /\ \A p \in Profiles \ {current.profile} : ledger'[current.flow][p] = ledger[current.flow][p]
    BY <1>1, <1>2
  <1>4. \A p \in Profiles : p < current.profile => ledger'[current.flow][p] = "complete"
    BY <1>1, <1>3, Bounds
  <1>5. QED
    BY <1>3, <1>4 DEF TypedDisk

LEMMA PollsStep ==
  ASSUME IInv, Polls
  PROVE  IInv'
  <1> USE DEF IInv
  <1>1. /\ pc["consumer"] = "poll" /\ Free
        /\ \/ worker' = [NoWork EXCEPT !.step = "claim"] /\ Goes("consumer", "claim")
           \/ /\ ~(MoreToDo /\ ~session.aborted)
              /\ Goes("consumer", "done") /\ worker' = worker
        /\ UNCHANGED <<disk, loop, sweep, writer, current, session, windows, seen, deaths, faults>>
    BY DEF Polls, At
  <1>2. /\ UNCHANGED <<rows, inputs, committed, outcomes, ledger, lifecycle>> /\ loop' = "free"
        /\ sweep = NoSweep /\ \A b \in Actors : pc[b] # "recover"
        /\ worker = NoWork /\ current = NoClaim
    BY <1>1, LoopIsFree DEF disk, Free, WorkerFollows
  <1>3. PICK step \in {"claim", "done"} :
          /\ Goes("consumer", step)
          /\ step = "claim" => worker' = [NoWork EXCEPT !.step = "claim"]
          /\ step = "done" => worker' = NoWork /\ ~(MoreToDo /\ ~session.aborted)
    BY <1>1, <1>2
  <1>4. /\ pc'["consumer"] = step /\ \A b \in Actors \ {"consumer"} : pc'[b] = pc[b]
        /\ pc["restorer"] = "off" /\ pc'["restorer"] = "off"
        /\ TypedPlaces' /\ RowsFollow' /\ SweepFollows' /\ WriterFollows' /\ DeadIsDead'
        /\ LoopIsHeld' /\ VerifiedStays' /\ FailureIsNoted'
    BY <1>1, <1>2, <1>3, ConsumerFrame
  <1>5. step = "claim" => /\ worker' = [step |-> "claim", flow |-> NoFlow, token |-> 0,
                                        outcome |-> "none"]
                          /\ worker'.step = "claim" /\ worker'.flow = NoFlow
                          /\ worker'.outcome = "none"
    BY <1>3 DEF NoWork
  <1>6. TypedDisk' /\ TypedWork'
    BY <1>1, <1>2, <1>3, <1>5, Absent, Bounds, Frame DEF TypedWork
  <1>7. WorkerFollows'
    BY <1>1, <1>2, <1>3, <1>4, <1>5, Absent DEF WorkerFollows, Asking, Handling, Settling
  <1>8. CleanSession'
    <2> SUFFICES ASSUME Clean
                 PROVE  CleanSession'
      BY <1>1, <1>4 DEF CleanSession, Clean
    <2>1. ASSUME NEW f \in Flows
          PROVE  CleanFlow(f)'
      <3>1. CleanFlow(f) /\ f # NoFlow
        BY Bounds DEF CleanSession
      <3>2. QED
        BY <1>1, <1>2, <1>4, <3>1, Absent DEF CleanFlow, SettledFlow
    <2>2. step = "done" => session.done /\ With("PENDING") = {}
      BY <1>3, <1>4 DEF MoreToDo, FailureIsNoted, Clean
    <2>3. (pc["consumer"] = "done" => session.done /\ With("PENDING") = {})'
      BY <1>1, <1>2, <1>4, <2>2 DEF With
    <2>4. QED
      BY <1>4, <1>5, <2>1, <2>3 DEF CleanSession, Asking
  <1>9. QED
    BY <1>4, <1>6, <1>7, <1>8

\* A claimed row's first profile is asked, unless the circuit is open; without one it polls.
LEMMA ClaimedStep ==
  ASSUME IInv, Claimed
  PROVE  IInv'
  <1> USE DEF IInv
  <1>1. /\ pc["consumer"] = "claim" /\ Free /\ worker.step = "done"
        /\ UNCHANGED <<rows, inputs, committed, outcomes, ledger, lifecycle, loop, sweep, writer,
                       session, windows, seen, deaths, faults>>
        /\ loop' = "free" /\ sweep = NoSweep /\ \A b \in Actors : pc[b] # "recover"
    BY LoopIsFree DEF Claimed, At, disk, Free
  <1>2. /\ worker.outcome = "none" /\ current = NoClaim
        /\ worker \in [step : {"none", "claim", "done", "error"} \cup Settling,
                       flow : Flows \cup {NoFlow}, token : 0 .. RetryLimit,
                       outcome : Verdicts \cup {"none"}]
        /\ TypedDisk' /\ faults' \in 0 .. MaxFaults
    BY <1>1, Frame, SessionFields DEF WorkerFollows, TypedWork
  <1>3. CASE worker.flow = NoFlow
    <2>1. Goes("consumer", "poll") /\ worker' = NoWork /\ current' = current
      BY <1>3 DEF Claimed
    <2>2. /\ pc'["consumer"] = "poll" /\ pc["restorer"] = "off" /\ pc'["restorer"] = "off"
          /\ TypedPlaces' /\ RowsFollow' /\ SweepFollows' /\ WriterFollows' /\ DeadIsDead'
          /\ LoopIsHeld' /\ VerifiedStays' /\ FailureIsNoted'
      BY <1>1, <2>1, ConsumerFrame, Names
    <2>3. TypedWork'
      BY <1>1, <2>1, Absent DEF TypedWork
    <2>4. WorkerFollows'
      BY <1>1, <1>2, <2>1, <2>2, Absent DEF WorkerFollows, Asking, Handling, Settling
    <2>5. CleanSession'
      <3>1. ASSUME NEW f \in Flows, CleanFlow(f)
            PROVE  CleanFlow(f)'
        BY <1>1, <1>2, <1>3, <2>1, <2>2, <3>1, Absent, Bounds DEF CleanFlow, SettledFlow
      <3>2. QED
        BY <1>1, <2>2, <3>1 DEF CleanSession, Clean, Asking
    <2>6. QED
      BY <1>2, <2>2, <2>3, <2>4, <2>5
  <1>4. CASE worker.flow # NoFlow
    <2>1. /\ current' = [flow |-> worker.flow, token |-> worker.token, profile |-> 1,
                         answer |-> "none"]
          /\ Asks(1)
      BY <1>4 DEF Claimed
    <2>2. /\ current' \in [flow : Flows \cup {NoFlow}, token : 0 .. RetryLimit,
                           profile : 0 .. NumProfiles + 1,
                           answer : {"none", "complete", "unknown"}]
          /\ current'.flow = worker.flow /\ worker.flow \in Flows
          /\ current'.profile = 1 /\ 1 \in Profiles /\ \A p \in Profiles : ~(p < 1)
          /\ rows[worker.flow].status # "ABSENT"
      <3>1. worker.flow \in Flows /\ worker.token \in 0 .. RetryLimit /\ 1 \in 0 .. NumProfiles + 1
        BY <1>2, <1>4, Bounds
      <3>2. QED
        BY <2>1, <3>1, <1>4, Bounds DEF WorkerFollows
    <2>3. ASSUME Clean
          PROVE  /\ rows[worker.flow].status = "CLAIMED" /\ outcomes[worker.flow] = {}
                 /\ \A f \in Flows : rows[f].status = "CLAIMED" => f = worker.flow
                 /\ \A f \in Flows : rows[f].status = "DONE" => SettledFlow(f)
      BY <1>1, <1>2, <1>4, <2>2, <2>3, Absent, Bounds DEF CleanSession, CleanFlow
    <2>4. CASE Goes("consumer", "load") /\ worker' = NoWork
      BY <1>1, <1>2, <2>2, <2>3, <2>4, AskingGoesOn DEF Asking
    <2>5. CASE Finishes("UNKNOWN")
      BY <1>1, <1>2, <2>2, <2>3, <2>5, OutcomeBegins DEF Verdicts
    <2>6. ~(1 > NumProfiles)
      BY Bounds
    <2>7. QED
      BY <2>1, <2>4, <2>5, <2>6 DEF Asks
  <1>5. QED
    BY <1>3, <1>4

\* The consumer settles the flow it asks about without having asked every profile.
LEMMA GivesUp ==
  ASSUME IInv, pc["consumer"] \in Asking, Free, NEW outcome \in {"UNKNOWN", "QUARANTINED"},
         Finishes(outcome), current' = current,
         UNCHANGED <<rows, inputs, committed, outcomes, ledger, lifecycle, loop, sweep, writer,
                     session, windows, seen, deaths>>,
         faults' \in 0 .. MaxFaults
  PROVE  IInv'
  <1>1. TypedDisk' /\ loop' = "free" /\ sweep = NoSweep /\ \A b \in Actors : pc[b] # "recover"
    BY Frame, LoopIsFree DEF Free
  <1>2. outcome \in Verdicts /\ outcome # "COMPLETE"
    BY DEF Verdicts
  <1>3. QED
    BY <1>1, <1>2, Asked, OutcomeBegins

LEMMA DispatchesStep ==
  ASSUME IInv, Dispatches
  PROVE  IInv'
  <1>1. /\ pc["consumer"] = "load" /\ Free
        /\ UNCHANGED <<rows, inputs, committed, outcomes, lifecycle, sweep, writer, session,
                       windows, seen, deaths>>
        /\ sweep = NoSweep /\ \A b \in Actors : pc[b] # "recover"
    BY LoopIsFree DEF Dispatches, At
  <1>2. pc["consumer"] \in Asking
    BY <1>1 DEF Asking
  <1>3. CASE /\ loop' = "consumer"
             /\ ledger' = [ledger EXCEPT ![current.flow][current.profile] = "attempted"]
             /\ UNCHANGED <<pc, worker, current, faults>>
    <2>1. Goes("consumer", "load")
      BY <1>1, <1>3, Names DEF Goes, IInv, TypedPlaces
    <2>2. faults' \in 0 .. MaxFaults
      BY <1>3, SessionFields
    <2>3. /\ TypedDisk' /\ \A f \in Flows \ {current.flow} : ledger'[f] = ledger[f]
          /\ \A p \in Profiles : p < current.profile => ledger'[current.flow][p] = "complete"
      BY <1>1, <1>2, <1>3, LedgerWritten
    <2>4. current' = current /\ worker' = worker /\ loop' = "consumer"
      BY <1>3
    <2>5. "load" \in Asking /\ "load" # "record"
      BY DEF Asking
    <2>6. QED
      BY <1>1, <1>2, <2>1, <2>2, <2>3, <2>4, <2>5, Asked, AskingGoesOn
  <1>4. CASE UNCHANGED <<ledger, loop, current, faults>> /\ Finishes("UNKNOWN")
    BY <1>1, <1>2, <1>4, SessionFields, GivesUp
  <1>5. CASE /\ Fault /\ UNCHANGED <<ledger, loop, current>>
             /\ \E outcome \in {"UNKNOWN", "QUARANTINED"} : Finishes(outcome)
    <2>1. faults' \in 0 .. MaxFaults
      BY <1>5, SessionFields, Bounds DEF Fault
    <2>2. QED
      BY <1>1, <1>2, <1>5, <2>1, GivesUp
  <1>6. QED
    BY <1>3, <1>4, <1>5 DEF Dispatches

\* The consumer holds the loop between the two writes of a ledger entry.
LEMMA ConsumerHolds ==
  ASSUME IInv, loop = "consumer", pc["consumer"] # "recover"
  PROVE  sweep = NoSweep /\ \A b \in Actors : pc[b] # "recover"
  BY Names DEF IInv, LoopIsHeld

LEMMA DispatchedStep ==
  ASSUME IInv, Dispatched
  PROVE  IInv'
  <1>1. /\ pc["consumer"] = "load" /\ loop = "consumer" /\ loop' = "free"
        /\ ledger' = [ledger EXCEPT ![current.flow][current.profile] = "dispatched"]
        /\ Goes("consumer", "infer")
        /\ UNCHANGED <<rows, inputs, committed, outcomes, lifecycle, sweep, writer, worker, current,
                       session, windows, seen, deaths, faults>>
    BY DEF Dispatched
  <1>2. /\ pc["consumer"] \in Asking /\ "infer" \in Asking /\ "infer" # "record"
        /\ sweep = NoSweep /\ \A b \in Actors : pc[b] # "recover"
        /\ faults' \in 0 .. MaxFaults
    BY <1>1, ConsumerHolds, SessionFields DEF Asking
  <1>3. /\ TypedDisk' /\ \A f \in Flows \ {current.flow} : ledger'[f] = ledger[f]
        /\ \A p \in Profiles : p < current.profile => ledger'[current.flow][p] = "complete"
    BY <1>1, <1>2, LedgerWritten
  <1>4. QED
    BY <1>1, <1>2, <1>3, Asked, AskingGoesOn

LEMMA InferredStep ==
  ASSUME IInv, Inferred
  PROVE  IInv'
  <1>1. /\ pc["consumer"] = "infer" /\ Free
        /\ UNCHANGED <<rows, inputs, committed, outcomes, ledger, lifecycle, loop, sweep, writer,
                       session, windows, seen, deaths>>
        /\ loop' = "free" /\ sweep = NoSweep /\ \A b \in Actors : pc[b] # "recover"
    BY LoopIsFree DEF Inferred, At, disk, Free
  <1>2. pc["consumer"] \in Asking /\ TypedDisk'
    BY <1>1, Frame DEF Asking
  <1>3. ASSUME NEW answer \in {"complete", "unknown"}, Answers(answer), faults' = faults
        PROVE  IInv'
    <2>1. /\ current' = [current EXCEPT !.answer = answer] /\ worker' = worker
          /\ Goes("consumer", IF answer = "complete" THEN "investigate" ELSE "abandoned")
      BY <1>3 DEF Answers
    <2>2. PICK step \in {"investigate", "abandoned"} : Goes("consumer", step)
      BY <2>1
    <2>3. /\ current' \in [flow : Flows \cup {NoFlow}, token : 0 .. RetryLimit,
                           profile : 0 .. NumProfiles + 1,
                           answer : {"none", "complete", "unknown"}]
          /\ current'.flow = current.flow /\ current'.profile = current.profile
      BY <1>2, <2>1, Asked
    <2>4. step \in Asking /\ step # "record" /\ faults' \in 0 .. MaxFaults
      BY <1>3, SessionFields DEF Asking
    <2>5. QED
      BY <1>1, <1>2, <2>1, <2>2, <2>3, <2>4, Asked, AskingGoesOn
  <1>4. CASE /\ Fault /\ UNCHANGED current
             /\ \E outcome \in {"UNKNOWN", "QUARANTINED"} : Finishes(outcome)
    <2>1. faults' \in 0 .. MaxFaults
      BY <1>4, SessionFields, Bounds DEF Fault
    <2>2. QED
      BY <1>1, <1>2, <1>4, <2>1, GivesUp
  <1>5. QED
    BY <1>3, <1>4 DEF Inferred

LEMMA ReceivesStep ==
  ASSUME IInv, Receives
  PROVE  IInv'
  <1>1. /\ pc["consumer"] \in {"investigate", "abandoned"} /\ Free
        /\ \E answer \in {"complete", "unknown"} : current' = [current EXCEPT !.answer = answer]
        /\ ledger' = [ledger EXCEPT ![current.flow][current.profile] = "received"]
        /\ loop' = "consumer" /\ Goes("consumer", "record")
        /\ UNCHANGED <<rows, inputs, committed, outcomes, lifecycle, sweep, writer, worker, session,
                       windows, seen, deaths, faults>>
    BY DEF Receives
  <1>2. /\ pc["consumer"] \in Asking /\ "record" \in Asking
        /\ sweep = NoSweep /\ \A b \in Actors : pc[b] # "recover"
        /\ faults' \in 0 .. MaxFaults
    BY <1>1, LoopIsFree, SessionFields DEF Asking
  <1>3. PICK answer \in {"complete", "unknown"} : current' = [current EXCEPT !.answer = answer]
    BY <1>1
  <1>4. /\ current' \in [flow : Flows \cup {NoFlow}, token : 0 .. RetryLimit,
                         profile : 0 .. NumProfiles + 1,
                         answer : {"none", "complete", "unknown"}]
        /\ current'.flow = current.flow /\ current'.profile = current.profile
        /\ current'.answer # "none"
    BY <1>2, <1>3, Asked
  <1>5. /\ TypedDisk' /\ \A f \in Flows \ {current.flow} : ledger'[f] = ledger[f]
        /\ \A p \in Profiles : p < current.profile => ledger'[current.flow][p] = "complete"
    BY <1>1, <1>2, LedgerWritten
  <1>6. QED
    BY <1>1, <1>2, <1>4, <1>5, Asked, AskingGoesOn

\* The last answer completes the flow; another one asks on; an unknown one ends it.
LEMMA RecordedStep ==
  ASSUME IInv, Recorded
  PROVE  IInv'
  <1>1. /\ pc["consumer"] = "record" /\ loop = "consumer" /\ loop' = "free"
        /\ ledger' = [ledger EXCEPT ![current.flow][current.profile] = current.answer]
        /\ current' = [current EXCEPT !.profile = @ + 1]
        /\ IF current.answer = "complete" THEN Asks(current.profile + 1) ELSE Finishes("UNKNOWN")
        /\ UNCHANGED <<rows, inputs, committed, outcomes, lifecycle, sweep, writer, session,
                       windows, seen, deaths, faults>>
    BY DEF Recorded
  <1>2. /\ pc["consumer"] \in Asking /\ "load" \in Asking /\ "load" # "record"
        /\ sweep = NoSweep /\ \A b \in Actors : pc[b] # "recover"
        /\ faults' \in 0 .. MaxFaults
    BY <1>1, ConsumerHolds, SessionFields DEF Asking
  <1>3. current.answer \in {"complete", "unknown"} /\ current.profile \in Profiles
    BY <1>1, <1>2, Asked
  <1>4. /\ current' \in [flow : Flows \cup {NoFlow}, token : 0 .. RetryLimit,
                         profile : 0 .. NumProfiles + 1,
                         answer : {"none", "complete", "unknown"}]
        /\ current'.flow = current.flow /\ current'.profile = current.profile + 1
    <2>1. current.profile + 1 \in 0 .. NumProfiles + 1
      BY <1>3, Bounds
    <2>2. QED
      BY <1>1, <1>2, <2>1, Asked
  <1>5. /\ TypedDisk' /\ \A f \in Flows \ {current.flow} : ledger'[f] = ledger[f]
        /\ ledger'[current.flow][current.profile] = current.answer
        /\ \A p \in Profiles : p < current.profile => ledger'[current.flow][p] = "complete"
    BY <1>1, <1>2, <1>3, LedgerWritten
  <1>6. current.answer = "complete" =>
          \A p \in Profiles : p < current.profile + 1 => ledger'[current.flow][p] = "complete"
    BY <1>3, <1>5, Bounds
  <1>7. CASE Finishes("UNKNOWN")
    BY <1>1, <1>2, <1>4, <1>5, <1>7, Asked, OutcomeBegins DEF Verdicts
  <1>8. CASE /\ current.answer = "complete" /\ current.profile + 1 > NumProfiles
             /\ Finishes("COMPLETE")
    <2>1. \A p \in Profiles : ledger'[current.flow][p] = "complete"
      BY <1>3, <1>6, <1>8, Bounds
    <2>2. QED
      BY <1>1, <1>2, <1>4, <1>5, <1>8, <2>1, Asked, OutcomeBegins DEF Verdicts
  <1>9. CASE /\ current.answer = "complete" /\ ~(current.profile + 1 > NumProfiles)
             /\ Goes("consumer", "load") /\ worker' = NoWork
    <2>1. current.profile + 1 \in Profiles
      BY <1>3, <1>9, Bounds DEF Profiles
    <2>2. QED
      BY <1>1, <1>2, <1>4, <1>5, <1>6, <1>9, <2>1, Asked, AskingGoesOn
  <1>10. QED
    BY <1>1, <1>7, <1>8, <1>9 DEF Asks

\* The outcome is durable and the metadata gone: the flow is settled, or the circuit opens.
LEMMA FinishedStep ==
  ASSUME IInv, Finished
  PROVE  IInv'
  <1> USE DEF IInv
  <1>1. /\ pc["consumer"] = "finish" /\ Free /\ worker.step = "done"
        /\ session' = IF worker.outcome = "UNKNOWN"
                      THEN [session EXCEPT !.blocked = TRUE, !.error = TRUE]
                      ELSE session
        /\ windows' = windows \ {current.flow} /\ current' = NoClaim /\ worker' = NoWork
        /\ Goes("consumer", "poll")
        /\ UNCHANGED <<rows, inputs, committed, outcomes, ledger, lifecycle, loop, sweep, writer,
                       seen, deaths, faults>>
        /\ loop' = "free" /\ sweep = NoSweep /\ \A b \in Actors : pc[b] # "recover"
    BY LoopIsFree DEF Finished, At, disk, Free
  <1>2. /\ pc'["consumer"] = "poll" /\ pc["restorer"] = "off" /\ pc'["restorer"] = "off"
        /\ TypedPlaces' /\ RowsFollow' /\ SweepFollows' /\ WriterFollows' /\ DeadIsDead'
        /\ LoopIsHeld' /\ VerifiedStays' /\ (session' = session => FailureIsNoted')
    BY <1>1, ConsumerFrame
  <1>3. /\ session' \in [aborted : BOOLEAN, error : BOOLEAN, done : BOOLEAN, blocked : BOOLEAN,
                        started : BOOLEAN]
        /\ session' = session \/ session'.error
        /\ worker.outcome = "UNKNOWN" => session'.error
    BY <1>1, SessionFields
  <1>4. TypedDisk'
    BY <1>1, Frame
  <1>5. TypedWork'
    BY <1>1, <1>3, Absent DEF TypedWork
  <1>6. FailureIsNoted'
    BY <1>2, <1>3, Frame
  <1>7. WorkerFollows'
    BY <1>1, <1>2, Absent DEF WorkerFollows, Asking, Handling, Settling
  <1>8. CleanSession'
    <2>1. CASE session'.error
      BY <2>1, Frame
    <2>2. CASE ~session'.error
      <3> SUFFICES ASSUME Clean'
                   PROVE  CleanSession'
        BY DEF CleanSession
      <3>1. Clean /\ worker.outcome # "UNKNOWN" /\ session' = session
        BY <1>1, <1>2, <1>3, <2>2 DEF Clean
      <3>2. SettledFlow(worker.flow) /\ worker.flow = current.flow
        BY <1>1, <3>1 DEF CleanSession, WorkerFollows
      <3>3. ASSUME NEW f \in Flows
            PROVE  CleanFlow(f)'
        <4>1. CleanFlow(f)
          BY <3>1 DEF CleanSession
        <4>2. CASE f = current.flow
          BY <1>1, <3>2, <4>2 DEF SettledFlow, CleanFlow
        <4>3. CASE f # current.flow
          BY <1>1, <4>1, <4>3 DEF SettledFlow, CleanFlow
        <4>4. QED
          BY <4>2, <4>3
      <3>4. QED
        BY <1>2, <3>3 DEF CleanSession, Asking
    <2>3. QED
      BY <2>1, <2>2
  <1>9. QED
    BY <1>2, <1>4, <1>5, <1>6, <1>7, <1>8

\* A completion that could not be stored is settled as unknown; another failure is fatal.
LEMMA FinishRaisesStep ==
  ASSUME IInv, FinishRaises
  PROVE  IInv'
  <1> USE DEF IInv
  <1>1. /\ Free /\ pc["consumer"] \in {"claim", "finish"} /\ worker.step = "error"
        /\ UNCHANGED <<disk, loop, sweep, writer, seen, deaths, faults>>
        /\ loop' = "free" /\ sweep = NoSweep /\ \A b \in Actors : pc[b] # "recover"
        /\ faults' \in 0 .. MaxFaults
    BY LoopIsFree, SessionFields DEF FinishRaises, Free
  <1>2. CASE worker.outcome = "COMPLETE"
    <2>1. UNCHANGED <<current, session, windows>> /\ Finishes("UNKNOWN") /\ pc["consumer"] = "finish"
      BY <1>1, <1>2 DEF FinishRaises, WorkerFollows
    <2>2. /\ current \in [flow : Flows \cup {NoFlow}, token : 0 .. RetryLimit,
                          profile : 0 .. NumProfiles + 1,
                          answer : {"none", "complete", "unknown"}]
          /\ current.flow \in Flows /\ rows[current.flow].status # "ABSENT"
      BY <2>1 DEF WorkerFollows, TypedWork
    <2>3. Clean => /\ rows[current.flow].status \in {"CLAIMED", "DONE"}
                   /\ \A f \in Flows : rows[f].status = "CLAIMED" => f = current.flow
                   /\ \A f \in Flows : rows[f].status = "DONE" =>
                        f = current.flow \/ SettledFlow(f)
      BY <2>1 DEF CleanSession, CleanFlow
    <2>4. TypedDisk' /\ UNCHANGED <<rows, inputs, committed, outcomes, ledger, lifecycle>>
      BY <1>1, Frame DEF disk
    <2>5. QED
      BY <1>1, <2>1, <2>2, <2>3, <2>4, OutcomeBegins DEF Verdicts
  <1>3. CASE worker.outcome # "COMPLETE"
    <2>1. current' = NoClaim /\ worker' = NoWork /\ Fails("consumer")
      BY <1>3 DEF FinishRaises
    <2>2. /\ pc'["consumer"] = "close" /\ \A b \in Actors \ {"consumer"} : pc'[b] = pc[b]
          /\ session' \in [aborted : BOOLEAN, error : BOOLEAN, done : BOOLEAN, blocked : BOOLEAN,
                          started : BOOLEAN]
          /\ windows' = {}
          /\ TypedDisk' /\ TypedPlaces' /\ SweepFollows' /\ LoopIsHeld' /\ DeadIsDead'
          /\ FailureIsNoted' /\ CleanSession' /\ RowsFollow'
      BY <1>1, <2>1, Failing, Names
    <2>3. TypedWork'
      BY <1>1, <2>1, <2>2, Absent DEF TypedWork
    <2>4. WriterFollows'
      BY <1>1, <2>2, Names, Frame DEF disk
    <2>5. WorkerFollows'
      BY <1>1, <2>1, <2>2, Absent DEF WorkerFollows, Asking, Handling, Settling
    <2>6. VerifiedStays'
      BY <1>1 DEF VerifiedStays, disk
    <2>7. QED
      BY <2>2, <2>3, <2>4, <2>5, <2>6
  <1>4. QED
    BY <1>2, <1>3

\* The consumer's steps keep the invariant.
LEMMA ConsumerStep ==
  ASSUME IInv, Consumer
  PROVE  IInv'
  BY PollsStep, ClaimedStep, DispatchesStep, DispatchedStep, InferredStep, ReceivesStep,
     RecordedStep, FinishedStep, FinishRaisesStep
     DEF Consumer

\* The storage threads' steps keep the invariant.
LEMMA ThreadsStep ==
  ASSUME IInv, Threads
  PROVE  IInv'
  BY WriterGoesStep, WriterCommitsStep, WorkerClaimsStep, WorkerFinishesStep, WorkerFailsStep
     DEF Threads

-----------------------------------------------------------------------------
(* Death and restoration.                                                  *)

\* The process dies: only the disk is left, and what was verified of it.
LEMMA DiesStep ==
  ASSUME IInv, Dies
  PROVE  IInv'
  <1> USE DEF IInv
  <1>1. /\ deaths < MaxDeaths /\ deaths' = deaths + 1
        /\ pc' = [a \in DOMAIN pc |-> IF a = "restorer" THEN "idle" ELSE "dead"]
        /\ loop' = "free" /\ sweep' = NoSweep
        /\ writer' = NoThread /\ worker' = NoWork /\ current' = NoClaim
        /\ session' = [Fresh EXCEPT !.started = FALSE, !.done = TRUE] /\ windows' = {}
        /\ UNCHANGED <<disk, seen, faults>>
    BY DEF Dies
  <1>2. /\ pc' = [a \in Actors |-> pc'[a]] /\ pc'["restorer"] = "idle"
        /\ \A a \in Coroutines : pc'[a] = "dead"
    <2>1. DOMAIN pc = Actors
      BY DEF TypedPlaces
    <2>2. QED
      BY <1>1, <2>1, Names
  <1>3. TypedDisk' /\ RowsFollow'
    BY <1>1, Frame DEF disk
  <1>4. TypedPlaces'
    BY <1>1, <1>2, Names DEF TypedPlaces, Over
  <1>5. TypedWork'
    <2>1. deaths' \in 0 .. MaxDeaths
      BY <1>1, Bounds DEF TypedWork
    <2>2. session' \in [aborted : BOOLEAN, error : BOOLEAN, done : BOOLEAN, blocked : BOOLEAN,
                        started : BOOLEAN]
      BY <1>1 DEF Fresh
    <2>3. QED
      BY <1>1, <2>1, <2>2, Absent DEF TypedWork
  <1>6. LoopIsHeld' /\ SweepFollows' /\ DeadIsDead'
    BY <1>1, <1>2, Names, Absent DEF LoopIsHeld, SweepFollows, DeadIsDead, Settling
  <1>7. FailureIsNoted' /\ CleanSession'
    BY <1>2, Frame
  <1>8. WriterFollows' /\ WorkerFollows'
    BY <1>1, <1>2, Names, Absent DEF WriterFollows, WorkerFollows, Asking, Handling, Settling
  <1>9. VerifiedStays'
    BY <1>1, <1>2, Names, Absent DEF VerifiedStays, VerifiedIsSettled, Settling, disk
  <1>10. QED
    BY <1>3, <1>4, <1>5, <1>6, <1>7, <1>8, <1>9

LEMMA RestoresStep ==
  ASSUME IInv, Restores
  PROVE  IInv'
  <1> USE DEF IInv
  <1>1. /\ pc["restorer"] \in {"idle", "refused", "retained"} /\ Free
        /\ Sweeps("restorer", "restore")
        /\ UNCHANGED <<disk, writer, worker, current, session, windows, seen, deaths, faults>>
    BY DEF Restores
  <1>2. /\ pc'["restorer"] = "recover" /\ \A b \in Coroutines : pc'[b] = pc[b]
        /\ pc' = [b \in Actors |-> pc'[b]]
        /\ sweep' = [step |-> "requeue", flow |-> NoFlow, caller |-> "restore"]
        /\ loop' = "restorer" /\ LoopIsHeld' /\ SweepFollows'
    BY <1>1, SweepBegins, Names
  <1>3. TypedDisk' /\ RowsFollow'
    BY <1>1, Frame DEF disk
  <1>4. DeadIsDead'
    BY <1>1, <1>2 DEF DeadIsDead
  <1>5. TypedPlaces'
    BY <1>1, <1>2, Names DEF TypedPlaces, Sweeping
  <1>6. TypedWork'
    BY <1>1, SessionFields, TypedFrame
  <1>7. FailureIsNoted' /\ CleanSession'
    BY <1>2, Frame
  <1>8. WriterFollows' /\ WorkerFollows'
    BY <1>1, <1>2, Names, Frame DEF disk
  <1>9. VerifiedStays'
    BY <1>1, <1>2, Names DEF VerifiedStays, VerifiedIsSettled, Settling, disk
  <1>10. QED
    BY <1>2, <1>3, <1>4, <1>5, <1>6, <1>7, <1>8, <1>9

\* A session is retained, or refused for its ledger, after a recovery that left no metadata.
LEMMA RestoreEndsStep ==
  ASSUME IInv, RestoreEnds
  PROVE  IInv'
  <1> USE DEF IInv
  <1>1. /\ pc["restorer"] = "ledger" /\ Free
        /\ UNCHANGED <<disk, loop, sweep, writer, worker, current, session, windows, seen, deaths,
                       faults>>
    BY DEF RestoreEnds, At
  <1>2. /\ pc'["restorer"] \in {"refused", "retained"} /\ \A b \in Coroutines : pc'[b] = pc[b]
        /\ pc' = [b \in Actors |-> pc'[b]]
    BY Moved, Names DEF RestoreEnds
  <1>3. /\ TypedDisk' /\ RowsFollow' /\ SweepFollows'
    BY <1>1, Frame DEF disk
  <1>4. LoopIsHeld'
    BY <1>1, <1>2, LoopIsFree, Names, Absent DEF LoopIsHeld, Free, Settling
  <1>5. DeadIsDead'
    BY <1>1, <1>2 DEF DeadIsDead, disk
  <1>6. TypedPlaces'
    BY <1>1, <1>2, Names DEF TypedPlaces
  <1>7. TypedWork'
    BY <1>1, SessionFields, TypedFrame
  <1>8. FailureIsNoted' /\ CleanSession'
    BY <1>2, Frame
  <1>9. WriterFollows' /\ WorkerFollows' /\ VerifiedStays'
    BY <1>1, <1>2, Names, Frame DEF disk
  <1>10. QED
    BY <1>3, <1>4, <1>5, <1>6, <1>7, <1>8, <1>9

-----------------------------------------------------------------------------
(* The theorems.                                                           *)

\* A session starts with nothing on disk and nothing under way.
LEMMA InitInvariant ==
  ASSUME Init
  PROVE  IInv
  <1>1. /\ rows = [f \in Flows |-> [status |-> "ABSENT", attempts |-> 0]]
        /\ inputs = {} /\ committed = {} /\ lifecycle = {}
        /\ outcomes = [f \in Flows |-> {}]
        /\ ledger = [f \in Flows |-> [p \in Profiles |-> "none"]]
        /\ pc = [task |-> "collect", consumer |-> "poll", stopper |-> "idle", restorer |-> "off"]
        /\ loop = "free" /\ sweep = NoSweep
        /\ writer = NoThread /\ worker = NoWork /\ current = NoClaim
        /\ session = Fresh /\ windows = {} /\ seen = 0
        /\ deaths = 0 /\ faults = 0
    BY DEF Init
  <1>2. \A f \in Flows : rows[f].status = "ABSENT" /\ rows[f].attempts = 0 /\ outcomes[f] = {}
    BY <1>1
  <1>3. /\ pc["task"] = "collect" /\ pc["consumer"] = "poll" /\ pc["stopper"] = "idle"
        /\ pc["restorer"] = "off" /\ pc = [a \in Actors |-> pc[a]]
    BY <1>1, Names
  <1>4. TypedDisk
    BY <1>1, Bounds DEF TypedDisk, Row
  <1>5. TypedPlaces
    BY <1>1, <1>3, Names DEF TypedPlaces
  <1>6. TypedWork
    BY <1>1, Absent, Bounds DEF TypedWork, Fresh
  <1>7. LoopIsHeld /\ DeadIsDead /\ SweepFollows
    BY <1>1, <1>3, Names, Absent DEF LoopIsHeld, DeadIsDead, SweepFollows, Settling
  <1>8. FailureIsNoted
    BY <1>1, <1>3, Names DEF FailureIsNoted, Handling, Fresh
  <1>9. RowsFollow
    BY <1>1, <1>2 DEF RowsFollow, InputKeptUntilOutcome
  <1>10. WriterFollows /\ WorkerFollows
    BY <1>1, <1>3, Absent DEF WriterFollows, WorkerFollows, Asking, Handling, Settling
  <1>11. CleanSession
    BY <1>1, <1>2, <1>3 DEF CleanSession, CleanFlow, Asking
  <1>12. VerifiedStays
    BY <1>1 DEF VerifiedStays
  <1>13. QED
    BY <1>4, <1>5, <1>6, <1>7, <1>8, <1>9, <1>10, <1>11, <1>12 DEF IInv

\* Every step keeps the invariant.
LEMMA NextInvariant ==
  ASSUME IInv, [Next]_vars
  PROVE  IInv'
  <1>1. CASE Next
    BY <1>1, CaptureStep, ThreadsStep, ConsumerStep, StopStep, FailureStep, RecoveryStep,
       DiesStep, RestoresStep, RestoreEndsStep
       DEF Next, Actors
  <1>2. CASE UNCHANGED vars
    <2>1. /\ UNCHANGED <<rows, inputs, committed, outcomes, ledger, lifecycle>>
          /\ UNCHANGED <<pc, loop, sweep, writer, worker, current, session, windows, seen>>
          /\ UNCHANGED <<deaths, faults>>
      BY <1>2 DEF vars, disk, memory
    <2>2. /\ TypedDisk' /\ RowsFollow' /\ SweepFollows' /\ WriterFollows' /\ WorkerFollows'
          /\ LoopIsHeld' /\ VerifiedStays'
      BY <2>1, Frame
    <2>3. TypedPlaces' /\ DeadIsDead'
      BY <2>1 DEF IInv, TypedPlaces, DeadIsDead
    <2>4. TypedWork'
      BY <2>1, SessionFields, TypedFrame
    <2>5. FailureIsNoted'
      BY <2>1 DEF IInv, FailureIsNoted
    <2>6. CleanSession'
      <3>1. CASE pc["restorer"] = "off"
        BY <2>1, <3>1, Frame
      <3>2. CASE pc["restorer"] # "off"
        BY <2>1, <3>2, Frame
      <3>3. QED
        BY <3>1, <3>2
    <2>7. QED
      BY <2>2, <2>3, <2>4, <2>5, <2>6 DEF IInv
  <1>3. QED
    BY <1>1, <1>2

\* What the coroutines, the threads and the disk say of each other holds in every reachable
\* state, whatever is cancelled, fails or dies.
THEOREM Invariance == Spec => []IInv
  <1>1. Init => IInv
    BY InitInvariant
  <1>2. IInv /\ [Next]_vars => IInv'
    BY NextInvariant
  <1>3. QED
    BY <1>1, <1>2, PTL DEF Spec

\* Every variable keeps its type: no row is claimed more often than RetryLimit, and only one
\* recover_no_retry runs at a time, with the loop held.
THEOREM TypeCorrectness == Spec => []TypeOK
  <1>1. ASSUME IInv
        PROVE  TypeOK
    <2> USE <1>1 DEF IInv
    <2>1. /\ rows \in [Flows -> [status : {"ABSENT", "PENDING", "CLAIMED", "DONE", "POISON"},
                                 attempts : 0 .. RetryLimit]]
          /\ inputs \subseteq Flows /\ committed \subseteq Flows
          /\ outcomes \in [Flows -> SUBSET {"COMPLETE", "UNKNOWN", "QUARANTINED", "UNKNOWN_CRASH"}]
          /\ ledger \in [Flows -> [Profiles -> {"none", "attempted", "dispatched", "received",
                                                "complete", "unknown"}]]
          /\ lifecycle \subseteq {"VERIFIED", "PARTIAL", "ABORTED"}
      BY DEF TypedDisk, Row, Verdicts
    <2>2. /\ loop \in Coroutines \cup {"restorer", "free"} /\ DOMAIN pc = Actors
      BY DEF TypedPlaces, Actors
    <2>3. sweep # NoSweep => loop # "free" /\ \E a \in Actors : pc[a] = "recover"
      BY Names DEF LoopIsHeld
    <2>4. (\E a \in Actors : pc[a] = "recover") => sweep # NoSweep
      BY Recovering
    <2>5. current.profile \in 0 .. NumProfiles + 1 /\ windows \subseteq Flows
          /\ seen \in 0 .. NumFlows
      BY DEF TypedWork
    <2>6. QED
      BY <2>1, <2>2, <2>3, <2>4, <2>5 DEF TypeOK
  <1>2. QED
    BY <1>1, Invariance, PTL

\* A session that ends VERIFIED left nothing open, and stays so: no flow of it is answered in
\* part, kept on disk or settled twice (StreamingMonitoring._finalize and _consume).
THEOREM VerifiedSession == Spec => []VerifiedIsSettled
  <1>1. IInv => VerifiedIsSettled
    BY DEF IInv, VerifiedStays, VerifiedIsSettled
  <1>2. QED
    BY <1>1, Invariance, PTL

\* The packet metadata of a committed flow is deleted only after its outcome is durable in the
\* audit and in the queue (StreamStore.purge and recover_no_retry).
THEOREM MetadataKept == Spec => []InputKeptUntilOutcome
  <1>1. IInv => InputKeptUntilOutcome
    BY DEF IInv, RowsFollow
  <1>2. QED
    BY <1>1, Invariance, PTL

\* A retained session has no metadata on disk and no open row, and every committed flow has an
\* outcome, wherever its process died (StreamingMonitoring.restore_latest).
THEOREM RestoredSession == Spec => []RestoredIsSettled
  <1>1. ASSUME IInv, pc["restorer"] = "retained"
        PROVE  /\ inputs = {}
               /\ With("DONE") = committed /\ With("ABSENT") = Flows \ committed
               /\ \A f \in committed : outcomes[f] # {}
    <2>1. inputs = {} /\ committed \subseteq Flows
      BY <1>1 DEF IInv, DeadIsDead, TypedDisk
    <2>2. \A f \in committed : rows[f].status = "DONE" /\ outcomes[f] # {}
      BY <1>1, <2>1 DEF IInv, RowsFollow, InputKeptUntilOutcome
    <2>3. \A f \in Flows : rows[f].status # "ABSENT" => f \in committed
      BY <1>1 DEF IInv, RowsFollow
    <2>4. With("DONE") = committed
      BY <2>1, <2>2, <2>3 DEF With
    <2>5. With("ABSENT") = Flows \ committed
      BY <2>1, <2>2, <2>3 DEF With
    <2>6. QED
      BY <2>1, <2>2, <2>4, <2>5
  <1>2. IInv => RestoredIsSettled
    BY <1>1 DEF RestoredIsSettled
  <1>3. QED
    BY <1>2, Invariance, PTL
=============================================================================

------------------------ MODULE WorkflowRuntimeProofs ------------------------
(***************************************************************************)
(* Proofs about WorkflowRuntime: its inductive invariant, and from it that *)
(* a step is begun once, that the investigation stays within its budget,   *)
(* that an intent was reviewed and is dispatched once, and that what a     *)
(* finished workflow reports is real, for any number of runtimes, any      *)
(* plans and any bounds.                                                   *)
(***************************************************************************)
EXTENDS WorkflowRuntime, TLAPS

-----------------------------------------------------------------------------
(* Operators of the model.                                                 *)

\* The bounds are numbers, and no artifact is not a revision.
LEMMA Bounds ==
  /\ MaxRounds \in Nat \ {0} /\ MaxAnchor \in Nat /\ MaxRevision \in Nat
  /\ None \in Int /\ \A a \in Anchors : a \in Nat /\ a # None /\ a \in Artifact
  BY RuntimeAssumption DEF None, Anchors, Artifact

\* A new workflow.
LEMMA FreshCursor ==
  ASSUME NEW a \in Anchors
  PROVE  /\ Fresh(a) \in Cursor
         /\ Fresh(a).step = "observe" /\ Fresh(a).anchor = a /\ Fresh(a).assessment = None
         /\ Fresh(a).decision = None /\ Fresh(a).review = "none" /\ Fresh(a).response = None
         /\ ~Fresh(a).intent /\ Fresh(a).rounds = 0 /\ Fresh(a).attempted = {}
  <1>1. /\ None \in Artifact /\ 0 \in 0 .. MaxRounds /\ <<>> \in Seq(Inputs)
        /\ "none" \in Failures
    BY Bounds DEF Artifact, Failures
  <1>2. QED
    BY <1>1 DEF Fresh, Cursor, Steps

\* What a runtime that remembers nothing remembers.
LEMMA Forgotten ==
  ASSUME TypeOK
  PROVE  /\ NoWorkflow \in [revision : 0 .. MaxRevision, cursor : Cursor]
         /\ NoWorkflow.cursor = Fresh(0) /\ NoWorkflow.revision = 0
         /\ Sound(NoWorkflow.cursor)
  <1>1. 0 \in Anchors /\ 0 \in 0 .. MaxRevision /\ incident.anchor \in Nat
    BY Bounds DEF TypeOK, Anchors
  <1>2. NoWorkflow.cursor = Fresh(0) /\ NoWorkflow.revision = 0
    BY DEF NoWorkflow
  <1>3. Sound(Fresh(0))
    BY <1>1, FreshCursor DEF Sound
  <1>4. QED
    BY <1>1, <1>2, <1>3, FreshCursor DEF NoWorkflow

\* The records of a state.
LEMMA Fields ==
  ASSUME TypeOK
  PROVE  /\ checkpoint.cursor \in Cursor /\ checkpoint.revision \in 0 .. MaxRevision
         /\ incident.anchor \in Anchors /\ incident.anchor \in Nat
         /\ \A r \in Runtimes : /\ mem[r] \in [revision : 0 .. MaxRevision, cursor : Cursor]
                                /\ mem[r].cursor \in Cursor
                                /\ mem[r].revision \in 0 .. MaxRevision
  BY Bounds DEF TypeOK, Anchors

\* The fields of a cursor.
LEMMA CursorFields ==
  ASSUME NEW c \in Cursor
  PROVE  /\ c.step \in Steps /\ c.anchor \in Anchors /\ c.anchor \in Nat /\ c.anchor # None
         /\ c.pending \in Seq(Inputs) /\ c.rounds \in 0 .. MaxRounds /\ c.rounds \in Nat
         /\ c.rounds <= MaxRounds /\ c.attempted \in SUBSET Inputs
         /\ c.review \in Outcomes \cup {"none"} /\ c.promoted \in BOOLEAN
         /\ c.intent \in BOOLEAN /\ c.failure \in Failures
         /\ {c.assessment, c.decision, c.reviewed, c.response} \subseteq Artifact
  BY Bounds DEF Cursor, Anchors

\* An incident that moves, and a ledger that does not take back an outcome.
Moves ==
  /\ incident' = incident \/ incident'.anchor = incident.anchor + 1
  /\ \A outcome \in {"succeeded", "failed"} : ledger = outcome => ledger' = outcome

\* A sound cursor stays sound when the incident and the ledger move on: what closes an incident
\* moves it.
LEMMA SoundKept ==
  ASSUME TypeOK, NEW c \in Cursor, Sound(c), Moves
  PROVE  Sound(c)'
  <1>1. incident.anchor \in Nat /\ c.anchor \in Nat
    BY Fields, CursorFields
  <1>2. /\ c.anchor <= incident'.anchor
        /\ ~(incident.closed /\ c.anchor = incident.anchor) =>
             ~(incident'.closed /\ c.anchor = incident'.anchor)
    BY <1>1 DEF Sound, Moves
  <1>3. QED
    BY <1>2 DEF Sound, Moves, SourcesValid

\* Where a working runtime stands.
LEMMA Held ==
  ASSUME IInv, NEW r \in Runtimes, pc[r] \in Working
  PROVE  /\ mem[r].cursor \in Cursor /\ Sound(mem[r].cursor)
         /\ Phase(pc[r], mem[r].cursor) /\ Records(mem[r].cursor)
         /\ Successor(checkpoint.cursor, mem[r].cursor)
         /\ checkpoint.claim = r /\ checkpoint.stored
         /\ checkpoint.revision = mem[r].revision /\ mem[r].revision < MaxRevision
         /\ \A s \in Runtimes \ {r} : pc[s] \notin Working
  BY Fields DEF IInv, CursorsOK, ClaimIsHeld

-----------------------------------------------------------------------------
(* What a step leaves alone.                                               *)

\* A runtime stops and forgets its workflow; the incident and the ledger may move.
LEMMA StopFrame ==
  ASSUME IInv, NEW r \in Runtimes, NEW at \in {"absent", "blocked"},
         pc' = [pc EXCEPT ![r] = at], mem' = [mem EXCEPT ![r] = NoWorkflow],
         UNCHANGED <<checkpoint, begun, plans, collected, dispatches>>,
         incident' \in [anchor : Anchors, closed : BOOLEAN], ledger' \in Lifecycles, Moves,
         basis' \in Cursor, IntentIsReviewed'
  PROVE  IInv'
  <1> USE DEF IInv
  <1>1. TypeOK'
    BY Forgotten DEF TypeOK
  <1>2. /\ pc'[r] = at /\ mem'[r] = NoWorkflow /\ at \notin Working /\ at # "idle"
        /\ \A s \in Runtimes \ {r} : pc'[s] = pc[s] /\ mem'[s] = mem[s]
    BY DEF TypeOK, Working
  <1>3. ClaimIsHeld' /\ BegunWithClaim'
    BY <1>2 DEF ClaimIsHeld, BegunWithClaim
  <1>4. Sound(checkpoint.cursor)'
    <2>1. Sound(checkpoint.cursor) /\ checkpoint.cursor \in Cursor /\ checkpoint' = checkpoint
      BY Fields DEF CursorsOK
    <2>2. QED
      BY <2>1, SoundKept DEF Sound
  <1>5. ASSUME NEW s \in Runtimes
        PROVE  Sound(mem[s].cursor)'
    <2>1. PICK c \in Cursor : c = mem'[s].cursor /\ Sound(c)
      BY <1>2, Fields, Forgotten, FreshCursor, Bounds DEF CursorsOK
    <2>2. QED
      BY <2>1, SoundKept DEF Sound
  <1>6. ASSUME NEW s \in Runtimes, pc'[s] \in Working
        PROVE  (Phase(pc[s], mem[s].cursor) /\ Records(mem[s].cursor)
                /\ Successor(checkpoint.cursor, mem[s].cursor))'
    <2>1. s # r /\ pc'[s] = pc[s] /\ mem'[s] = mem[s] /\ pc[s] \in Working
      BY <1>2, <1>6
    <2>2. /\ mem[s].cursor \in Cursor /\ Sound(mem[s].cursor) /\ Phase(pc[s], mem[s].cursor)
          /\ Records(mem[s].cursor) /\ Successor(checkpoint.cursor, mem[s].cursor)
      BY <2>1, Held
    <2>3. /\ incident.anchor \in Nat /\ mem[s].cursor.anchor \in Nat
          /\ mem[s].cursor.anchor <= incident.anchor
      BY <2>2, Fields, CursorFields DEF Sound
    <2>4. Phase(pc[s], mem[s].cursor)'
      BY <2>1, <2>2, <2>3 DEF Phase, Moves
    <2>5. QED
      BY <2>1, <2>2, <2>4 DEF Records, Successor
  <1>7. CursorsOK'
    BY <1>4, <1>5, <1>6 DEF CursorsOK, Records
  <1>8. StepBegunOnce' /\ InvestigationBounded' /\ DispatchedOnce'
    BY DEF StepBegunOnce, InvestigationBounded, DispatchedOnce
  <1>9. QED
    BY <1>1, <1>3, <1>7, <1>8

\* A working runtime goes on in its step with a cursor that is sound, that follows the one it
\* had and that records what the step did.
LEMMA WorkFrame ==
  ASSUME IInv, NEW r \in Runtimes, pc[r] \in Working, NEW at \in Working, NEW c \in Cursor,
         Holds(r, at, c), UNCHANGED <<checkpoint, begun>>,
         incident' \in [anchor : Anchors, closed : BOOLEAN], ledger' \in Lifecycles, Moves,
         basis' \in Cursor, IntentIsReviewed',
         plans' \in Nat, collected' \in [Inputs -> Nat], dispatches' \in Nat,
         InvestigationBounded', DispatchedOnce',
         Sound(c)', Phase(at, c)', Records(c)', Successor(mem[r].cursor, c)
  PROVE  IInv'
  <1> USE DEF IInv
  <1>1. TypeOK'
    BY DEF TypeOK, Holds, Working
  <1>2. /\ pc'[r] = at /\ mem'[r].cursor = c /\ mem'[r].revision = mem[r].revision
        /\ \A s \in Runtimes \ {r} : pc'[s] = pc[s] /\ mem'[s] = mem[s]
    BY DEF TypeOK, Holds
  <1>3. \A s \in Runtimes \ {r} : pc'[s] \notin Working
    BY <1>2, Held
  <1>4. ClaimIsHeld' /\ BegunWithClaim'
    BY <1>2, <1>3, Held DEF ClaimIsHeld, BegunWithClaim, Working
  <1>5. Sound(checkpoint.cursor)'
    <2>1. Sound(checkpoint.cursor) /\ checkpoint.cursor \in Cursor /\ checkpoint' = checkpoint
      BY Fields DEF CursorsOK
    <2>2. QED
      BY <2>1, SoundKept DEF Sound
  <1>6. ASSUME NEW s \in Runtimes
        PROVE  Sound(mem[s].cursor)'
    <2>1. CASE s = r
      BY <2>1, <1>2 DEF Sound
    <2>2. CASE s # r
      <3>1. mem[s].cursor \in Cursor /\ Sound(mem[s].cursor) /\ mem'[s] = mem[s]
        BY <2>2, <1>2, Fields DEF CursorsOK
      <3>2. QED
        BY <3>1, SoundKept DEF Sound
    <2>3. QED
      BY <2>1, <2>2
  <1>7. Successor(checkpoint.cursor, c)
    <2>1. Successor(checkpoint.cursor, mem[r].cursor)
      BY Held
    <2>2. /\ checkpoint.cursor.rounds \in Nat /\ mem[r].cursor.rounds \in Nat
          /\ c.rounds \in Nat
      BY Fields, CursorFields
    <2>3. QED
      BY <2>1, <2>2 DEF Successor
  <1>8. CursorsOK'
    <2>1. checkpoint'.claim # NoRuntime
      BY Held, RuntimeAssumption
    <2>2. ASSUME NEW s \in Runtimes, pc'[s] \in Working
          PROVE  (Phase(pc[s], mem[s].cursor) /\ Records(mem[s].cursor)
                  /\ Successor(checkpoint.cursor, mem[s].cursor))'
      <3>1. s = r
        BY <2>2, <1>3
      <3>2. QED
        BY <3>1, <1>2, <1>7 DEF Phase, Records, Successor
    <2>3. QED
      BY <1>5, <1>6, <2>1, <2>2 DEF CursorsOK
  <1>9. StepBegunOnce'
    BY DEF StepBegunOnce
  <1>10. QED
    BY <1>1, <1>4, <1>8, <1>9

\* A step within memory.
LEMMA QuietFrame ==
  ASSUME IInv, NEW r \in Runtimes, pc[r] \in Working, NEW at \in Working, NEW c \in Cursor,
         Holds(r, at, c), Unaffected, Sound(c), Phase(at, c), Successor(mem[r].cursor, c),
         dispatches # 0 => c.step \in OutcomeSteps
  PROVE  IInv'
  <1>1. UNCHANGED <<incident, checkpoint, ledger, begun, plans, collected, dispatches, basis>>
    BY DEF Unaffected, ghosts
  <1>2. TypeOK /\ IntentIsReviewed /\ InvestigationBounded /\ DispatchedOnce
    BY DEF IInv
  <1>3. Sound(c)' /\ Phase(at, c)'
    BY <1>1 DEF Sound, Phase, SourcesValid
  <1>4. Records(c)'
    <2>1. /\ Records(mem[r].cursor) /\ mem[r].cursor.rounds \in Nat /\ c.rounds \in Nat
          /\ plans \in Nat
      BY <1>2, Held, CursorFields DEF TypeOK
    <2>2. QED
      BY <1>1, <2>1 DEF Records, Successor
  <1>5. IntentIsReviewed' /\ InvestigationBounded' /\ DispatchedOnce'
    BY <1>1, <1>2 DEF IntentIsReviewed, InvestigationBounded, DispatchedOnce
  <1>6. /\ incident' \in [anchor : Anchors, closed : BOOLEAN] /\ ledger' \in Lifecycles
        /\ basis' \in Cursor /\ plans' \in Nat /\ collected' \in [Inputs -> Nat]
        /\ dispatches' \in Nat /\ Moves
    BY <1>1, <1>2 DEF TypeOK, Moves
  <1>7. QED
    BY <1>1, <1>3, <1>4, <1>5, <1>6, WorkFrame

-----------------------------------------------------------------------------
(* The surroundings, and the checkpoint.                                   *)

\* Outside the runtimes, the incident or the ledger moves.
LEMMA OutsideMoves ==
  ASSUME IInv, UNCHANGED <<checkpoint, pc, mem, ghosts>>,
         incident' \in [anchor : Anchors, closed : BOOLEAN], ledger' \in Lifecycles, Moves,
         ledger = "absent" => ledger' = "absent"
  PROVE  IInv'
  <1> USE DEF IInv, ghosts
  <1>1. TypeOK'
    BY DEF TypeOK
  <1>2. ClaimIsHeld' /\ BegunWithClaim'
    BY DEF ClaimIsHeld, BegunWithClaim
  <1>3. Sound(checkpoint.cursor)'
    <2>1. Sound(checkpoint.cursor) /\ checkpoint.cursor \in Cursor /\ checkpoint' = checkpoint
      BY Fields DEF CursorsOK
    <2>2. QED
      BY <2>1, SoundKept DEF Sound
  <1>4. ASSUME NEW s \in Runtimes
        PROVE  Sound(mem[s].cursor)'
    <2>1. Sound(mem[s].cursor) /\ mem[s].cursor \in Cursor /\ mem' = mem
      BY Fields DEF CursorsOK
    <2>2. QED
      BY <2>1, SoundKept DEF Sound
  <1>5. ASSUME NEW s \in Runtimes, pc'[s] \in Working
        PROVE  (Phase(pc[s], mem[s].cursor) /\ Records(mem[s].cursor)
                /\ Successor(checkpoint.cursor, mem[s].cursor))'
    <2>1. /\ mem[s].cursor \in Cursor /\ Sound(mem[s].cursor) /\ Phase(pc[s], mem[s].cursor)
          /\ Records(mem[s].cursor) /\ Successor(checkpoint.cursor, mem[s].cursor)
      BY <1>5, Held
    <2>2. /\ incident.anchor \in Nat /\ mem[s].cursor.anchor \in Nat
          /\ mem[s].cursor.anchor <= incident.anchor
      BY <2>1, Fields, CursorFields DEF Sound
    <2>3. Phase(pc[s], mem[s].cursor)'
      BY <2>1, <2>2 DEF Phase, Moves
    <2>4. QED
      BY <2>1, <2>3 DEF Records, Successor
  <1>6. CursorsOK'
    BY <1>3, <1>4, <1>5 DEF CursorsOK, Records
  <1>7. StepBegunOnce' /\ InvestigationBounded' /\ DispatchedOnce' /\ IntentIsReviewed'
    BY DEF StepBegunOnce, InvestigationBounded, DispatchedOnce, IntentIsReviewed
  <1>8. QED
    BY <1>1, <1>2, <1>6, <1>7

\* Another writer changes the incident.
LEMMA IncidentMovesInvariant == IInv /\ IncidentMoves => IInv'
  <1> SUFFICES ASSUME IInv, IncidentMoves
               PROVE  IInv'
    OBVIOUS
  <1>1. TypeOK /\ incident.anchor \in Nat
    BY Fields DEF IInv
  <1>2. /\ incident' \in [anchor : Anchors, closed : BOOLEAN]
        /\ incident'.anchor = incident.anchor + 1
        /\ UNCHANGED <<checkpoint, pc, mem, ledger, ghosts>>
    <2>1. PICK closed \in {incident.closed, TRUE} :
            incident' = [anchor |-> incident.anchor + 1, closed |-> closed]
      BY DEF IncidentMoves
    <2>2. closed \in BOOLEAN /\ incident.anchor < MaxAnchor
      BY <1>1 DEF IncidentMoves, TypeOK
    <2>3. incident.anchor + 1 \in Anchors
      BY <1>1, <2>2, Bounds DEF Anchors
    <2>4. QED
      BY <2>1, <2>2, <2>3 DEF IncidentMoves
  <1>3. Moves /\ ledger' \in Lifecycles
    BY <1>1, <1>2 DEF Moves, TypeOK
  <1>4. QED
    BY <1>2, <1>3, OutsideMoves

\* The execution moves on.
LEMMA LedgerMovesInvariant == IInv /\ LedgerMoves => IInv'
  <1> SUFFICES ASSUME IInv, LedgerMoves
               PROVE  IInv'
    OBVIOUS
  <1>1. TypeOK
    BY DEF IInv
  <1>2. /\ ledger' \in Lifecycles /\ <<ledger, ledger'>> \in LedgerStep
        /\ UNCHANGED <<incident, checkpoint, pc, mem, ghosts>>
    BY DEF LedgerMoves
  <1>3. /\ ledger \notin {"absent", "succeeded", "failed"}
        /\ incident' \in [anchor : Anchors, closed : BOOLEAN]
    BY <1>1, <1>2 DEF LedgerStep, TypeOK
  <1>4. Moves
    BY <1>2, <1>3 DEF Moves
  <1>5. QED
    BY <1>2, <1>3, <1>4, OutsideMoves

\* A runtime is blocked, or its process ends.
LEMMA StopInvariant ==
  ASSUME IInv, NEW r \in Runtimes, NEW at \in {"absent", "blocked"},
         pc' = [pc EXCEPT ![r] = at], mem' = [mem EXCEPT ![r] = NoWorkflow],
         UNCHANGED <<incident, checkpoint, ledger, ghosts>>
  PROVE  IInv'
  <1>1. TypeOK /\ IntentIsReviewed
    BY DEF IInv
  <1>2. /\ incident' \in [anchor : Anchors, closed : BOOLEAN] /\ ledger' \in Lifecycles
        /\ basis' \in Cursor /\ Moves
        /\ UNCHANGED <<checkpoint, begun, plans, collected, dispatches>>
    BY <1>1 DEF TypeOK, Moves, ghosts
  <1>3. IntentIsReviewed'
    BY <1>1 DEF IntentIsReviewed, ghosts
  <1>4. QED
    BY <1>2, <1>3, StopFrame

\* A workflow is started.
LEMMA StartInvariant ==
  ASSUME IInv, NEW r \in Runtimes, NEW commit \in Commit, Start(r, commit)
  PROVE  IInv'
  <1> DEFINE first == Fresh(incident.anchor)
  <1>1. /\ pc[r] = "absent"
        /\ UNCHANGED <<incident, ledger, ghosts>>
        /\ checkpoint.stored \/ ~Applied(commit) => checkpoint' = checkpoint
        /\ ~checkpoint.stored /\ Applied(commit) =>
             checkpoint' = [NoCheckpoint EXCEPT !.stored = TRUE, !.cursor = first]
        /\ checkpoint.stored \/ commit # "ok" => Blocks(r)
        /\ ~checkpoint.stored /\ commit = "ok" => Holds(r, "idle", first)
    BY DEF Start
  <1>2. CASE checkpoint.stored \/ ~Applied(commit)
    BY <1>1, <1>2, StopInvariant DEF Applied, Blocks
  <1>3. CASE ~checkpoint.stored /\ Applied(commit)
    <2> USE DEF IInv, ghosts
    <2>1. /\ first \in Cursor /\ Sound(first) /\ checkpoint = NoCheckpoint
          /\ Records(checkpoint.cursor)
      <3>1. checkpoint = NoCheckpoint /\ incident.anchor \in Nat /\ incident.anchor \in Anchors
        BY <1>3, Fields DEF ClaimIsHeld
      <3>2. first \in Cursor /\ Sound(first)
        BY <3>1, FreshCursor DEF Sound
      <3>3. QED
        BY <3>1, <3>2 DEF CursorsOK, NoCheckpoint
    <2>2. Records(first) /\ first.step = "observe"
      <3>1. NoCheckpoint.cursor = Fresh(0) /\ 0 \in Anchors
        BY Bounds DEF NoCheckpoint, Anchors
      <3>2. QED
        BY <2>1, <3>1, FreshCursor, Fields DEF Records, OutcomeSteps
    <2>3. /\ checkpoint'.stored /\ checkpoint'.revision = 0 /\ checkpoint'.claim = NoRuntime
          /\ checkpoint'.cursor = first /\ checkpoint.revision = 0
          /\ checkpoint.claim = NoRuntime /\ checkpoint' \in
               [stored : BOOLEAN, revision : 0..MaxRevision,
                claim : Runtimes \cup {NoRuntime}, cursor : Cursor]
      <3> HIDE DEF first
      <3>1. checkpoint' = [stored |-> TRUE, revision |-> 0, claim |-> NoRuntime, cursor |-> first]
        BY <1>1, <1>3 DEF NoCheckpoint
      <3>2. checkpoint.revision = 0 /\ checkpoint.claim = NoRuntime
        BY <2>1 DEF NoCheckpoint
      <3>3. QED
        BY <2>1, <3>1, <3>2, Bounds
    <2>4. PICK at \in {"idle", "blocked"}, m \in [revision : 0 .. MaxRevision, cursor : Cursor] :
            /\ pc' = [pc EXCEPT ![r] = at] /\ mem' = [mem EXCEPT ![r] = m]
            /\ Sound(m.cursor) /\ m.revision = 0
            /\ at = "blocked" => m = NoWorkflow
            /\ at = "idle" => m.cursor = first
      <3>1. CASE commit = "ok"
        <4>1. Holds(r, "idle", first) /\ mem[r].revision = 0
          BY <1>1, <1>3, <3>1 DEF ClaimIsHeld, NoWorkflow
        <4>2. /\ mem' = [mem EXCEPT ![r] = [mem[r] EXCEPT !.cursor = first]]
              /\ pc' = [pc EXCEPT ![r] = "idle"]
          BY <4>1 DEF Holds
        <4>3. /\ [mem[r] EXCEPT !.cursor = first] \in [revision : 0 .. MaxRevision, cursor : Cursor]
              /\ [mem[r] EXCEPT !.cursor = first].cursor = first
              /\ [mem[r] EXCEPT !.cursor = first].revision = 0
          BY <2>1, <4>1, Fields
        <4> HIDE DEF first
        <4>4. QED
          BY <2>1, <4>2, <4>3
      <3>2. CASE commit # "ok"
        BY <1>1, <3>2, Forgotten DEF Blocks
      <3>3. QED
        BY <3>1, <3>2
    <2> HIDE DEF first
    <2>5. /\ pc'[r] = at /\ mem'[r] = m
          /\ \A s \in Runtimes \ {r} : /\ pc'[s] = pc[s] /\ mem'[s] = mem[s]
                                       /\ pc[s] \in {"absent", "blocked"}
      BY <1>3, <2>4 DEF TypeOK, ClaimIsHeld, Working
    <2>6. TypeOK'
      BY <1>1, <2>3, <2>4 DEF TypeOK
    <2>7. ClaimIsHeld'
      BY <2>3, <2>4, <2>5 DEF ClaimIsHeld, SameWorkflow, Working
    <2>8. BegunWithClaim'
      BY <1>1, <2>3 DEF BegunWithClaim
    <2>9. first' = first
      BY <1>1 DEF first
    <2>10. Sound(checkpoint.cursor)' /\ Records(checkpoint.cursor)'
      BY <1>1, <2>1, <2>2, <2>3 DEF Sound, Records, SourcesValid
    <2>11. ASSUME NEW s \in Runtimes
           PROVE  Sound(mem[s].cursor)' /\ pc'[s] \notin Working
      <3>1. PICK c : c = mem'[s].cursor /\ Sound(c)
        BY <2>4, <2>5 DEF CursorsOK
      <3>2. Sound(mem[s].cursor)'
        BY <1>1, <3>1 DEF Sound, SourcesValid
      <3>3. QED
        BY <2>5, <3>2 DEF Working
    <2>12. CursorsOK'
      BY <2>10, <2>11 DEF CursorsOK
    <2>13. StepBegunOnce' /\ InvestigationBounded' /\ IntentIsReviewed' /\ DispatchedOnce'
      BY <1>1 DEF StepBegunOnce, InvestigationBounded, IntentIsReviewed, DispatchedOnce
    <2>14. QED
      BY <2>6, <2>7, <2>8, <2>12, <2>13
  <1>4. QED
    BY <1>2, <1>3

\* A workflow is restored: what the runtime remembers is what is stored.
LEMMA RestoreInvariant ==
  ASSUME IInv, NEW r \in Runtimes, Restore(r)
  PROVE  IInv'
  <1> USE DEF IInv, ghosts
  <1> DEFINE c == [checkpoint.cursor EXCEPT !.promoted = FALSE]
             m == [revision |-> checkpoint.revision, cursor |-> c]
  <1>1. /\ checkpoint.stored /\ checkpoint.claim = NoRuntime
        /\ pc' = [pc EXCEPT ![r] = "idle"] /\ mem' = [mem EXCEPT ![r] = m]
        /\ UNCHANGED <<incident, checkpoint, ledger, begun, plans, collected, dispatches, basis>>
    BY DEF Restore
  <1>2. c \in Cursor /\ Sound(c)
    <2>1. checkpoint.cursor \in Cursor /\ Sound(checkpoint.cursor)
      BY Fields DEF CursorsOK
    <2>2. QED
      BY <2>1 DEF Cursor, Sound, SourcesValid
  <1>3. SameWorkflow(c, checkpoint.cursor)
    BY DEF SameWorkflow
  <1>4. /\ m \in [revision : 0 .. MaxRevision, cursor : Cursor]
        /\ m.revision = checkpoint.revision /\ m.cursor = c /\ m.revision <= checkpoint.revision
    BY <1>2, Fields
  <1> HIDE DEF c, m
  <1>5. /\ pc'[r] = "idle" /\ mem'[r] = m
        /\ \A s \in Runtimes \ {r} : pc'[s] = pc[s] /\ mem'[s] = mem[s]
    BY <1>1 DEF TypeOK
  <1>6. TypeOK'
    BY <1>1, <1>4 DEF TypeOK
  <1>7. ClaimIsHeld' /\ BegunWithClaim'
    BY <1>1, <1>3, <1>4, <1>5 DEF ClaimIsHeld, BegunWithClaim, Working
  <1>8. ASSUME NEW s \in Runtimes
        PROVE  Sound(mem[s].cursor)' /\ pc'[s] \notin Working
    <2>1. PICK d : d = mem'[s].cursor /\ Sound(d)
      BY <1>2, <1>4, <1>5 DEF CursorsOK
    <2>2. Sound(mem[s].cursor)'
      BY <1>1, <2>1 DEF Sound, SourcesValid
    <2>3. pc[s] \notin Working
      BY <1>1, Held, RuntimeAssumption
    <2>4. QED
      BY <1>5, <2>2, <2>3 DEF Working
  <1>9. CursorsOK'
    <2>1. Sound(checkpoint.cursor)' /\ (checkpoint.claim = NoRuntime => Records(checkpoint.cursor))'
      BY <1>1 DEF CursorsOK, Sound, SourcesValid, Records
    <2>2. QED
      BY <1>8, <2>1 DEF CursorsOK
  <1>10. StepBegunOnce' /\ InvestigationBounded' /\ IntentIsReviewed' /\ DispatchedOnce'
    BY <1>1 DEF StepBegunOnce, InvestigationBounded, IntentIsReviewed, DispatchedOnce
  <1>11. QED
    BY <1>6, <1>7, <1>9, <1>10

\* A checkpoint is claimed, or the runtime is blocked: the revision was not begun before.
LEMMA BeginInvariant ==
  ASSUME IInv, NEW r \in Runtimes, NEW commit \in Commit, Begin(r, commit)
  PROVE  IInv'
  <1> DEFINE v == mem[r].revision
  <1>1. /\ pc[r] = "idle" /\ v < MaxRevision
        /\ UNCHANGED <<incident, ledger, plans, collected, dispatches, basis>>
        /\ ~(CanClaim(r) /\ Applied(commit)) => checkpoint' = checkpoint
        /\ CanClaim(r) /\ Applied(commit) => checkpoint' = [checkpoint EXCEPT !.claim = r]
        /\ ~(CanClaim(r) /\ commit = "ok") => Blocks(r) /\ begun' = begun
        /\ CanClaim(r) /\ commit = "ok" => /\ Holds(r, "claimed", mem[r].cursor)
                                           /\ begun' = [begun EXCEPT ![v] = @ + 1]
    BY DEF Begin
  <1>2. CASE ~(CanClaim(r) /\ Applied(commit))
    BY <1>1, <1>2, StopInvariant DEF Applied, Blocks, ghosts
  <1>3. CASE CanClaim(r) /\ Applied(commit)
    <2> USE DEF IInv
    <2>1. /\ checkpoint.claim = NoRuntime /\ checkpoint.revision = v /\ v \in 0 .. MaxRevision
          /\ v \in Nat /\ checkpoint.stored /\ Records(checkpoint.cursor)
          /\ SameWorkflow(mem[r].cursor, checkpoint.cursor)
      BY <1>1, <1>3, Fields, Bounds DEF CanClaim, ClaimIsHeld, CursorsOK
    <2>2. \A s \in Runtimes : pc[s] \notin Working
      BY <2>1, Held, RuntimeAssumption
    <2>3. /\ checkpoint'.stored /\ checkpoint'.revision = v /\ checkpoint'.claim = r
          /\ checkpoint'.cursor = checkpoint.cursor
          /\ checkpoint' \in [stored : BOOLEAN, revision : 0..MaxRevision,
                              claim : Runtimes \cup {NoRuntime}, cursor : Cursor]
      BY <1>1, <1>3, <2>1 DEF TypeOK
    <2>4. PICK at \in {"claimed", "blocked"}, m \in [revision : 0 .. MaxRevision, cursor : Cursor] :
            /\ pc' = [pc EXCEPT ![r] = at] /\ mem' = [mem EXCEPT ![r] = m]
            /\ Sound(m.cursor)
            /\ at = "blocked" => m = NoWorkflow /\ begun' = begun
            /\ at = "claimed" => /\ m = mem[r] /\ begun' = [begun EXCEPT ![v] = @ + 1]
      <3>1. CASE commit = "ok"
        <4>1. Holds(r, "claimed", mem[r].cursor) /\ begun' = [begun EXCEPT ![v] = @ + 1]
          BY <1>1, <1>3, <3>1
        <4>2. mem' = [mem EXCEPT ![r] = mem[r]] /\ pc' = [pc EXCEPT ![r] = "claimed"]
          <5>1. [mem[r] EXCEPT !.cursor = mem[r].cursor] = mem[r]
            BY Fields
          <5>2. QED
            BY <4>1, <5>1 DEF Holds
        <4>3. QED
          BY <4>1, <4>2, Fields DEF CursorsOK
      <3>2. CASE commit # "ok"
        BY <1>1, <3>2, Forgotten DEF Blocks
      <3>3. QED
        BY <3>1, <3>2
    <2>5. /\ pc'[r] = at /\ mem'[r] = m
          /\ \A s \in Runtimes \ {r} : pc'[s] = pc[s] /\ mem'[s] = mem[s]
      BY <2>4 DEF TypeOK
    <2>6. /\ begun' \in [0 .. MaxRevision -> Nat] /\ StepBegunOnce'
          /\ \A w \in 0 .. MaxRevision : w > v => begun'[w] = 0
      <3>1. /\ \A w \in 0 .. MaxRevision : w >= v => begun[w] = 0
            /\ begun \in [0 .. MaxRevision -> Nat] /\ StepBegunOnce
        BY <2>1 DEF BegunWithClaim, TypeOK
      <3>2. CASE at = "blocked"
        BY <2>1, <2>4, <3>1, <3>2 DEF StepBegunOnce
      <3>3. CASE at = "claimed"
        <4>1. begun' = [begun EXCEPT ![v] = 1]
          BY <2>1, <2>4, <3>1, <3>3
        <4>2. QED
          BY <2>1, <3>1, <4>1 DEF StepBegunOnce
      <3>4. QED
        BY <3>2, <3>3
    <2>7. TypeOK'
      BY <1>1, <2>3, <2>4, <2>6 DEF TypeOK
    <2>8. ClaimIsHeld'
      BY <1>1, <2>1, <2>2, <2>3, <2>4, <2>5, RuntimeAssumption DEF ClaimIsHeld, Working
    <2>9. BegunWithClaim'
      BY <2>3, <2>6, RuntimeAssumption DEF BegunWithClaim
    <2>10. ASSUME NEW s \in Runtimes
           PROVE  Sound(mem[s].cursor)'
      <3>1. PICK d : d = mem'[s].cursor /\ Sound(d)
        BY <2>4, <2>5 DEF CursorsOK
      <3>2. QED
        BY <1>1, <3>1 DEF Sound, SourcesValid
    <2>11. ASSUME NEW s \in Runtimes, pc'[s] \in Working
           PROVE  (Phase(pc[s], mem[s].cursor) /\ Records(mem[s].cursor)
                   /\ Successor(checkpoint.cursor, mem[s].cursor))'
      <3>1. s = r /\ at = "claimed" /\ mem'[s] = mem[r] /\ pc'[s] = "claimed"
        BY <2>2, <2>4, <2>5, <2>11 DEF Working
      <3>2. /\ mem[r].cursor.rounds = checkpoint.cursor.rounds
            /\ mem[r].cursor.attempted = checkpoint.cursor.attempted
            /\ mem[r].cursor.step = checkpoint.cursor.step
            /\ mem[r].cursor.failure = checkpoint.cursor.failure
            /\ checkpoint.cursor.rounds \in Nat
        BY <2>1, Fields, CursorFields DEF SameWorkflow, Cursor
      <3>3. QED
        BY <1>1, <2>1, <2>3, <3>1, <3>2 DEF Phase, Records, Successor
    <2>12. CursorsOK'
      <3>1. Sound(checkpoint.cursor)' /\ checkpoint'.claim # NoRuntime
        BY <1>1, <2>3, RuntimeAssumption DEF CursorsOK, Sound, SourcesValid
      <3>2. QED
        BY <2>10, <2>11, <3>1 DEF CursorsOK
    <2>13. InvestigationBounded' /\ IntentIsReviewed' /\ DispatchedOnce'
      BY <1>1 DEF InvestigationBounded, IntentIsReviewed, DispatchedOnce
    <2>14. QED
      BY <2>6, <2>7, <2>8, <2>9, <2>12, <2>13
  <1>4. QED
    BY <1>2, <1>3


\* A step is published: the cursor is the claimant's, and what it records is recorded.
LEMMA PublishInvariant ==
  ASSUME IInv, NEW r \in Runtimes, NEW commit \in Commit, Publish(r, commit)
  PROVE  IInv'
  <1> DEFINE v == mem[r].revision
             c == mem[r].cursor
  <1>1. /\ pc[r] = "stepped"
        /\ UNCHANGED <<incident, ledger, begun, plans, collected, dispatches, basis>>
        /\ ~Applied(commit) => checkpoint' = checkpoint
        /\ Applied(commit) =>
             checkpoint' = [checkpoint EXCEPT !.revision = v + 1, !.claim = NoRuntime,
                                              !.cursor = c]
        /\ commit # "ok" => Blocks(r)
        /\ commit = "ok" => /\ pc' = [pc EXCEPT ![r] = "idle"]
                            /\ mem' = [mem EXCEPT ![r].revision = v + 1]
    BY DEF Publish, ghosts
  <1>2. CASE ~Applied(commit)
    BY <1>1, <1>2, StopInvariant DEF Applied, Blocks, ghosts
  <1>3. CASE Applied(commit)
    <2> USE DEF IInv
    <2>1. /\ c \in Cursor /\ Sound(c) /\ Records(c) /\ checkpoint.stored
          /\ checkpoint.revision = v /\ v \in Nat /\ v < MaxRevision /\ v + 1 \in 0 .. MaxRevision
          /\ \A s \in Runtimes \ {r} : pc[s] \notin Working
      BY <1>1, Held, Fields, Bounds DEF Working
    <2>2. /\ checkpoint'.stored /\ checkpoint'.revision = v + 1
          /\ checkpoint'.claim = NoRuntime /\ checkpoint'.cursor = c
          /\ checkpoint' \in [stored : BOOLEAN, revision : 0..MaxRevision,
                              claim : Runtimes \cup {NoRuntime}, cursor : Cursor]
      <3> HIDE DEF c, v
      <3>1. QED
        BY <1>1, <1>3, <2>1 DEF TypeOK
    <2>3. PICK at \in {"idle", "blocked"}, m \in [revision : 0 .. MaxRevision, cursor : Cursor] :
            /\ pc' = [pc EXCEPT ![r] = at] /\ mem' = [mem EXCEPT ![r] = m]
            /\ Sound(m.cursor)
            /\ at = "blocked" => m = NoWorkflow
            /\ at = "idle" => m.revision = v + 1 /\ m.cursor = c
      <3>1. CASE commit = "ok"
        <4>1. /\ [mem[r] EXCEPT !.revision = v + 1] \in [revision : 0 .. MaxRevision, cursor : Cursor]
              /\ [mem[r] EXCEPT !.revision = v + 1].revision = v + 1
              /\ [mem[r] EXCEPT !.revision = v + 1].cursor = c
          BY <2>1, Fields
        <4>2. QED
          BY <1>1, <2>1, <3>1, <4>1
      <3>2. CASE commit # "ok"
        BY <1>1, <3>2, Forgotten DEF Blocks
      <3>3. QED
        BY <3>1, <3>2
    <2>4. /\ pc'[r] = at /\ mem'[r] = m
          /\ \A s \in Runtimes \ {r} : pc'[s] = pc[s] /\ mem'[s] = mem[s]
      BY <2>3 DEF TypeOK
    <2>5. TypeOK'
      BY <1>1, <2>2, <2>3 DEF TypeOK
    <2>6. ClaimIsHeld'
      <3>1. ASSUME NEW s \in Runtimes, pc'[s] = "idle"
            PROVE  /\ mem'[s].revision <= checkpoint'.revision
                   /\ mem'[s].revision = checkpoint'.revision =>
                        SameWorkflow(mem'[s].cursor, checkpoint'.cursor)
        <4>1. CASE s = r
          BY <2>1, <2>2, <2>3, <2>4, <3>1, <4>1 DEF SameWorkflow
        <4>2. CASE s # r
          <5>1. mem[s].revision <= v /\ mem[s].revision \in Nat /\ mem'[s] = mem[s]
            BY <2>1, <2>4, <3>1, <4>2, Fields, Bounds DEF ClaimIsHeld
          <5>2. QED
            BY <2>1, <2>2, <5>1
        <4>3. QED
          BY <4>1, <4>2
      <3>2. \A s \in Runtimes : pc'[s] \notin Working
        BY <2>1, <2>4 DEF Working
      <3>3. \A s \in Runtimes : pc'[s] \in {"absent", "blocked"} => mem'[s] = NoWorkflow
        BY <2>3, <2>4 DEF ClaimIsHeld
      <3>4. QED
        BY <2>2, <3>1, <3>2, <3>3 DEF ClaimIsHeld
    <2>7. BegunWithClaim'
      BY <1>1, <2>1, <2>2, Bounds DEF BegunWithClaim
    <2>8. ASSUME NEW s \in Runtimes
          PROVE  Sound(mem[s].cursor)' /\ pc'[s] \notin Working
      <3>1. PICK d : d = mem'[s].cursor /\ Sound(d)
        BY <2>3, <2>4 DEF CursorsOK
      <3>2. Sound(mem[s].cursor)'
        BY <1>1, <3>1 DEF Sound, SourcesValid
      <3>3. QED
        BY <2>1, <2>4, <3>2 DEF Working
    <2>9. CursorsOK'
      <3>1. PICK d : d = checkpoint'.cursor /\ Sound(d) /\ Records(d)
        BY <2>1, <2>2
      <3>2. Sound(checkpoint.cursor)' /\ Records(checkpoint.cursor)'
        BY <1>1, <3>1 DEF Sound, SourcesValid, Records
      <3>3. QED
        BY <2>8, <3>2 DEF CursorsOK
    <2>10. StepBegunOnce' /\ InvestigationBounded' /\ IntentIsReviewed' /\ DispatchedOnce'
      BY <1>1 DEF StepBegunOnce, InvestigationBounded, IntentIsReviewed, DispatchedOnce
    <2>11. QED
      BY <2>5, <2>6, <2>7, <2>9, <2>10
  <1>4. QED
    BY <1>2, <1>3

-----------------------------------------------------------------------------
(* The steps.                                                              *)

\* A step that may use the incident: nothing was dispatched, and before ACT there is no intent.
LEMMA AtWork ==
  ASSUME IInv, NEW r \in Runtimes, NEW step \in Steps, Works(r, step)
  PROVE  /\ pc[r] = "claimed" /\ pc[r] \in Working /\ mem[r].cursor.step = step
         /\ step \notin OutcomeSteps /\ dispatches = 0
         /\ mem[r].cursor.anchor = incident.anchor /\ ~incident.closed
         /\ step # "act" => ~mem[r].cursor.intent
  <1>1. /\ pc[r] = "claimed" /\ mem[r].cursor.step = step /\ step \notin OutcomeSteps
        /\ mem[r].cursor.anchor = incident.anchor /\ ~incident.closed
    BY DEF Works, At
  <1>2. pc[r] \in Working
    BY <1>1 DEF Working
  <1>3. Sound(mem[r].cursor) /\ Records(mem[r].cursor)
    BY <1>2, Held
  <1>4. QED
    BY <1>1, <1>2, <1>3 DEF Sound, Records

\* The incident moved or was closed.
LEMMA IncidentRefusesInvariant ==
  ASSUME IInv, NEW r \in Runtimes, IncidentRefuses(r)
  PROVE  IInv'
  <1> DEFINE c == mem[r].cursor
             waits == [c EXCEPT !.failure = "validation_failure"]
             over == [c EXCEPT !.step = "complete", !.failure = "none"]
  <1>1. /\ pc[r] \in Working /\ c.step \notin OutcomeSteps /\ Unaffected
        /\ \/ Holds(r, "stepped", waits)
           \/ c.anchor = incident.anchor /\ incident.closed /\ Holds(r, "stepped", over)
    BY DEF IncidentRefuses, Ends, Working
  <1>2. c \in Cursor /\ Sound(c) /\ Records(c)
    BY <1>1, Held
  <1>3. waits \in Cursor /\ over \in Cursor
    BY <1>2 DEF Cursor, Steps, Failures
  <1>4. Sound(waits) /\ Successor(c, waits) /\ Phase("stepped", waits)
    BY <1>1, <1>2 DEF Sound, Successor, Phase, Cursor, SourcesValid, OutcomeSteps
  <1>5. ASSUME c.anchor = incident.anchor, incident.closed
        PROVE  Sound(over) /\ Successor(c, over) /\ Phase("stepped", over)
    BY <1>1, <1>2, <1>5 DEF Sound, Successor, Phase, Cursor, SourcesValid, OutcomeSteps
  <1>6. /\ dispatches # 0 => waits.step \in OutcomeSteps
        /\ over.step \in OutcomeSteps /\ "stepped" \in Working
    BY <1>1, <1>2 DEF Records, Cursor, OutcomeSteps, Working
  <1> HIDE DEF c, waits, over
  <1>7. QED
    BY <1>1, <1>3, <1>4, <1>5, <1>6, QuietFrame DEF c

\* An input that is not the one the workflow needs.
LEMMA InvalidInputInvariant ==
  ASSUME IInv, NEW r \in Runtimes, InvalidInput(r)
  PROVE  IInv'
  <1> DEFINE c == mem[r].cursor
             d == [c EXCEPT !.failure = "validation_failure"]
  <1>1. PICK step \in Steps : Works(r, step)
    BY DEF InvalidInput
  <1>2. /\ pc[r] \in Working /\ c.step \notin OutcomeSteps /\ dispatches = 0
        /\ Holds(r, "stepped", d) /\ Unaffected
    BY <1>1, AtWork DEF InvalidInput, Ends
  <1>3. c \in Cursor /\ Sound(c)
    BY <1>2, Held
  <1>4. d \in Cursor
    BY <1>3 DEF Cursor, Failures
  <1>5. Sound(d) /\ Successor(c, d) /\ Phase("stepped", d) /\ "stepped" \in Working
    BY <1>2, <1>3 DEF Sound, Successor, Phase, Cursor, SourcesValid, OutcomeSteps, Working
  <1> HIDE DEF c, d
  <1>6. QED
    BY <1>2, <1>4, <1>5, QuietFrame DEF c

\* A step raises.
LEMMA StepRaisesInvariant ==
  ASSUME IInv, NEW r \in Runtimes, StepRaises(r)
  PROVE  IInv'
  <1> DEFINE c == mem[r].cursor
             d == Terminated(c)
  <1>1. /\ Holds(r, "stepped", d) /\ Unaffected
        /\ (\E step \in Steps : Works(r, step)) \/ pc[r] \in {"collected", "assessed", "intending"}
    BY DEF StepRaises, Ends
  <1>2. pc[r] \in Working /\ c.step \notin OutcomeSteps
    <2>1. CASE \E step \in Steps : Works(r, step)
      BY <2>1, AtWork
    <2>2. CASE pc[r] \in {"collected", "assessed", "intending"}
      <3>1. pc[r] \in Working
        BY <2>2 DEF Working
      <3>2. QED
        BY <2>2, <3>1, Held DEF Phase, OutcomeSteps
    <2>3. QED
      BY <1>1, <2>1, <2>2
  <1>3. c \in Cursor /\ Sound(c)
    BY <1>2, Held
  <1>4. StageFailure(c.step) \in Failures \ {"none", "execution_failed"}
    BY DEF StageFailure, Failures
  <1>5. d \in Cursor /\ Sound(d) /\ Successor(c, d) /\ Phase("stepped", d)
        /\ d.step \in OutcomeSteps /\ "stepped" \in Working
    <2>1. PICK failure \in Failures \ {"none", "execution_failed"} :
            d = [c EXCEPT !.step = "complete", !.failure = failure]
      BY <1>4 DEF Terminated
    <2> HIDE DEF d
    <2>2. d \in Cursor
      BY <1>3, <2>1 DEF Cursor, Steps
    <2>3. QED
      BY <1>2, <1>3, <2>1, <2>2
         DEF Sound, Successor, Phase, Cursor, SourcesValid, OutcomeSteps, Working
  <1> HIDE DEF c, d
  <1>6. QED
    BY <1>1, <1>2, <1>5, QuietFrame DEF c

\* A human review is accepted.
LEMMA AcceptReviewInvariant ==
  ASSUME IInv, NEW r \in Runtimes, NEW outcome \in Outcomes, NEW reviewed \in Anchors,
         AcceptReview(r, outcome, reviewed)
  PROVE  IInv'
  <1> DEFINE c == mem[r].cursor
             d == [c EXCEPT !.review = outcome, !.reviewed = reviewed, !.failure = "none",
                            !.step = IF outcome = "investigate" THEN "plan" ELSE "govern"]
  <1>1. /\ Works(r, "plan") \/ Works(r, "govern")
        /\ Holds(r, "stepped", d) /\ Unaffected
        /\ c.decision # None /\ SourcesValid(c, reviewed)
    BY DEF AcceptReview, Ends
  <1>2. pc[r] \in Working /\ c.step \notin OutcomeSteps /\ dispatches = 0 /\ ~c.intent
    BY <1>1, AtWork DEF Steps
  <1>3. c \in Cursor /\ Sound(c)
    BY <1>2, Held
  <1>4. d \in Cursor
    BY <1>3, Bounds DEF Cursor, Failures, Steps, Outcomes
  <1>5. /\ d.step \in {"plan", "govern"} /\ ~d.intent /\ d.anchor = c.anchor
        /\ d.assessment = c.assessment /\ d.decision = c.decision /\ d.reviewed = reviewed
        /\ d.response = c.response /\ d.rounds = c.rounds /\ d.attempted = c.attempted
    BY <1>2, <1>3 DEF Cursor
  <1> HIDE DEF d
  <1>6. Sound(d) /\ Successor(c, d) /\ Phase("stepped", d) /\ "stepped" \in Working
    <2>1. c.rounds \in Nat /\ c.anchor \in Nat /\ c.anchor # None
      BY <1>3, CursorFields
    <2>2. Sound(d)
      BY <1>1, <1>3, <1>5, <2>1 DEF Sound, SourcesValid
    <2>3. QED
      BY <1>2, <1>5, <2>1, <2>2 DEF Successor, Phase, OutcomeSteps, Working
  <1> HIDE DEF c
  <1>7. QED
    BY <1>1, <1>2, <1>4, <1>6, QuietFrame DEF c

\* The evidence is looked at.
LEMMA ObserveInvariant ==
  ASSUME IInv, NEW r \in Runtimes, NEW evident \in BOOLEAN, Observe(r, evident)
  PROVE  IInv'
  <1> DEFINE c == mem[r].cursor
  <1>1. PICK step \in {"plan", "route"} :
          /\ Holds(r, "stepped", [c EXCEPT !.step = step, !.failure = "none"])
          /\ Works(r, "observe") /\ Unaffected
    BY DEF Observe, Ends
  <1> DEFINE d == [c EXCEPT !.step = step, !.failure = "none"]
  <1>2. pc[r] \in Working /\ c.step = "observe" /\ dispatches = 0 /\ ~c.intent
    BY <1>1, AtWork DEF Steps
  <1>3. c \in Cursor /\ Sound(c)
    BY <1>2, Held
  <1>4. d \in Cursor
    BY <1>3 DEF Cursor, Failures, Steps
  <1>5. Sound(d) /\ Successor(c, d) /\ Phase("stepped", d) /\ "stepped" \in Working
    BY <1>2, <1>3 DEF Sound, Successor, Phase, Cursor, SourcesValid, Working
  <1> HIDE DEF c, d
  <1>6. QED
    BY <1>1, <1>2, <1>4, <1>5, QuietFrame DEF c, d

\* The loop guard stops an investigation; it never gives back a round.
LEMMA GuardInvariant ==
  ASSUME IInv, NEW r \in Runtimes, NEW step \in {"plan", "route"}, Works(r, step), Unaffected,
         NEW rounds \in {mem[r].cursor.rounds, MaxRounds},
         Ends(r, LoopGuard([mem[r].cursor EXCEPT !.rounds = rounds]))
  PROVE  IInv'
  <1> DEFINE c == mem[r].cursor
             e == [c EXCEPT !.rounds = rounds]
             d == LoopGuard(e)
  <1>1. Holds(r, "stepped", d)
    BY DEF Ends
  <1>2. pc[r] \in Working /\ c.step = step /\ dispatches = 0 /\ ~c.intent
    BY AtWork DEF Steps
  <1>3. c \in Cursor /\ Sound(c)
    BY <1>2, Held
  <1>4. e \in Cursor /\ Sound(e) /\ Successor(c, e) /\ e.step = step /\ ~e.intent
    <2>1. c.rounds \in 0 .. MaxRounds /\ rounds \in 0 .. MaxRounds /\ c.rounds <= rounds
      BY <1>3, CursorFields, Bounds
    <2>2. QED
      BY <1>2, <1>3, <2>1 DEF Sound, Successor, Cursor, SourcesValid
  <1>5. d \in Cursor /\ Sound(d) /\ Successor(e, d) /\ d.step = "plan"
    <2>1. e.rounds \in Nat
      BY <1>4, CursorFields
    <2> HIDE DEF e
    <2>2. d = [e EXCEPT !.step = "plan", !.failure = "investigation_loop_guard"]
      BY DEF LoopGuard
    <2> HIDE DEF d
    <2>3. d \in Cursor
      BY <1>4, <2>2 DEF Cursor, Failures, Steps
    <2>4. QED
      BY <1>4, <2>1, <2>2, <2>3 DEF Sound, Successor, Cursor, SourcesValid
  <1> HIDE DEF d, e
  <1>6. Successor(c, d) /\ Phase("stepped", d) /\ "stepped" \in Working
    <2>1. c.rounds \in Nat /\ e.rounds \in Nat /\ d.rounds \in Nat
      BY <1>3, <1>4, <1>5, CursorFields
    <2>2. QED
      BY <1>2, <1>4, <1>5, <2>1 DEF Successor, Phase, Working
  <1> HIDE DEF c
  <1>7. QED
    BY <1>1, <1>2, <1>5, <1>6, QuietFrame DEF c

\* The budget is spent, or the plan repeats an input.
LEMMA RefusedInvariant ==
  ASSUME IInv, NEW r \in Runtimes, PlanRefused(r) \/ RepeatRefused(r)
  PROVE  IInv'
  <1> DEFINE c == mem[r].cursor
  <1>1. CASE PlanRefused(r)
    <2>1. Works(r, "plan") /\ Unaffected /\ Ends(r, LoopGuard(c))
      BY <1>1 DEF PlanRefused
    <2>2. pc[r] \in Working
      BY <2>1, AtWork DEF Steps
    <2>3. c \in Cursor
      BY <2>2, Held
    <2>4. [c EXCEPT !.rounds = c.rounds] = c
      BY <2>3 DEF Cursor
    <2>5. QED
      BY <2>1, <2>4, GuardInvariant
  <1>2. CASE RepeatRefused(r)
    <2>1. Works(r, "route") /\ Unaffected /\ Ends(r, LoopGuard([c EXCEPT !.rounds = MaxRounds]))
      BY <1>2 DEF RepeatRefused
    <2>2. QED
      BY <2>1, GuardInvariant
  <1>3. QED
    BY <1>1, <1>2

\* The planner is asked: a round of the budget is spent.
LEMMA PlanInvariant ==
  ASSUME IInv, NEW r \in Runtimes, NEW plan \in Plans, Plan(r, plan)
  PROVE  IInv'
  <1> DEFINE c == mem[r].cursor
             guarded == LoopGuard([c EXCEPT !.rounds = MaxRounds])
             planned == [c EXCEPT !.pending = plan, !.rounds = @ + 1, !.step = "route",
                                  !.failure = "none"]
  <1>1. /\ Works(r, "plan") /\ c.rounds < MaxRounds /\ plans' = plans + 1
        /\ Holds(r, "stepped", guarded) \/ Holds(r, "stepped", planned)
        /\ UNCHANGED <<incident, checkpoint, ledger, begun, collected, dispatches, basis>>
    <2>1. Works(r, "plan") /\ ~BudgetSpent(c) /\ plans' = plans + 1
          /\ UNCHANGED <<incident, checkpoint, ledger, begun, collected, dispatches, basis>>
      BY DEF Plan
    <2>2. Holds(r, "stepped", guarded) \/ Holds(r, "stepped", planned)
      BY DEF Plan, Ends
    <2>3. pc[r] \in Working
      BY <2>1, AtWork DEF Steps
    <2>4. c.rounds \in Nat /\ MaxRounds \in Nat
      BY <2>3, Held, CursorFields, Bounds
    <2>5. QED
      BY <2>1, <2>2, <2>4 DEF BudgetSpent
  <1>2. /\ pc[r] \in Working /\ c.step = "plan" /\ dispatches = 0 /\ ~c.intent
        /\ "stepped" \in Working
    BY <1>1, AtWork DEF Steps, Working
  <1>3. c \in Cursor /\ Sound(c) /\ Records(c) /\ TypeOK /\ IntentIsReviewed /\ DispatchedOnce
        /\ InvestigationBounded
    BY <1>2, Held DEF IInv
  <1>4. /\ plans \in Nat /\ plans <= c.rounds /\ c.rounds \in Nat /\ c.rounds < MaxRounds
        /\ MaxRounds \in Nat
        /\ \A k \in Inputs : collected[k] # 0 => k \in c.attempted
    BY <1>1, <1>3, CursorFields, Bounds DEF TypeOK, Records
  <1>5. ASSUME NEW d \in {guarded, planned}
        PROVE  /\ d \in Cursor /\ Sound(d) /\ Successor(c, d)
               /\ d.rounds > plans /\ d.attempted = c.attempted
    <2>1. /\ plan \in Seq(Inputs) /\ c.rounds + 1 \in 0 .. MaxRounds /\ MaxRounds \in 0 .. MaxRounds
      BY <1>4, RuntimeAssumption
    <2>2. CASE d = guarded
      <3>1. d = [c EXCEPT !.rounds = MaxRounds, !.step = "plan",
                          !.failure = "investigation_loop_guard"]
        BY <1>3, <2>2 DEF LoopGuard, Cursor
      <3>2. d \in Cursor
        BY <1>3, <2>1, <3>1 DEF Cursor, Steps, Failures
      <3>3. QED
        BY <1>2, <1>3, <1>4, <3>1, <3>2 DEF Sound, Successor, Cursor, SourcesValid
    <2>3. CASE d = planned
      <3>1. d \in Cursor
        BY <1>3, <2>1, <2>3 DEF Cursor, Steps, Failures
      <3>2. QED
        BY <1>2, <1>3, <1>4, <2>3, <3>1 DEF Sound, Successor, Cursor, SourcesValid
    <2>4. QED
      BY <2>2, <2>3
  <1> HIDE DEF guarded, planned, c
  <1>6. PICK d \in {guarded, planned} : Holds(r, "stepped", d)
    BY <1>1
  <1>7. d \in Cursor /\ d.rounds \in Nat /\ d.rounds <= MaxRounds
    BY <1>5, CursorFields
  <1>8. Sound(d)' /\ Phase("stepped", d)' /\ Records(d)'
    BY <1>1, <1>2, <1>4, <1>5, <1>7 DEF Sound, Phase, Records, SourcesValid
  <1>9. IntentIsReviewed' /\ DispatchedOnce' /\ InvestigationBounded'
    BY <1>1, <1>3, <1>4, <1>5, <1>7 DEF IntentIsReviewed, DispatchedOnce, InvestigationBounded
  <1>10. /\ incident' \in [anchor : Anchors, closed : BOOLEAN] /\ ledger' \in Lifecycles
         /\ basis' \in Cursor /\ plans' \in Nat /\ collected' \in [Inputs -> Nat]
         /\ dispatches' \in Nat /\ Moves
    BY <1>1, <1>3, <1>4 DEF TypeOK, Moves
  <1>11. QED
    BY <1>1, <1>2, <1>5, <1>6, <1>7, <1>8, <1>9, <1>10, WorkFrame DEF c

\* A pending input is executed: it was not, and it is remembered.
LEMMA CollectInvariant ==
  ASSUME IInv, NEW r \in Runtimes, Collect(r)
  PROVE  IInv'
  <1> DEFINE c == mem[r].cursor
             k == Head(c.pending)
             d == [c EXCEPT !.attempted = @ \cup {k}, !.pending = Tail(@)]
  <1>1. /\ Works(r, "route") /\ c.pending # <<>> /\ k \notin c.attempted
        /\ collected' = [collected EXCEPT ![k] = @ + 1] /\ Holds(r, "collected", d)
        /\ UNCHANGED <<incident, checkpoint, ledger, begun, plans, dispatches, basis>>
    BY DEF Collect, Repeated
  <1>2. /\ pc[r] \in Working /\ c.step = "route" /\ dispatches = 0 /\ ~c.intent
        /\ "collected" \in Working
    BY <1>1, AtWork DEF Steps, Working
  <1>3. /\ c \in Cursor /\ Sound(c) /\ Records(c)
        /\ TypeOK /\ IntentIsReviewed /\ DispatchedOnce /\ InvestigationBounded
    BY <1>2, Held DEF IInv
  <1>4. k \in Inputs /\ Tail(c.pending) \in Seq(Inputs) /\ c.attempted \in SUBSET Inputs
        /\ c.rounds \in Nat
    <2>1. c.pending \in Seq(Inputs) /\ c.attempted \in SUBSET Inputs /\ c.rounds \in Nat
      BY <1>3, CursorFields
    <2>2. QED
      BY <1>1, <2>1
  <1>5. collected[k] = 0 /\ collected \in [Inputs -> Nat]
    BY <1>1, <1>3, <1>4 DEF Records, TypeOK
  <1>6. /\ collected' \in [Inputs -> Nat] /\ collected'[k] = 1
        /\ \A j \in Inputs \ {k} : collected'[j] = collected[j]
    BY <1>1, <1>4, <1>5
  <1> HIDE DEF k
  <1>7. /\ d \in Cursor /\ Sound(d) /\ Successor(c, d) /\ d.rounds = c.rounds
        /\ d.attempted = c.attempted \cup {k} /\ d.step = "route"
    <2>1. d \in Cursor
      BY <1>3, <1>4 DEF Cursor
    <2>2. QED
      BY <1>2, <1>3, <1>4, <2>1 DEF Sound, Successor, Cursor, SourcesValid
  <1> HIDE DEF c, d
  <1>8. PICK e \in Cursor : e = d
    BY <1>7
  <1>9. Sound(e)' /\ Phase("collected", e)' /\ Records(e)'
    BY <1>1, <1>2, <1>3, <1>6, <1>7, <1>8 DEF Sound, Phase, Records, SourcesValid
  <1>10. IntentIsReviewed' /\ DispatchedOnce' /\ InvestigationBounded'
    <2>1. \A j \in Inputs : collected'[j] <= 1
      BY <1>3, <1>6 DEF InvestigationBounded
    <2>2. QED
      BY <1>1, <1>3, <2>1 DEF IntentIsReviewed, DispatchedOnce, InvestigationBounded
  <1>11. /\ incident' \in [anchor : Anchors, closed : BOOLEAN] /\ ledger' \in Lifecycles
         /\ basis' \in Cursor /\ plans' \in Nat /\ dispatches' \in Nat /\ Moves
    BY <1>1, <1>3 DEF TypeOK, Moves
  <1>12. QED
    BY <1>1, <1>2, <1>6, <1>7, <1>8, <1>9, <1>10, <1>11, WorkFrame DEF c

\* A working runtime and the incident go on together; nothing was done outside.
LEMMA AppendFrame ==
  ASSUME IInv, NEW r \in Runtimes, pc[r] \in Working, NEW c \in Cursor, Ends(r, c),
         UNCHANGED <<checkpoint, ledger, ghosts>>, Moves,
         incident' \in [anchor : Anchors, closed : BOOLEAN],
         Sound(c)', Successor(mem[r].cursor, c), dispatches # 0 => c.step \in OutcomeSteps
  PROVE  IInv'
  <1>1. UNCHANGED <<checkpoint, ledger, begun, plans, collected, dispatches, basis>>
        /\ Holds(r, "stepped", c) /\ "stepped" \in Working
    BY DEF ghosts, Ends, Working
  <1>2. TypeOK /\ IntentIsReviewed /\ DispatchedOnce /\ InvestigationBounded
    BY DEF IInv
  <1>3. Records(c)'
    <2>1. /\ Records(mem[r].cursor) /\ mem[r].cursor.rounds \in Nat /\ c.rounds \in Nat
          /\ plans \in Nat
      BY <1>2, Held, CursorFields DEF TypeOK
    <2>2. QED
      BY <1>1, <2>1 DEF Records, Successor
  <1>4. Phase("stepped", c)' /\ IntentIsReviewed' /\ DispatchedOnce' /\ InvestigationBounded'
    BY <1>1, <1>2 DEF Phase, IntentIsReviewed, DispatchedOnce, InvestigationBounded
  <1>5. /\ ledger' \in Lifecycles /\ basis' \in Cursor /\ plans' \in Nat
        /\ collected' \in [Inputs -> Nat] /\ dispatches' \in Nat
    BY <1>1, <1>2 DEF TypeOK
  <1>6. QED
    BY <1>1, <1>3, <1>4, <1>5, WorkFrame

\* A runtime fails while the incident moves.
LEMMA AppendFails ==
  ASSUME IInv, NEW r \in Runtimes, Blocks(r), UNCHANGED <<checkpoint, ledger, ghosts>>, Moves,
         incident' \in [anchor : Anchors, closed : BOOLEAN]
  PROVE  IInv'
  <1>1. /\ TypeOK /\ IntentIsReviewed
        /\ UNCHANGED <<checkpoint, ledger, begun, plans, collected, dispatches, basis>>
    BY DEF IInv, ghosts
  <1>2. IntentIsReviewed' /\ ledger' \in Lifecycles /\ basis' \in Cursor
    BY <1>1 DEF IntentIsReviewed, TypeOK
  <1>3. QED
    BY <1>1, <1>2, StopFrame DEF Blocks

\* Evidence is appended: what was concluded before is void.
LEMMA AppendEvidenceInvariant ==
  ASSUME IInv, NEW r \in Runtimes, NEW commit \in Commit, AppendEvidence(r, commit)
  PROVE  IInv'
  <1> DEFINE c == mem[r].cursor
             next == incident.anchor + 1
             d == Superseded(c, next)
  <1>1. /\ pc[r] = "collected" /\ incident.anchor < MaxAnchor
        /\ incident' = (IF Applied(commit) THEN [incident EXCEPT !.anchor = next] ELSE incident)
        /\ IF commit = "ok" THEN Ends(r, d) ELSE Blocks(r)
        /\ UNCHANGED <<checkpoint, ledger, ghosts>>
    BY DEF AppendEvidence
  <1>2. /\ TypeOK /\ incident \in [anchor : Anchors, closed : BOOLEAN]
        /\ incident.anchor \in Nat
    BY Fields DEF IInv, TypeOK
  <1>3. /\ incident' \in [anchor : Anchors, closed : BOOLEAN] /\ Moves /\ next \in Anchors
        /\ commit = "ok" => incident'.anchor = next
    <2>1. next \in Anchors
      BY <1>1, <1>2, Bounds DEF Anchors
    <2> HIDE DEF next
    <2>2. /\ incident' \in [anchor : Anchors, closed : BOOLEAN]
          /\ incident' = incident \/ incident'.anchor = next
          /\ commit = "ok" => incident'.anchor = next
      BY <1>1, <1>2, <2>1 DEF Applied
    <2>3. ledger' = ledger
      BY <1>1
    <2>4. QED
      BY <2>1, <2>2, <2>3 DEF Moves, next
  <1>4. CASE commit # "ok"
    BY <1>1, <1>3, <1>4, AppendFails
  <1>5. CASE commit = "ok"
    <2>1. pc[r] \in Working
      BY <1>1 DEF Working
    <2>2. /\ c \in Cursor /\ c.step = "route" /\ Sound(c) /\ Records(c)
      BY <1>1, <2>1, Held DEF Phase
    <2>3. /\ d = [c EXCEPT !.anchor = next, !.assessment = None, !.decision = None,
                           !.review = "none", !.reviewed = None, !.response = None,
                           !.failure = "none"]
      BY DEF Superseded
    <2> HIDE DEF next, d
    <2>4. None \in Artifact /\ next \in Nat
      BY <1>3, Bounds DEF Artifact
    <2>5. /\ d \in Cursor /\ d.anchor = next /\ d.assessment = None /\ d.decision = None
          /\ d.review = "none" /\ d.response = None /\ d.step = "route" /\ ~d.intent
          /\ d.rounds = c.rounds /\ d.attempted = c.attempted /\ c.rounds \in Nat
      <3>1. d \in Cursor
        BY <1>3, <2>2, <2>3, <2>4 DEF Cursor, Failures, Outcomes
      <3>2. ~c.intent /\ c.rounds \in Nat
        BY <2>2, CursorFields DEF Sound, OutcomeSteps
      <3>3. QED
        BY <2>2, <2>3, <3>1, <3>2 DEF Cursor
    <2>6. PICK e \in Cursor : e = d
      BY <2>5
    <2>7. Sound(e)'
      BY <1>3, <1>5, <2>4, <2>5, <2>6 DEF Sound
    <2>8. Successor(c, e) /\ (dispatches # 0 => e.step \in OutcomeSteps)
      BY <2>2, <2>5, <2>6 DEF Successor, Records, OutcomeSteps
    <2> HIDE DEF c
    <2>9. QED
      BY <1>1, <1>3, <1>5, <2>1, <2>6, <2>7, <2>8, AppendFrame DEF c
  <1>6. QED
    BY <1>4, <1>5

\* The analysis is appended at the revision it makes, or at the one it was made for.
LEMMA AppendAssessmentInvariant ==
  ASSUME IInv, NEW r \in Runtimes, NEW commit \in Commit, NEW facts \in BOOLEAN,
         AppendAssessment(r, facts, commit)
  PROVE  IInv'
  <1> DEFINE c == mem[r].cursor
  <1>1. PICK next \in Anchors :
          /\ next = incident.anchor + 1 \/ next = incident.anchor
          /\ pc[r] = "assessed"
          /\ incident' = (IF Applied(commit) THEN [incident EXCEPT !.anchor = next] ELSE incident)
          /\ commit = "ok" => Ends(r, [c EXCEPT !.anchor = next, !.assessment = next,
                                                !.step = "decide", !.failure = "none"])
          /\ commit # "ok" => Blocks(r)
          /\ UNCHANGED <<checkpoint, ledger, ghosts>>
    BY DEF AppendAssessment
  <1> DEFINE d == [c EXCEPT !.anchor = next, !.assessment = next, !.step = "decide",
                            !.failure = "none"]
  <1>2. /\ TypeOK /\ incident \in [anchor : Anchors, closed : BOOLEAN]
        /\ incident.anchor \in Nat /\ next \in Nat /\ next # None /\ next \in Artifact
    BY Fields, Bounds DEF IInv, TypeOK
  <1>3. /\ incident' \in [anchor : Anchors, closed : BOOLEAN] /\ Moves
        /\ commit = "ok" => incident'.anchor = next
    <2>1. [incident EXCEPT !.anchor = next] \in [anchor : Anchors, closed : BOOLEAN]
          /\ [incident EXCEPT !.anchor = next].anchor = next
          /\ next = incident.anchor => [incident EXCEPT !.anchor = next] = incident
      BY <1>2
    <2>2. QED
      BY <1>1, <1>2, <2>1 DEF Applied, Moves
  <1>4. CASE commit # "ok"
    BY <1>1, <1>3, <1>4, AppendFails
  <1>5. CASE commit = "ok"
    <2>1. pc[r] \in Working
      BY <1>1 DEF Working
    <2>2. /\ c \in Cursor /\ c.step = "analyze" /\ c.decision = None /\ c.review = "none"
          /\ c.response = None /\ Sound(c) /\ Records(c)
      BY <1>1, <2>1, Held DEF Phase
    <2>3. /\ d \in Cursor /\ d.anchor = next /\ d.assessment = next /\ d.decision = None
          /\ d.review = "none" /\ d.response = None /\ d.step = "decide" /\ ~d.intent
          /\ d.rounds = c.rounds /\ d.attempted = c.attempted /\ c.rounds \in Nat
      <3>1. d \in Cursor
        BY <1>2, <2>2 DEF Cursor, Failures, Steps
      <3>2. ~c.intent /\ c.rounds \in Nat
        BY <2>2, CursorFields DEF Sound, OutcomeSteps
      <3>3. QED
        BY <2>2, <3>1, <3>2 DEF Cursor
    <2> HIDE DEF d
    <2>4. PICK e \in Cursor : e = d
      BY <2>3
    <2>5. Sound(e)'
      BY <1>2, <1>3, <1>5, <2>3, <2>4 DEF Sound
    <2>6. Successor(c, e) /\ (dispatches # 0 => e.step \in OutcomeSteps)
      BY <2>2, <2>3, <2>4 DEF Successor, Records, OutcomeSteps
    <2> HIDE DEF c
    <2>7. QED
      BY <1>1, <1>3, <1>5, <2>1, <2>4, <2>5, <2>6, AppendFrame DEF c, d
  <1>6. QED
    BY <1>4, <1>5

\* The route goes on to the analysis, or to the decision when there is one.
LEMMA RouteOnInvariant ==
  ASSUME IInv, NEW r \in Runtimes, RouteOn(r)
  PROVE  IInv'
  <1> DEFINE c == mem[r].cursor
  <1>1. PICK step \in {"decide", "analyze"} :
          /\ Holds(r, "stepped", [c EXCEPT !.step = step, !.failure = "none"])
          /\ Works(r, "route") /\ Unaffected /\ (step = "decide" => c.assessment # None)
    BY DEF RouteOn, Ends
  <1> DEFINE d == [c EXCEPT !.step = step, !.failure = "none"]
  <1>2. pc[r] \in Working /\ c.step = "route" /\ dispatches = 0 /\ ~c.intent
    BY <1>1, AtWork DEF Steps
  <1>3. c \in Cursor /\ Sound(c)
    BY <1>2, Held
  <1>4. d \in Cursor
    BY <1>3 DEF Cursor, Failures, Steps
  <1>5. Sound(d) /\ Successor(c, d) /\ Phase("stepped", d) /\ "stepped" \in Working
    BY <1>1, <1>2, <1>3 DEF Sound, Successor, Phase, Cursor, SourcesValid, Working
  <1> HIDE DEF c, d
  <1>6. QED
    BY <1>1, <1>2, <1>4, <1>5, QuietFrame DEF c, d

\* The analysis is made: the decision before it is void.
LEMMA AnalyzeInvariant ==
  ASSUME IInv, NEW r \in Runtimes, Analyze(r)
  PROVE  IInv'
  <1> DEFINE c == mem[r].cursor
             d == [c EXCEPT !.decision = None, !.review = "none", !.reviewed = None,
                            !.response = None]
  <1>1. Works(r, "analyze") /\ Holds(r, "assessed", d) /\ Unaffected
    BY DEF Analyze
  <1>2. pc[r] \in Working /\ c.step = "analyze" /\ dispatches = 0 /\ ~c.intent
    BY <1>1, AtWork DEF Steps
  <1>3. c \in Cursor /\ Sound(c)
    BY <1>2, Held
  <1>4. d \in Cursor
    BY <1>3 DEF Cursor, Artifact, Outcomes
  <1>5. Sound(d) /\ Successor(c, d) /\ Phase("assessed", d) /\ "assessed" \in Working
    BY <1>2, <1>3 DEF Sound, Successor, Phase, Cursor, Working
  <1> HIDE DEF c, d
  <1>6. QED
    BY <1>1, <1>2, <1>4, <1>5, QuietFrame DEF c

\* The decision is made, for the snapshot that was assessed.
LEMMA DecideInvariant ==
  ASSUME IInv, NEW r \in Runtimes, NEW more \in BOOLEAN, Decide(r, more)
  PROVE  IInv'
  <1> DEFINE c == mem[r].cursor
  <1>1. PICK step \in {"plan", "govern"} :
          /\ Holds(r, "stepped", [c EXCEPT !.decision = c.anchor, !.step = step,
                                           !.failure = "none"])
          /\ Works(r, "decide") /\ Unaffected
    BY DEF Decide, Ends
  <1> DEFINE d == [c EXCEPT !.decision = c.anchor, !.step = step, !.failure = "none"]
  <1>2. pc[r] \in Working /\ c.step = "decide" /\ dispatches = 0 /\ ~c.intent
    BY <1>1, AtWork DEF Steps
  <1>3. c \in Cursor /\ Sound(c) /\ c.anchor \in Artifact
    BY <1>2, Held, CursorFields, Bounds
  <1>4. d \in Cursor
    BY <1>3 DEF Cursor, Failures, Steps
  <1>5. Sound(d) /\ Successor(c, d) /\ Phase("stepped", d) /\ "stepped" \in Working
    BY <1>1, <1>2, <1>3 DEF Sound, Successor, Phase, Cursor, SourcesValid, Working
  <1> HIDE DEF c, d
  <1>6. QED
    BY <1>1, <1>2, <1>4, <1>5, QuietFrame DEF c, d

\* GOVERN and ACT wait for their inputs.
LEMMA WaitsInvariant ==
  ASSUME IInv, NEW r \in Runtimes, GovernWaits(r) \/ ActWaits(r)
  PROVE  IInv'
  <1> DEFINE c == mem[r].cursor
             d == [c EXCEPT !.failure = "none"]
  <1>1. PICK step \in {"govern", "act"} : Works(r, step)
    BY DEF GovernWaits, ActWaits
  <1>2. Holds(r, "stepped", d) /\ Unaffected
    BY DEF GovernWaits, ActWaits, Ends
  <1>3. /\ pc[r] \in Working /\ c.step \in {"govern", "act"} /\ dispatches = 0
    BY <1>1, AtWork DEF Steps
  <1>4. c \in Cursor /\ Sound(c)
    BY <1>3, Held
  <1>5. d \in Cursor
    BY <1>4 DEF Cursor, Failures
  <1>6. Sound(d) /\ Successor(c, d) /\ Phase("stepped", d) /\ "stepped" \in Working
    BY <1>3, <1>4 DEF Sound, Successor, Phase, Cursor, SourcesValid, Working
  <1> HIDE DEF c, d
  <1>7. QED
    BY <1>2, <1>3, <1>5, <1>6, QuietFrame DEF c

\* A rejecting review ends the workflow.
LEMMA GovernRejectedInvariant ==
  ASSUME IInv, NEW r \in Runtimes, GovernRejected(r)
  PROVE  IInv'
  <1> DEFINE c == mem[r].cursor
             d == [c EXCEPT !.step = "complete", !.failure = "governance_blocked"]
  <1>1. Works(r, "govern") /\ Holds(r, "stepped", Terminated(c)) /\ Unaffected
    BY DEF GovernRejected, Ends
  <1>2. pc[r] \in Working /\ c.step = "govern" /\ dispatches = 0 /\ ~c.intent
    BY <1>1, AtWork DEF Steps
  <1>3. c \in Cursor /\ Sound(c) /\ Terminated(c) = d
    BY <1>2, Held DEF Terminated, StageFailure
  <1>4. d \in Cursor
    BY <1>3 DEF Cursor, Failures, Steps
  <1>5. Sound(d) /\ Successor(c, d) /\ Phase("stepped", d) /\ "stepped" \in Working
    BY <1>2, <1>3 DEF Sound, Successor, Phase, Cursor, SourcesValid, Working
  <1> HIDE DEF c, d
  <1>6. QED
    BY <1>1, <1>2, <1>3, <1>4, <1>5, QuietFrame DEF c

\* The response plan is made, for the reviewed snapshot.
LEMMA PlanResponseInvariant ==
  ASSUME IInv, NEW r \in Runtimes, PlanResponse(r)
  PROVE  IInv'
  <1> DEFINE c == mem[r].cursor
             d == [c EXCEPT !.response = c.anchor, !.failure = "none"]
  <1>1. Works(r, "govern") /\ Holds(r, "stepped", d) /\ Unaffected
    BY DEF PlanResponse, Ends
  <1>2. pc[r] \in Working /\ c.step = "govern" /\ dispatches = 0 /\ ~c.intent
    BY <1>1, AtWork DEF Steps
  <1>3. c \in Cursor /\ Sound(c) /\ c.anchor \in Artifact
    BY <1>2, Held, CursorFields, Bounds
  <1>4. d \in Cursor
    BY <1>3 DEF Cursor, Failures
  <1>5. Sound(d) /\ Successor(c, d) /\ Phase("stepped", d) /\ "stepped" \in Working
    BY <1>2, <1>3 DEF Sound, Successor, Phase, Cursor, SourcesValid, Working
  <1> HIDE DEF c, d
  <1>6. QED
    BY <1>1, <1>2, <1>4, <1>5, QuietFrame DEF c

\* A promotion is used: an approval is missing, or the intent is created next.
LEMMA PromotionInvariant ==
  ASSUME IInv, NEW r \in Runtimes, ApprovalMissing(r) \/ Authorize(r)
  PROVE  IInv'
  <1> DEFINE c == mem[r].cursor
             blocked == [c EXCEPT !.promoted = TRUE, !.failure = "governance_blocked"]
             ready == [c EXCEPT !.promoted = TRUE]
  <1>1. /\ Works(r, "govern") /\ Unaffected
        /\ c.response # None /\ c.review \notin {"none", "rejected"}
        /\ Holds(r, "stepped", blocked) \/ Holds(r, "intending", ready)
    BY DEF ApprovalMissing, Authorize, Ends
  <1>2. /\ pc[r] \in Working /\ c.step = "govern" /\ dispatches = 0 /\ ~c.intent
        /\ ~incident.closed
    BY <1>1, AtWork DEF Steps
  <1>3. c \in Cursor /\ Sound(c)
    BY <1>2, Held
  <1>4. blocked \in Cursor /\ ready \in Cursor
    BY <1>3 DEF Cursor, Failures
  <1>5. Sound(blocked) /\ Successor(c, blocked) /\ Phase("stepped", blocked)
    BY <1>2, <1>3 DEF Sound, Successor, Phase, Cursor, SourcesValid
  <1>6. Sound(ready) /\ Successor(c, ready)
    BY <1>2, <1>3 DEF Sound, Successor, Cursor, SourcesValid
  <1>7. Phase("intending", ready) /\ "stepped" \in Working /\ "intending" \in Working
    BY <1>1, <1>2, <1>3 DEF Phase, Cursor, Outcomes, Working
  <1> HIDE DEF c, blocked, ready
  <1>8. QED
    BY <1>1, <1>2, <1>4, <1>5, <1>6, <1>7, QuietFrame DEF c

\* The intent is created from a cursor whose analysis, decision, review and response are of the
\* same snapshot, or the one the ledger holds is returned.
LEMMA CreateIntentInvariant ==
  ASSUME IInv, NEW r \in Runtimes, NEW commit \in Commit, CreateIntent(r, commit)
  PROVE  IInv'
  <1> DEFINE c == mem[r].cursor
             d == [c EXCEPT !.intent = TRUE, !.step = "act", !.failure = "none"]
  <1>1. /\ pc[r] = "intending"
        /\ UNCHANGED <<incident, checkpoint, begun, plans, collected, dispatches>>
        /\ ledger' \in {ledger, "pending"}
        /\ ledger # "absent" => ledger' = ledger /\ basis' = basis
        /\ ledger = "absent" => basis' = c
        /\ IF commit = "ok" THEN Holds(r, "stepped", d) ELSE Blocks(r)
    BY DEF CreateIntent, Ends
  <1>2. pc[r] \in Working /\ "stepped" \in Working
    BY <1>1 DEF Working
  <1>3. /\ c \in Cursor /\ Sound(c) /\ Records(c) /\ Phase("intending", c)
        /\ TypeOK /\ IntentIsReviewed /\ DispatchedOnce /\ InvestigationBounded
    BY <1>1, <1>2, Held DEF IInv
  <1>4. /\ c.review \in {"confirm", "investigate"} /\ c.promoted /\ c.step = "govern"
        /\ c.decision = c.anchor /\ c.reviewed = c.anchor /\ c.response = c.anchor
        /\ c.assessment = c.anchor /\ ~(incident.closed /\ c.anchor = incident.anchor)
    BY <1>3 DEF Phase, Sound, SourcesValid
  <1> HIDE DEF c
  <1>5. IntentIsReviewed'
    <2>1. CASE ledger = "absent"
      BY <1>1, <1>4, <2>1 DEF IntentIsReviewed
    <2>2. CASE ledger # "absent"
      BY <1>1, <1>3, <2>2 DEF IntentIsReviewed
    <2>3. QED
      BY <2>1, <2>2
  <1>6. /\ incident' \in [anchor : Anchors, closed : BOOLEAN] /\ ledger' \in Lifecycles
        /\ basis' \in Cursor /\ Moves
    BY <1>1, <1>3 DEF TypeOK, Moves, Lifecycles
  <1>7. CASE commit # "ok"
    BY <1>1, <1>5, <1>6, <1>7, StopFrame DEF Blocks
  <1>8. CASE commit = "ok"
    <2>1. /\ d \in Cursor /\ d.step = "act" /\ d.anchor = c.anchor
          /\ d.assessment = c.anchor /\ d.decision = c.anchor /\ d.review = c.review
          /\ d.reviewed = c.anchor /\ d.response = c.anchor
          /\ d.rounds = c.rounds /\ d.attempted = c.attempted
      <3>1. d \in Cursor
        BY <1>3 DEF Cursor, Steps, Failures
      <3>2. QED
        BY <1>3, <1>4, <3>1 DEF Cursor
    <2>2. c.anchor <= incident.anchor /\ c.anchor # None /\ c.rounds \in Nat
      BY <1>3, CursorFields DEF Sound
    <2> HIDE DEF d
    <2>3. PICK e \in Cursor : e = d
      BY <2>1
    <2>4. Sound(e)' /\ Phase("stepped", e)'
      BY <1>1, <1>4, <2>1, <2>2, <2>3 DEF Sound, SourcesValid, Phase
    <2>5. Records(e)' /\ Successor(c, e)
      BY <1>1, <1>3, <1>4, <2>1, <2>2, <2>3 DEF Records, Successor, OutcomeSteps
    <2>6. InvestigationBounded' /\ DispatchedOnce' /\ plans' \in Nat /\ dispatches' \in Nat
          /\ collected' \in [Inputs -> Nat]
      BY <1>1, <1>3 DEF InvestigationBounded, DispatchedOnce, TypeOK
    <2>7. QED
      BY <1>1, <1>2, <1>5, <1>6, <1>8, <2>3, <2>4, <2>5, <2>6, WorkFrame DEF c
  <1>9. QED
    BY <1>7, <1>8

\* A pending intent is dispatched: RECOVER is selected, so it is not dispatched again.
LEMMA DispatchInvariant ==
  ASSUME IInv, NEW r \in Runtimes, Dispatch(r)
  PROVE  IInv'
  <1> DEFINE c == mem[r].cursor
             d == [c EXCEPT !.step = "recover"]
  <1>1. /\ Works(r, "act") /\ dispatches' = dispatches + 1 /\ Holds(r, "dispatching", d)
        /\ UNCHANGED <<incident, checkpoint, ledger, begun, plans, collected, basis>>
    BY DEF Dispatch
  <1>2. /\ pc[r] \in Working /\ c.step = "act" /\ dispatches = 0 /\ "dispatching" \in Working
    BY <1>1, AtWork DEF Steps, Working
  <1>3. /\ c \in Cursor /\ Sound(c) /\ Records(c)
        /\ TypeOK /\ IntentIsReviewed /\ DispatchedOnce /\ InvestigationBounded
    BY <1>2, Held DEF IInv
  <1>4. d \in Cursor
    BY <1>3 DEF Cursor, Steps
  <1>5. /\ Sound(d) /\ Successor(c, d) /\ d.step = "recover" /\ d.rounds = c.rounds
        /\ d.attempted = c.attempted
    BY <1>2, <1>3 DEF Sound, Successor, Cursor, SourcesValid, OutcomeSteps
  <1> HIDE DEF c, d
  <1>6. PICK e \in Cursor : e = d
    BY <1>4
  <1>7. Sound(e)' /\ Phase("dispatching", e)' /\ Records(e)'
    BY <1>1, <1>3, <1>5, <1>6 DEF Sound, Phase, Records, SourcesValid, OutcomeSteps
  <1>8. IntentIsReviewed' /\ DispatchedOnce' /\ InvestigationBounded'
    BY <1>1, <1>2, <1>3 DEF IntentIsReviewed, DispatchedOnce, InvestigationBounded
  <1>9. /\ incident' \in [anchor : Anchors, closed : BOOLEAN] /\ ledger' \in Lifecycles
        /\ basis' \in Cursor /\ plans' \in Nat /\ collected' \in [Inputs -> Nat]
        /\ dispatches' \in Nat /\ Moves
    BY <1>1, <1>2, <1>3 DEF TypeOK, Moves
  <1>10. QED
    BY <1>1, <1>2, <1>5, <1>6, <1>7, <1>8, <1>9, WorkFrame DEF c

\* What the workflow makes of the execution record.
LEMMA OutcomeInvariant ==
  ASSUME IInv, NEW r \in Runtimes, pc[r] \in Working,
         mem[r].cursor.step \in {"act", "recover", "evaluate"}, Unaffected,
         NEW current \in Steps,
         \/ Ends(r, OutcomeRead(mem[r].cursor, current))
         \/ Ends(r, OutcomeUnavailable(mem[r].cursor))
  PROVE  IInv'
  <1> DEFINE c == mem[r].cursor
  <1>1. c \in Cursor /\ Sound(c) /\ TypeOK
    BY Held DEF IInv
  <1>2. PICK step \in {"complete", "evaluate", "recover"},
             failure \in {"execution_failed", "none", "execution_uncertain"} :
          /\ Ends(r, [c EXCEPT !.step = step, !.failure = failure])
          /\ failure = "none" /\ step = "complete" => ledger = "succeeded"
          /\ failure = "execution_failed" /\ step = "complete" => ledger = "failed"
    <2>1. CASE Ends(r, OutcomeUnavailable(c))
      BY <2>1 DEF OutcomeUnavailable
    <2>2. CASE Ends(r, OutcomeRead(c, current)) /\ Settled
      BY <2>2 DEF OutcomeRead, Settled
    <2>3. CASE Ends(r, OutcomeRead(c, current)) /\ ~Settled
      BY <2>3 DEF OutcomeRead
    <2>4. QED
      BY <2>1, <2>2, <2>3
  <1> DEFINE d == [c EXCEPT !.step = step, !.failure = failure]
  <1>3. d \in Cursor
    BY <1>1 DEF Cursor, Steps, Failures
  <1>4. /\ Sound(d) /\ Successor(c, d) /\ Phase("stepped", d) /\ d.step \in OutcomeSteps
    BY <1>1, <1>2 DEF Sound, Successor, Phase, Cursor, SourcesValid, OutcomeSteps
  <1>5. Holds(r, "stepped", d) /\ "stepped" \in Working
    BY <1>2 DEF Ends, Working
  <1> HIDE DEF c, d
  <1>6. QED
    BY <1>3, <1>4, <1>5, QuietFrame DEF c

\* The dispatch is over, or the record is looked at.
LEMMA ReadsInvariant ==
  ASSUME IInv, NEW r \in Runtimes, DispatchEnds(r) \/ ReadOutcome(r)
  PROVE  IInv'
  <1> DEFINE c == mem[r].cursor
  <1>1. CASE DispatchEnds(r)
    <2>1. /\ Ends(r, OutcomeRead(c, "act")) \/ Ends(r, OutcomeUnavailable(c))
          /\ Unaffected /\ "act" \in Steps
      BY <1>1 DEF DispatchEnds, Steps
    <2>2. CASE pc[r] = "dispatching"
      <3>1. pc[r] \in Working
        BY <2>2 DEF Working
      <3>2. c.step = "recover"
        BY <2>2, <3>1, Held DEF Phase
      <3>3. QED
        BY <2>1, <3>1, <3>2, OutcomeInvariant
    <2>3. CASE Works(r, "act")
      <3>1. pc[r] \in Working /\ c.step = "act"
        BY <2>1, <2>3, AtWork
      <3>2. QED
        BY <2>1, <3>1, OutcomeInvariant
    <2>4. QED
      BY <1>1, <2>2, <2>3 DEF DispatchEnds
  <1>2. CASE ReadOutcome(r)
    <2>1. /\ Ends(r, OutcomeRead(c, c.step)) \/ Ends(r, OutcomeUnavailable(c))
          /\ Unaffected /\ pc[r] \in Working /\ c.step \in {"recover", "evaluate"}
          /\ c.step \in Steps
      BY <1>2 DEF ReadOutcome, At, Steps, Working
    <2>2. QED
      BY <2>1, OutcomeInvariant
  <1>3. QED
    BY <1>1, <1>2

\* A finished workflow stays as it is.
LEMMA TerminalInvariant ==
  ASSUME IInv, NEW r \in Runtimes, Terminal(r)
  PROVE  IInv'
  <1> DEFINE c == mem[r].cursor
  <1>1. /\ pc[r] \in Working /\ c.step = "complete" /\ Holds(r, "stepped", c) /\ Unaffected
        /\ "stepped" \in Working
    BY DEF Terminal, At, Ends, Working
  <1>2. c \in Cursor /\ Sound(c) /\ c.rounds \in Nat
    BY <1>1, Held, CursorFields
  <1>3. Successor(c, c) /\ Phase("stepped", c) /\ c.step \in OutcomeSteps
    BY <1>1, <1>2 DEF Successor, Phase, OutcomeSteps
  <1> HIDE DEF c
  <1>4. QED
    BY <1>1, <1>2, <1>3, QuietFrame DEF c

-----------------------------------------------------------------------------
(* The inductive invariant and the properties.                             *)

\* Initially nothing is stored and nothing was done.
LEMMA InitInvariant == Init => IInv
  <1> SUFFICES ASSUME Init
               PROVE  IInv
    OBVIOUS
  <1>1. /\ 0 \in Anchors /\ 0 \in 0 .. MaxRevision /\ MaxRounds \in Nat
        /\ Fresh(0) \in Cursor
    BY Bounds, FreshCursor DEF Anchors
  <1>2. TypeOK
    <2>1. checkpoint \in [stored : BOOLEAN, revision : 0..MaxRevision,
                          claim : Runtimes \cup {NoRuntime}, cursor : Cursor]
      BY <1>1 DEF Init, NoCheckpoint
    <2>2. mem \in [Runtimes -> [revision : 0..MaxRevision, cursor : Cursor]]
      BY <1>1 DEF Init, NoWorkflow
    <2>3. QED
      BY <1>1, <2>1, <2>2 DEF Init, TypeOK, Lifecycles
  <1>3. ClaimIsHeld /\ BegunWithClaim
    BY DEF Init, ClaimIsHeld, BegunWithClaim, Working
  <1>4. CursorsOK
    <2>1. checkpoint.cursor = Fresh(0) /\ \A r \in Runtimes : mem[r].cursor = Fresh(0)
      BY DEF Init, NoCheckpoint, NoWorkflow
    <2>2. Sound(Fresh(0))
      BY <1>2, Forgotten
    <2>3. Records(Fresh(0))
      BY <1>1, FreshCursor DEF Init, Records
    <2>4. \A r \in Runtimes : pc[r] \notin Working
      BY DEF Init, Working
    <2>5. QED
      BY <2>1, <2>2, <2>3, <2>4 DEF CursorsOK
  <1>5. StepBegunOnce /\ InvestigationBounded /\ IntentIsReviewed /\ DispatchedOnce
    BY <1>1 DEF Init, StepBegunOnce, InvestigationBounded, IntentIsReviewed, DispatchedOnce
  <1>6. QED
    BY <1>2, <1>3, <1>4, <1>5 DEF IInv

\* A runtime fails, is cancelled or crashes.
LEMMA FailureInvariant ==
  ASSUME IInv, NEW r \in Runtimes, Fails(r) \/ Crash(r)
  PROVE  IInv'
  <1>1. CASE Fails(r)
    BY <1>1, StopInvariant DEF Fails, Blocks
  <1>2. CASE Crash(r)
    BY <1>2, StopInvariant DEF Crash
  <1>3. QED
    BY <1>1, <1>2

\* Every step of a workflow.
LEMMA StepInvariant ==
  ASSUME IInv, NEW r \in Runtimes, Step(r)
  PROVE  IInv'
  BY IncidentRefusesInvariant, InvalidInputInvariant, StepRaisesInvariant,
     AcceptReviewInvariant, ObserveInvariant, RefusedInvariant, PlanInvariant,
     CollectInvariant, RouteOnInvariant, AnalyzeInvariant, DecideInvariant, WaitsInvariant,
     GovernRejectedInvariant, PlanResponseInvariant, PromotionInvariant, DispatchInvariant,
     ReadsInvariant, TerminalInvariant DEF Step

\* Every step preserves the inductive invariant.
LEMMA NextInvariant == IInv /\ [Next]_vars => IInv'
  <1> SUFFICES ASSUME IInv, [Next]_vars
               PROVE  IInv'
    OBVIOUS
  <1>1. CASE Next
    <2>1. CASE IncidentMoves \/ LedgerMoves
      BY <2>1, IncidentMovesInvariant, LedgerMovesInvariant
    <2>2. ASSUME NEW r \in Runtimes, Restore(r) \/ Fails(r) \/ Crash(r) \/ Step(r)
          PROVE  IInv'
      BY <2>2, RestoreInvariant, FailureInvariant, StepInvariant
    <2>3. ASSUME NEW r \in Runtimes, NEW commit \in Commit,
                 \/ Start(r, commit) \/ Begin(r, commit) \/ Publish(r, commit)
                 \/ AppendEvidence(r, commit) \/ CreateIntent(r, commit)
                 \/ \E facts \in BOOLEAN : AppendAssessment(r, facts, commit)
          PROVE  IInv'
      BY <2>3, StartInvariant, BeginInvariant, PublishInvariant, AppendEvidenceInvariant,
         CreateIntentInvariant, AppendAssessmentInvariant
    <2>4. QED
      BY <1>1, <2>1, <2>2, <2>3 DEF Next
  <1>2. CASE UNCHANGED vars
    <2> USE <1>2 DEF vars, ghosts, IInv
    <2>1. TypeOK' /\ ClaimIsHeld' /\ BegunWithClaim'
      BY DEF TypeOK, ClaimIsHeld, BegunWithClaim
    <2>2. CursorsOK'
      BY DEF CursorsOK, Sound, SourcesValid, Phase, Records, Successor
    <2>3. QED
      BY <2>1, <2>2 DEF StepBegunOnce, InvestigationBounded, IntentIsReviewed, DispatchedOnce
  <1>3. QED
    BY <1>1, <1>2

\* The inductive invariant holds throughout.
THEOREM Invariance == Spec => []IInv
  BY InitInvariant, NextInvariant, PTL DEF Spec

\* The stores and the runtimes hold values of their types.
THEOREM TypeCorrectness == Spec => []TypeOK
  <1>1. IInv => TypeOK
    BY DEF IInv
  <1>2. QED
    BY <1>1, Invariance, PTL

\* Work on a checkpoint revision is begun at most once, by whatever runtimes compete for it,
\* crash over it or do not see their claim committed.
THEOREM ClaimedOnce == Spec => []StepBegunOnce
  <1>1. IInv => StepBegunOnce
    BY DEF IInv
  <1>2. QED
    BY <1>1, Invariance, PTL

\* No read-only input is executed twice and the planner is asked within its budget, across every
\* crash and restart.
THEOREM BoundedInvestigation == Spec => []InvestigationBounded
  <1>1. IInv => InvestigationBounded
    BY DEF IInv
  <1>2. QED
    BY <1>1, Invariance, PTL

\* An execution intent was created for a review, a decision and a response plan of one snapshot.
THEOREM ReviewedIntent == Spec => []IntentIsReviewed
  <1>1. IInv => IntentIsReviewed
    BY DEF IInv
  <1>2. QED
    BY <1>1, Invariance, PTL

\* The workflow starts the executor at most once.
THEOREM SingleDispatch == Spec => []DispatchedOnce
  <1>1. IInv => DispatchedOnce
    BY DEF IInv
  <1>2. QED
    BY <1>1, Invariance, PTL

\* A complete workflow that created an intent reports what the ledger says.
THEOREM RealCompletion == Spec => []CompletionIsReal
  <1>1. IInv => CompletionIsReal
    BY DEF IInv, CursorsOK, Sound, CompletionIsReal
  <1>2. QED
    BY <1>1, Invariance, PTL

\* A step leaves the stored workflow alone, starts it, or publishes its successor.
LEMMA SuccessorStep ==
  ASSUME IInv, [Next]_vars
  PROVE  \/ checkpoint'.revision = checkpoint.revision /\ checkpoint'.cursor = checkpoint.cursor
         \/ checkpoint'.revision = checkpoint.revision /\ checkpoint.cursor.step # "complete"
         \/ /\ checkpoint'.revision = checkpoint.revision + 1
            /\ Successor(checkpoint.cursor, checkpoint'.cursor)
  <1>1. CASE UNCHANGED checkpoint
    BY <1>1
  <1>2. ASSUME NEW r \in Runtimes, NEW commit \in Commit, Start(r, commit)
        PROVE  \/ checkpoint' = checkpoint
               \/ checkpoint'.revision = checkpoint.revision /\ checkpoint.cursor.step # "complete"
    <2>1. CASE checkpoint.stored
      BY <1>2, <2>1 DEF Start
    <2>2. CASE ~checkpoint.stored
      <3>1. checkpoint = NoCheckpoint /\ NoCheckpoint.cursor = Fresh(0) /\ NoCheckpoint.revision = 0
        BY <2>2 DEF IInv, ClaimIsHeld, NoCheckpoint
      <3>2. checkpoint.cursor.step = "observe" /\ checkpoint.revision = 0
        BY <3>1 DEF Fresh
      <3>3. checkpoint' = checkpoint \/ checkpoint'.revision = 0
        BY <1>2 DEF Start, NoCheckpoint
      <3>4. QED
        BY <3>2, <3>3
    <2>3. QED
      BY <2>1, <2>2
  <1>3. ASSUME NEW r \in Runtimes, NEW commit \in Commit, Begin(r, commit)
        PROVE  checkpoint'.revision = checkpoint.revision /\ checkpoint'.cursor = checkpoint.cursor
    <2>1. checkpoint' = checkpoint \/ checkpoint' = [checkpoint EXCEPT !.claim = r]
      BY <1>3 DEF Begin
    <2>2. QED
      BY <2>1 DEF IInv, TypeOK
  <1>4. ASSUME NEW r \in Runtimes, NEW commit \in Commit, Publish(r, commit)
        PROVE  \/ checkpoint' = checkpoint
               \/ /\ checkpoint'.revision = checkpoint.revision + 1
                  /\ Successor(checkpoint.cursor, checkpoint'.cursor)
    <2>1. /\ pc[r] \in Working /\ checkpoint.revision = mem[r].revision
          /\ \/ checkpoint' = checkpoint
             \/ checkpoint' = [checkpoint EXCEPT !.revision = mem[r].revision + 1,
                                                 !.claim = NoRuntime, !.cursor = mem[r].cursor]
      BY <1>4 DEF Publish, Working
    <2>2. Successor(checkpoint.cursor, mem[r].cursor)
      BY <2>1, Held
    <2>3. CASE checkpoint' # checkpoint
      <3>1. checkpoint'.revision = checkpoint.revision + 1 /\ checkpoint'.cursor = mem[r].cursor
        BY <2>1, <2>3 DEF IInv, TypeOK
      <3>2. QED
        BY <2>2, <3>1 DEF Successor
    <2>4. QED
      BY <2>3
  <1>5. CASE Next
    <2>1. ASSUME NEW r \in Runtimes, Step(r)
          PROVE  UNCHANGED checkpoint
      BY <2>1 DEF Step, Unaffected, IncidentRefuses, InvalidInput, StepRaises, AcceptReview,
                  Observe, PlanRefused, Plan, RepeatRefused, Collect, RouteOn, Analyze, Decide,
                  GovernWaits, GovernRejected, PlanResponse, ApprovalMissing, Authorize, ActWaits,
                  Dispatch, DispatchEnds, ReadOutcome, Terminal
    <2>2. ASSUME NEW r \in Runtimes, Restore(r) \/ Fails(r) \/ Crash(r)
          PROVE  UNCHANGED checkpoint
      BY <2>2 DEF Restore, Fails, Crash
    <2>3. ASSUME NEW r \in Runtimes, NEW commit \in Commit,
                 \/ AppendEvidence(r, commit) \/ CreateIntent(r, commit)
                 \/ \E facts \in BOOLEAN : AppendAssessment(r, facts, commit)
          PROVE  UNCHANGED checkpoint
      BY <2>3 DEF AppendEvidence, CreateIntent, AppendAssessment
    <2>4. CASE IncidentMoves \/ LedgerMoves
      BY <1>1, <2>4 DEF IncidentMoves, LedgerMoves
    <2>5. ASSUME NEW r \in Runtimes, NEW commit \in Commit,
                 Start(r, commit) \/ Begin(r, commit) \/ Publish(r, commit)
          PROVE  \/ checkpoint' = checkpoint
                 \/ /\ checkpoint'.revision = checkpoint.revision
                    /\ checkpoint'.cursor = checkpoint.cursor
                 \/ /\ checkpoint'.revision = checkpoint.revision
                    /\ checkpoint.cursor.step # "complete"
                 \/ /\ checkpoint'.revision = checkpoint.revision + 1
                    /\ Successor(checkpoint.cursor, checkpoint'.cursor)
      BY <2>5, <1>2, <1>3, <1>4
    <2>6. QED
      BY <1>1, <1>5, <2>1, <2>2, <2>3, <2>4, <2>5 DEF Next
  <1>6. QED
    BY <1>1, <1>5 DEF vars

\* A published checkpoint is the successor of the one before: nothing the loop guard counts is
\* taken back, and a finished workflow stays finished.
THEOREM PublicationOrder == Spec => PublishedIsSuccessor
  <1> DEFINE old == checkpoint.cursor
             new == checkpoint'.cursor
  <1>1. IInv /\ [Next]_vars =>
          [/\ checkpoint'.revision # checkpoint.revision =>
                /\ checkpoint'.revision = checkpoint.revision + 1
                /\ old.attempted \subseteq new.attempted /\ old.rounds <= new.rounds
           /\ old.step = "complete" => new.step = "complete" /\ new.failure = old.failure]_vars
    BY SuccessorStep DEF Successor
  <1>2. QED
    BY <1>1, Invariance, PTL DEF Spec, PublishedIsSuccessor

=============================================================================

----------------------- MODULE RestrictedResponseProofs -----------------------
(***************************************************************************)
(* Theorems about RestrictedResponse for any findings and policies: one    *)
(* lemma per group of actions shows that IInv is inductive, the safety     *)
(* properties and the refinement follow from it.                           *)
(***************************************************************************)
EXTENDS RestrictedResponse, TLAPS

\* A stopped program without history or marker satisfies the invariant.
LEMMA InitInvariant == Init => IInv
  <1> SUFFICES ASSUME Init
               PROVE  IInv
    OBVIOUS
  <1>1. TypeOK
    BY DEF Init, TypeOK, Statuses, Executing
  <1>2. OneAttempt /\ OneWrite
    BY DEF Init, OneAttempt, OneWrite, Uncertain, Completed, Executing
  <1>3. MarkerFollows
    BY DEF Init, MarkerFollows, MarkerIsExpected
  <1>4. QED
    BY <1>1, <1>2, <1>3 DEF IInv

\* What a candidate finds and what it leaves are two different contents.
LEMMA BeforeAndAfter ==
  ASSUME NEW c \in Candidates
  PROVE  /\ Before(c) \in Contents /\ After(c) \in Contents /\ Before(c) # After(c)
         /\ c # NoCandidate
  BY CandidateAssumption DEF Before, After, Contents

\* An execution in progress has a candidate, and it is the only open attempt.
LEMMA Attempt ==
  ASSUME IInv, pc \in Executing
  PROVE  /\ current \in Candidates /\ status[current] = "STARTED"
         /\ \A c \in Candidates : status[c] # "UNKNOWN"
  BY DEF IInv, TypeOK, OneAttempt, Uncertain

\* Steps that touch neither history nor marker: starting, stopping, dying, a new policy
\* and the validations before the write.
LEMMA QuietStep ==
  ASSUME IInv, Start \/ Stop \/ Crash \/ PolicyChanges \/ Revalidate
  PROVE  IInv'
  <1> USE DEF IInv, history, world, Goes
  <1>1. UNCHANGED <<status, completed, registered, conflict, marker, writes, tampered>>
    BY DEF Start, Stop, Crash, PolicyChanges, Revalidate
  <1>2. TypeOK'
    BY DEF TypeOK, Start, Stop, Crash, PolicyChanges, Revalidate, Executing
  <1>3. OneAttempt'
    BY <1>1 DEF OneAttempt, Uncertain, Start, Stop, Crash, PolicyChanges, Revalidate, Executing
  <1>4. OneWrite'
    BY <1>1 DEF OneWrite, Completed, Start, Stop, Crash, PolicyChanges, Revalidate, Executing
  <1>5. MarkerFollows'
    BY <1>1 DEF MarkerFollows, MarkerIsExpected, Expected, Uncertain,
                Start, Stop, Crash, PolicyChanges, Revalidate
  <1>6. QED
    BY <1>2, <1>3, <1>4, <1>5

\* Preparing the marker: it is created before it is registered, and registered as created.
LEMMA PrepareStep ==
  ASSUME IInv, CreateMarker \/ (\E commit \in Commit : Register(commit))
  PROVE  IInv'
  <1> USE DEF IInv, history, world, Goes, CreateMarker, Register, Applied
  <1>1. TypeOK'
    BY DEF TypeOK, Executing, Contents
  <1>2. OneAttempt' /\ OneWrite'
    BY DEF OneAttempt, OneWrite, Uncertain, Completed, Executing
  <1>3. MarkerFollows'
    BY DEF MarkerFollows, MarkerIsExpected, Expected, Uncertain
  <1>4. QED
    BY <1>1, <1>2, <1>3

\* An outsider changes only what the invariant says of an untouched marker.
LEMMA TamperStep ==
  ASSUME IInv, Tamper
  PROVE  IInv'
  <1> USE DEF IInv, history, Tamper
  <1>1. TypeOK'
    BY DEF TypeOK, Contents
  <1>2. OneAttempt' /\ OneWrite' /\ MarkerFollows'
    BY DEF OneAttempt, OneWrite, MarkerFollows, Uncertain, Completed, Executing
  <1>3. QED
    BY <1>1, <1>2

\* A request or a review moves a candidate that has no attempt to a status without one.
LEMMA ReviewStep ==
  ASSUME IInv, NEW c \in Candidates, NEW commit \in Commit,
         \/ Request(c, commit)
         \/ \E decision \in {"APPROVED", "REJECTED"} : Review(c, decision, commit)
  PROVE  IInv'
  <1> USE DEF IInv
  <1>1. PICK s \in {"PENDING_APPROVAL", "APPROVED", "REJECTED"} :
          /\ status[c] \in {"ABSENT", "PENDING_APPROVAL"}
          /\ status' = status \/ status' = [status EXCEPT ![c] = s]
          /\ UNCHANGED <<completed, registered, conflict, runtime, marker, pc, current,
                         policy, writes, tampered>>
    BY DEF Request, Review, Save, world
  <1>2. TypeOK'
    BY <1>1 DEF TypeOK, Statuses, Executing
  <1>3. \A d \in Candidates : Uncertain(d)' <=> Uncertain(d)
    BY <1>1 DEF Uncertain, TypeOK
  <1>4. OneAttempt'
    BY <1>1, <1>3 DEF OneAttempt, TypeOK, Executing
  <1>5. OneWrite'
    BY <1>1 DEF OneWrite, Completed, TypeOK, Executing
  <1>6. MarkerFollows'
    BY <1>1, <1>3 DEF MarkerFollows, MarkerIsExpected, Expected
  <1>7. QED
    BY <1>2, <1>4, <1>5, <1>6

\* A reservation opens an attempt where _verify found no other.
LEMMA ReserveStep ==
  ASSUME IInv, NEW c \in Candidates, NEW commit \in Commit, Reserve(c, commit)
  PROVE  IInv'
  <1> USE BeforeAndAfter DEF IInv, Reserve
  <1>1. /\ registered /\ ~conflict /\ pc = "serving" /\ status[c] = "APPROVED"
        /\ \A d \in Candidates : ~Uncertain(d)
        /\ status' = status \/ status' = [status EXCEPT ![c] = "STARTED"]
        /\ \/ UNCHANGED <<pc, current>>
           \/ pc' = "reserved" /\ current' = c /\ status' = [status EXCEPT ![c] = "STARTED"]
        /\ UNCHANGED <<completed, registered, conflict, runtime, marker, policy, writes, tampered>>
    BY DEF Verified, NoOtherAttempt, Uncertain, Save, Applied, Goes, world
  <1> HIDE DEF Reserve
  <1>2. TypeOK'
    BY <1>1 DEF TypeOK, Statuses, Executing
  <1>3. OneAttempt'
    BY <1>1 DEF OneAttempt, Uncertain, TypeOK, Executing
  <1>4. OneWrite'
    BY <1>1 DEF OneWrite, Completed, TypeOK, Executing
  <1>5. MarkerFollows'
    BY <1>1 DEF MarkerFollows, MarkerIsExpected, Expected, Uncertain, TypeOK
  <1>6. QED
    BY <1>2, <1>3, <1>4, <1>5

\* The write belongs to the only open attempt and is its first.
LEMMA WriteStep ==
  ASSUME IInv, NEW complete \in BOOLEAN, Write(complete)
  PROVE  IInv'
  <1> USE DEF IInv, Write, Goes, history
  <1>1. current \in Candidates /\ status[current] = "STARTED" /\ writes[current] = 0
    BY Attempt DEF OneWrite, Executing
  <1>2. marker' \in Contents \cup {"missing", "torn"}
    BY <1>1, BeforeAndAfter DEF Overwritten, TypeOK, Contents
  <1>3. TypeOK'
    BY <1>1, <1>2, CandidateAssumption DEF TypeOK, Executing
  <1>4. OneAttempt'
    BY DEF OneAttempt, Uncertain, Executing
  <1>5. OneWrite'
    BY <1>1 DEF OneWrite, Completed, TypeOK, Executing
  <1>6. MarkerFollows'
    BY <1>1 DEF MarkerFollows, MarkerIsExpected, Uncertain, OneAttempt, Executing
  <1>7. QED
    BY <1>3, <1>4, <1>5, <1>6

\* Truncating and reading back: "written" is reached only with the wanted content.
LEMMA TruncateStep ==
  ASSUME IInv, Truncate
  PROVE  IInv'
  <1> USE DEF IInv, Truncate, Goes, history, world
  <1>1. current \in Candidates /\ status[current] = "STARTED"
    BY Attempt DEF Executing
  <1>2. TypeOK'
    BY <1>1, BeforeAndAfter DEF TypeOK, Executing, Contents
  <1>3. OneAttempt' /\ OneWrite'
    BY DEF OneAttempt, OneWrite, Uncertain, Completed, Executing
  <1>4. MarkerFollows'
    BY <1>1 DEF MarkerFollows, MarkerIsExpected, Uncertain, OneAttempt, Executing, After
  <1>5. QED
    BY <1>2, <1>3, <1>4

\* The receipt closes the attempt and makes what was written the expected content.
LEMMA ReceiptStep ==
  ASSUME IInv, NEW commit \in Commit, CommitReceipt(commit)
  PROVE  IInv'
  <1> USE DEF IInv
  <1>1. /\ pc = "written" /\ current \in Candidates /\ status[current] = "STARTED"
        /\ registered /\ ~conflict
        /\ \A c \in Candidates : Uncertain(c) <=> c = current
    BY Attempt DEF CommitReceipt, Executing, OneAttempt, Uncertain
  <1>2. /\ UNCHANGED <<registered, conflict, runtime, marker, policy, writes, tampered>>
        /\ \/ pc' = "failed" /\ current' = current
           \/ pc' = "serving" /\ current' = NoCandidate
        /\ \/ status' = status /\ completed' = completed /\ pc' = "failed"
           \/ \E done \in {"TEST_RESOURCE_CHANGED", "ROLLED_BACK"} :
                status' = [status EXCEPT ![current] = done] /\ completed' = current
    BY DEF CommitReceipt, Goes, world
  <1>3. TypeOK'
    BY <1>1, <1>2 DEF TypeOK, Statuses, Executing
  <1>4. OneAttempt'
    BY <1>1, <1>2 DEF OneAttempt, Uncertain, TypeOK, Executing
  <1>5. OneWrite'
    BY <1>1, <1>2 DEF OneWrite, Completed, TypeOK, Executing
  <1>6. CASE completed' = completed /\ status' = status
    <2>1. pc' = "failed" /\ Uncertain(current)'
      BY <1>1, <1>2, <1>6, CandidateAssumption DEF Uncertain, TypeOK
    <2>2. MarkerFollows'
      BY <1>1, <1>2, <1>6, <2>1 DEF MarkerFollows, MarkerIsExpected, Expected
    <2>3. QED
      BY <1>3, <1>4, <1>5, <2>2
  <1>7. CASE completed' = current
    <2>1. ~tampered => marker = After(current)
      BY <1>1 DEF MarkerFollows
    <2>2. Expected' = After(current)
      BY <1>1, <1>7, CandidateAssumption DEF Expected, After
    <2>3. MarkerFollows'
      BY <1>1, <1>2, <2>1, <2>2 DEF MarkerFollows, MarkerIsExpected
    <2>4. QED
      BY <1>3, <1>4, <1>5, <2>3
  <1>8. QED
    BY <1>2, <1>3, <1>4, <1>5, <1>6, <1>7

\* Recovery keeps every attempt open that was open and records a conflict only.
LEMMA RecoverStep ==
  ASSUME IInv, NEW readable \in BOOLEAN, NEW commit \in Commit,
         RecoverAtStart(readable, commit) \/ RecoverAfterFailure(readable, commit)
  PROVE  IInv'
  <1> USE DEF IInv
  <1>1. /\ UNCHANGED <<completed, registered, marker, policy, writes, tampered>>
        /\ (conflict => conflict') /\ conflict' \in BOOLEAN
        /\ \/ status' = status
           \/ status' = [c \in Candidates |-> RecoveredStatus(status[c])]
        /\ pc' \in {"serving", "stopped"} /\ current' = NoCandidate
        /\ runtime' \in {runtime, "FAILED"}
    BY DEF RecoverAtStart, RecoverAfterFailure, RecoverHistory, Goes, world, TypeOK
  <1>2. TypeOK'
    <2>1. status' \in [Candidates -> Statuses]
      BY <1>1 DEF TypeOK, RecoveredStatus, Statuses
    <2>2. QED
      BY <1>1, <2>1 DEF TypeOK, Executing
  <1>3. \A c \in Candidates :
          (Uncertain(c)' <=> Uncertain(c)) /\ (Completed(c)' <=> Completed(c))
    BY <1>1 DEF Uncertain, Completed, RecoveredStatus, TypeOK
  <1>4. OneAttempt'
    BY <1>1, <1>3 DEF OneAttempt, Executing
  <1>5. OneWrite'
    BY <1>1 DEF OneWrite, Completed, RecoveredStatus, TypeOK, Executing
  <1>6. MarkerFollows'
    BY <1>1, <1>3 DEF MarkerFollows, MarkerIsExpected, Expected
  <1>7. QED
    BY <1>2, <1>4, <1>5, <1>6

\* Every step, and every stutter, keeps the invariant.
LEMMA StepInvariant == IInv /\ [Next]_vars => IInv'
  <1> SUFFICES ASSUME IInv, [Next]_vars
               PROVE  IInv'
    OBVIOUS
  <1>1. CASE UNCHANGED vars
    BY <1>1 DEF vars, history, world, IInv, TypeOK, OneAttempt, OneWrite, MarkerFollows,
                MarkerIsExpected, Expected, Uncertain, Completed, Executing
  <1>2. CASE Next
    BY <1>2, QuietStep, PrepareStep, TamperStep, ReviewStep, ReserveStep, WriteStep,
       TruncateStep, ReceiptStep, RecoverStep DEF Next
  <1>3. QED
    BY <1>1, <1>2

\* The inductive invariant holds for any findings and policies.
THEOREM Invariance == Spec => []IInv
  BY InitInvariant, StepInvariant, PTL DEF Spec

\* Every store, the marker and the process hold values of their types.
THEOREM TypeCorrectness == Spec => []TypeOK
  <1>1. IInv => TypeOK
    BY DEF IInv
  <1>2. QED
    BY <1>1, Invariance, PTL

\* Without outsiders, open attempts and recorded conflicts, the marker is what the last
\* receipt says (read_records and _expected_resource_digest against TestResource).
THEOREM MarkerMatchesHistory == Spec => []MarkerIsExpected
  <1>1. IInv => MarkerIsExpected
    BY DEF IInv, MarkerFollows, MarkerIsExpected
  <1>2. QED
    BY <1>1, Invariance, PTL

\* An attempt of unknown outcome, or a conflict, blocks every later write for ever
\* (_verify, _mode and recover).
THEOREM UnknownOutcomesBlock == Spec => UnknownBlocks
  <1> DEFINE A == /\ conflict \/ (\E c \in Candidates : status[c] = "UNKNOWN")
                       => UNCHANGED writes
                  /\ conflict => conflict'
                  /\ \A c \in Candidates : status[c] = "UNKNOWN" => status'[c] = "UNKNOWN"
  <1>1. IInv /\ [Next]_vars => [A]_vars
    <2> SUFFICES ASSUME IInv, Next
                 PROVE  A
      BY DEF vars
    <2> USE DEF history, world
    <2>1. CASE \/ CreateMarker \/ Start \/ Stop \/ Crash \/ PolicyChanges \/ Tamper
               \/ Revalidate \/ Truncate \/ \E commit \in Commit : Register(commit)
      BY <2>1 DEF CreateMarker, Start, Stop, Crash, PolicyChanges, Tamper, Revalidate,
                  Truncate, Register
    <2>2. ASSUME NEW complete \in BOOLEAN, Write(complete)
          PROVE  A
      BY <2>2, Attempt DEF Write, Executing, IInv, OneAttempt
    <2>3. ASSUME NEW commit \in Commit, CommitReceipt(commit)
          PROVE  A
      BY <2>3, Attempt DEF CommitReceipt, Executing, IInv, TypeOK
    <2>4. ASSUME NEW readable \in BOOLEAN, NEW commit \in Commit,
                 RecoverAtStart(readable, commit) \/ RecoverAfterFailure(readable, commit)
          PROVE  A
      BY <2>4 DEF RecoverAtStart, RecoverAfterFailure, RecoverHistory, RecoveredStatus
    <2>5. ASSUME NEW c \in Candidates, NEW commit \in Commit,
                 \/ Request(c, commit) \/ Reserve(c, commit)
                 \/ \E decision \in {"APPROVED", "REJECTED"} : Review(c, decision, commit)
          PROVE  A
      BY <2>5 DEF Request, Reserve, Review, Save, IInv, TypeOK
    <2>6. QED
      BY <2>1, <2>2, <2>3, <2>4, <2>5 DEF Next
  <1>2. QED
    BY <1>1, Invariance, PTL DEF Spec, UnknownBlocks

-----------------------------------------------------------------------------
(* The refinement: writing is Fire, storing the receipt is Settle, and the *)
(* rest stutters.                                                          *)

\* Steps that keep the writes and the set of completed candidates stutter.
LEMMA Stutter ==
  ASSUME UNCHANGED writes, \A c \in Candidates : Completed(c)' <=> Completed(c)
  PROVE  UNCHANGED OneShot!abstract
  BY DEF OneShot!abstract, Completed

\* Storing the receipt settles the attempt as a success the write justifies.
LEMMA ReceiptRefines ==
  ASSUME IInv, NEW commit \in Commit, CommitReceipt(commit)
  PROVE  [OneShot!Next]_OneShot!abstract
  <1>1. /\ current \in Candidates /\ status[current] = "STARTED" /\ writes[current] = 1
        /\ status \in [Candidates -> Statuses] /\ UNCHANGED writes
    BY Attempt DEF CommitReceipt, Executing, IInv, OneWrite, TypeOK, world
  <1>2. CASE status' = status
    BY <1>1, <1>2, Stutter DEF Completed
  <1>3. CASE \E done \in {"TEST_RESOURCE_CHANGED", "ROLLED_BACK"} :
               status' = [status EXCEPT ![current] = done]
    <2>1. \A c \in Candidates :
            Completed(c)' <=> Completed(c) \/ c = current
      BY <1>1, <1>3 DEF Completed
    <2>2. ~Completed(current)
      BY <1>1 DEF Completed
    <2> DEFINE verdicts == [c \in Candidates |-> IF Completed(c) THEN "succeeded" ELSE "open"]
               authors == [c \in Candidates |-> IF Completed(c) THEN "program" ELSE "nobody"]
    <2>a. /\ verdicts' = [verdicts EXCEPT ![current] = "succeeded"]
          /\ authors' = [authors EXCEPT ![current] = "program"]
          /\ verdicts[current] = "open"
      BY <1>1, <2>1, <2>2
    <2>3. OneShot!Settle(current, "succeeded", "program")
      BY <1>1, <2>a DEF OneShot!Settle
    <2>4. QED
      BY <1>1, <2>3 DEF OneShot!Next
  <1>4. QED
    BY <1>2, <1>3 DEF CommitReceipt

\* The write fires the candidate, which is neither written nor settled.
LEMMA WriteRefines ==
  ASSUME IInv, NEW complete \in BOOLEAN, Write(complete)
  PROVE  OneShot!Next
  <1>1. /\ current \in Candidates /\ status[current] = "STARTED" /\ writes[current] = 0
        /\ UNCHANGED status
    BY Attempt DEF Write, Executing, IInv, OneWrite, history
  <1>a. writes' = [writes EXCEPT ![current] = 1]
    BY <1>1 DEF Write
  <1>2. OneShot!Fire(current)
    BY <1>1, <1>a DEF OneShot!Fire, Completed
  <1>3. QED
    BY <1>1, <1>2 DEF OneShot!Next

\* A response with a real effect keeps the promise of one-shot dispatch.
THEOREM Refinement == Spec => ImplementsOneShot
  <1>1. Init => OneShot!Init
    BY DEF Init, OneShot!Init, Completed
  <1>2. IInv /\ [Next]_vars => [OneShot!Next]_OneShot!abstract
    <2> SUFFICES ASSUME IInv, [Next]_vars
                 PROVE  [OneShot!Next]_OneShot!abstract
      OBVIOUS
    <2> USE DEF history, world
    <2>1. CASE \/ CreateMarker \/ Start \/ Stop \/ Crash \/ PolicyChanges \/ Tamper
               \/ Revalidate \/ Truncate \/ UNCHANGED vars
               \/ \E commit \in Commit : Register(commit)
      <3>1. UNCHANGED <<status, writes>>
        BY <2>1 DEF CreateMarker, Start, Stop, Crash, PolicyChanges, Tamper, Revalidate,
                    Truncate, Register, vars
      <3>2. QED
        BY <3>1, Stutter DEF Completed
    <2>2. ASSUME NEW readable \in BOOLEAN, NEW commit \in Commit,
                 RecoverAtStart(readable, commit) \/ RecoverAfterFailure(readable, commit)
          PROVE  UNCHANGED OneShot!abstract
      <3>1. UNCHANGED writes /\ \A c \in Candidates : Completed(c)' <=> Completed(c)
        BY <2>2 DEF RecoverAtStart, RecoverAfterFailure, RecoverHistory, RecoveredStatus,
                    Completed, IInv, TypeOK
      <3>2. QED
        BY <3>1, Stutter
    <2>3. ASSUME NEW c \in Candidates, NEW commit \in Commit,
                 \/ Request(c, commit) \/ Reserve(c, commit)
                 \/ \E decision \in {"APPROVED", "REJECTED"} : Review(c, decision, commit)
          PROVE  UNCHANGED OneShot!abstract
      <3>1. UNCHANGED writes /\ \A d \in Candidates : Completed(d)' <=> Completed(d)
        BY <2>3 DEF Request, Reserve, Review, Save, Completed, IInv, TypeOK
      <3>2. QED
        BY <3>1, Stutter
    <2>4. QED
      BY <2>1, <2>2, <2>3, ReceiptRefines, WriteRefines DEF Next
  <1>3. QED
    BY <1>1, <1>2, Invariance, PTL DEF Spec, ImplementsOneShot, OneShot!Spec
=============================================================================

----------------------- MODULE DurableExecutionProofs -----------------------
(***************************************************************************)
(* Theorems about DurableExecution for any number of intents, promotions,  *)
(* approvals and workers and any bounds.  The inductive invariant IInv is  *)
(* proved step by step, one lemma per action; the safety properties follow *)
(* from it.                                                                *)
(***************************************************************************)
EXTENDS DurableExecution, TLAPS

\* An empty ledger with idle workers satisfies the invariant.
LEMMA InitInvariant == Init => IInv
  BY BindingAssumption, SMT
  DEF Init, IInv, TypeOK, Exclusive, CopyIsPast, QuietBefore, OneCaller, OutcomeIsReply,
      EventIsState, ProgramVerdictIsReal, Freshness, StaleNeverDispatched, Absent, Record,
      Lifecycle, EventType, NoClaim, Created, Calling, AfterBoundary, BeforeBoundary, Replies

\* What an idle worker is left with, and what the types say of revisions.
LEMMA Typing ==
  ASSUME TypeOK
  PROVE  /\ Absent \in Record
         /\ \A i \in Intents : records[i] \in Record /\ records[i].revision \in Nat
         /\ \A w \in Workers : copy[w] \in Record /\ copy[w].revision \in Nat
  BY DEF TypeOK, Absent, Record, Lifecycle, EventType, NoClaim

\* Registering an intent (ExecutionStore.create) keeps the invariant: the new record is
\* pending and its promotion and approval are reserved by no other.
LEMMA CreateStep ==
  ASSUME IInv, NEW i \in Intents, NEW commit \in Commit, Create(i, commit)
  PROVE  IInv'
  <1> USE BindingAssumption DEF IInv, Create, Save, worker, world, Absent, Created
  <1>1. TypeOK'
    BY DEF TypeOK, Record, Lifecycle, EventType, NoClaim
  <1>2. Exclusive'
    BY DEF Exclusive, Reserved, TypeOK
  <1>3. CopyIsPast'
    BY DEF CopyIsPast, TypeOK, Record, Reserved, Current
  <1>4. QuietBefore'
    BY DEF QuietBefore, TypeOK, Reserved, Calling
  <1>5. OneCaller' /\ OutcomeIsReply'
    BY DEF OneCaller, OutcomeIsReply, Calling
  <1>6. EventIsState' /\ ProgramVerdictIsReal'
    BY DEF EventIsState, ProgramVerdictIsReal, TypeOK
  <1>7. Freshness' /\ StaleNeverDispatched'
    BY DEF Freshness, StaleNeverDispatched, QuietBefore, TypeOK, Record, Reserved
  <1>8. QED
    BY <1>1, <1>2, <1>3, <1>4, <1>5, <1>6, <1>7

\* A claim advances a pending record, which no worker past the boundary can hold.
LEMMA ClaimStep ==
  ASSUME IInv, NEW w \in Workers, NEW i \in Intents, NEW now \in Time,
         NEW lease \in Leases, NEW commit \in Commit, Claim(w, i, now, lease, commit)
  PROVE  IInv'
  <1> USE BindingAssumption, BoundAssumption DEF IInv, worker, world, Created
  <1>0. PICK r \in Record :
          /\ r.state = "claimed" /\ r.event = "claimed" /\ r.expires # NoClaim
          /\ r.revision = records[i].revision + 1
          /\ records' = IF commit = "rolled_back" THEN records ELSE [records EXCEPT ![i] = r]
          /\ IF commit = "ok" THEN Holds(w, "claimed", i, r) ELSE UNCHANGED worker
    <2>1. now + lease \in Nat /\ now + lease # 0 /\ records[i] \in Record
      BY DEF TypeOK, Time
    <2> DEFINE new == Step(records[i], "claimed", now + lease, "claimed")
    <2>2. /\ new \in Record /\ new.state = "claimed" /\ new.event = "claimed"
          /\ new.expires = now + lease /\ new.revision = records[i].revision + 1
      BY <2>1 DEF Step, Record, Lifecycle, EventType
    <2>3. /\ records' = IF commit = "rolled_back" THEN records ELSE [records EXCEPT ![i] = new]
          /\ IF commit = "ok" THEN Holds(w, "claimed", i, new) ELSE UNCHANGED worker
      BY DEF Claim, Save
    <2> HIDE DEF new
    <2>4. QED
      BY <2>1, <2>2, <2>3 DEF NoClaim
  <1>a. /\ pc[w] = "idle" /\ records[i].state = "pending"
        /\ UNCHANGED <<world, boundary, staleSince>>
    BY DEF Claim
  <1> USE <1>0, <1>a DEF Holds
  <1>1. TypeOK'
    BY DEF TypeOK
  <1>2. Exclusive'
    BY DEF Exclusive, TypeOK
  <1>3. CopyIsPast'
    BY DEF CopyIsPast, TypeOK, Record, Current, BeforeBoundary, AfterBoundary
  <1>4. QuietBefore'
    BY DEF QuietBefore, TypeOK, Calling, AfterBoundary
  <1>5. OneCaller' /\ OutcomeIsReply'
    BY DEF OneCaller, OutcomeIsReply, Calling, AfterBoundary, TypeOK
  <1>6. EventIsState' /\ ProgramVerdictIsReal'
    BY DEF EventIsState, ProgramVerdictIsReal, TypeOK
  <1>7. Freshness' /\ StaleNeverDispatched'
    BY DEF Freshness, StaleNeverDispatched, TypeOK, Record
  <1>8. QED
    BY <1>1, <1>2, <1>3, <1>4, <1>5, <1>6, <1>7

\* Steps that leave the ledger alone.
LEMMA AdoptStep ==
  ASSUME IInv, NEW w \in Workers, NEW i \in Intents, Adopt(w, i)
  PROVE  IInv'
  <1> USE BindingAssumption, BoundAssumption
      DEF IInv, worker, world, Created, Holds, Idle, Adopt
  <1>1. TypeOK'
    BY DEF TypeOK, CopyIsPast, Replies, Classify
  <1>2. Exclusive'
    BY DEF Exclusive
  <1>3. CopyIsPast'
    BY DEF CopyIsPast, TypeOK, Record, Current, BeforeBoundary, AfterBoundary
  <1>4. QuietBefore'
    BY DEF QuietBefore, TypeOK, Calling, AfterBoundary, CopyIsPast, BeforeBoundary
  <1>5. OneCaller' /\ OutcomeIsReply'
    BY DEF OneCaller, OutcomeIsReply, Calling, AfterBoundary, TypeOK, CopyIsPast, Classify, Replies
  <1>6. EventIsState' /\ ProgramVerdictIsReal'
    BY DEF EventIsState, ProgramVerdictIsReal, OneCaller, Calling, AfterBoundary, TypeOK, CopyIsPast
  <1>7. Freshness' /\ StaleNeverDispatched'
    BY DEF Freshness, StaleNeverDispatched, TypeOK, Record, CopyIsPast, Current
  <1>8. QED
    BY <1>1, <1>2, <1>3, <1>4, <1>5, <1>6, <1>7

\* Comparing the claim with the stored record (execute_claim) only moves the worker.
LEMMA LoadClaimStep ==
  ASSUME IInv, NEW w \in Workers, LoadClaim(w)
  PROVE  IInv'
  <1> USE BindingAssumption, BoundAssumption
      DEF IInv, worker, world, Created, Holds, Idle, LoadClaim
  <1>1. TypeOK'
    BY Typing DEF TypeOK, CopyIsPast
  <1>2. Exclusive'
    BY DEF Exclusive
  <1>3. CopyIsPast'
    BY DEF CopyIsPast, TypeOK, Record, Current, BeforeBoundary, AfterBoundary
  <1>4. QuietBefore'
    BY DEF QuietBefore, TypeOK, Calling, AfterBoundary, CopyIsPast, BeforeBoundary
  <1>5. OneCaller' /\ OutcomeIsReply'
    BY DEF OneCaller, OutcomeIsReply, Calling, AfterBoundary, TypeOK, CopyIsPast, Classify, Replies
  <1>6. EventIsState' /\ ProgramVerdictIsReal'
    BY DEF EventIsState, ProgramVerdictIsReal, OneCaller, Calling, AfterBoundary, TypeOK, CopyIsPast
  <1>7. Freshness' /\ StaleNeverDispatched'
    BY DEF Freshness, StaleNeverDispatched, TypeOK, Record, CopyIsPast, Current
  <1>8. QED
    BY <1>1, <1>2, <1>3, <1>4, <1>5, <1>6, <1>7

\* A validation that succeeds moves the worker on with sources that are current.
LEMMA ValidateStep ==
  ASSUME IInv, NEW w \in Workers, Validate(w)
  PROVE  IInv'
  <1> USE BindingAssumption, BoundAssumption
      DEF IInv, worker, world, Created, Holds, Idle, Validate
  <1>1. TypeOK'
    BY DEF TypeOK, CopyIsPast, Replies, Classify
  <1>2. Exclusive'
    BY DEF Exclusive
  <1>3. CopyIsPast'
    BY DEF CopyIsPast, TypeOK, Record, Current, BeforeBoundary, AfterBoundary
  <1>4. QuietBefore'
    BY DEF QuietBefore, TypeOK, Calling, AfterBoundary, CopyIsPast, BeforeBoundary
  <1>5. OneCaller' /\ OutcomeIsReply'
    BY DEF OneCaller, OutcomeIsReply, Calling, AfterBoundary, TypeOK, CopyIsPast, Classify, Replies
  <1>6. EventIsState' /\ ProgramVerdictIsReal'
    BY DEF EventIsState, ProgramVerdictIsReal, OneCaller, Calling, AfterBoundary, TypeOK, CopyIsPast
  <1>7. Freshness' /\ StaleNeverDispatched'
    BY DEF Freshness, StaleNeverDispatched, TypeOK, Record, CopyIsPast, Current
  <1>8. QED
    BY <1>1, <1>2, <1>3, <1>4, <1>5, <1>6, <1>7

\* The tool is invoked by the one worker that stands behind the boundary.
LEMMA InvokeStep ==
  ASSUME IInv, NEW w \in Workers, Invoke(w)
  PROVE  IInv'
  <1> USE BindingAssumption, BoundAssumption
      DEF IInv, worker, world, Created, Holds, Idle, Invoke
  <1>1. TypeOK'
    BY DEF TypeOK, CopyIsPast, Replies, Classify
  <1>2. Exclusive'
    BY DEF Exclusive
  <1>3. CopyIsPast'
    BY DEF CopyIsPast, TypeOK, Record, Current, BeforeBoundary, AfterBoundary
  <1>4. QuietBefore'
    BY DEF QuietBefore, TypeOK, Calling, AfterBoundary, CopyIsPast, BeforeBoundary
  <1>5. OneCaller' /\ OutcomeIsReply'
    BY DEF OneCaller, OutcomeIsReply, Calling, AfterBoundary, TypeOK, CopyIsPast, Classify, Replies
  <1>6. EventIsState' /\ ProgramVerdictIsReal'
    BY DEF EventIsState, ProgramVerdictIsReal, OneCaller, Calling, AfterBoundary, TypeOK, CopyIsPast
  <1>7. Freshness' /\ StaleNeverDispatched'
    BY DEF Freshness, StaleNeverDispatched, TypeOK, Record, CopyIsPast, Current
  <1>8. QED
    BY <1>1, <1>2, <1>3, <1>4, <1>5, <1>6, <1>7

\* A refusal before the tool call leaves a reported failure and no invocation.
LEMMA PreflightStep ==
  ASSUME IInv, NEW w \in Workers, PreflightRefuses(w)
  PROVE  IInv'
  <1> USE BindingAssumption, BoundAssumption
      DEF IInv, worker, world, Created, Holds, Idle, PreflightRefuses
  <1>1. TypeOK'
    BY DEF TypeOK, CopyIsPast, Replies, Classify
  <1>2. Exclusive'
    BY DEF Exclusive
  <1>3. CopyIsPast'
    BY DEF CopyIsPast, TypeOK, Record, Current, BeforeBoundary, AfterBoundary
  <1>4. QuietBefore'
    BY DEF QuietBefore, TypeOK, Calling, AfterBoundary, CopyIsPast, BeforeBoundary
  <1>5. OneCaller' /\ OutcomeIsReply'
    BY DEF OneCaller, OutcomeIsReply, Calling, AfterBoundary, TypeOK, CopyIsPast, Classify, Replies
  <1>6. EventIsState' /\ ProgramVerdictIsReal'
    BY DEF EventIsState, ProgramVerdictIsReal, OneCaller, Calling, AfterBoundary, TypeOK, CopyIsPast
  <1>7. Freshness' /\ StaleNeverDispatched'
    BY DEF Freshness, StaleNeverDispatched, TypeOK, Record, CopyIsPast, Current
  <1>8. QED
    BY <1>1, <1>2, <1>3, <1>4, <1>5, <1>6, <1>7

\* The answer of the tool is recorded for the worker that made the call.
LEMMA ReturnStep ==
  ASSUME IInv, NEW w \in Workers, NEW answer \in Replies, ToolReturns(w, answer)
  PROVE  IInv'
  <1> USE BindingAssumption, BoundAssumption
      DEF IInv, worker, world, Created, Holds, Idle, ToolReturns
  <1>1. TypeOK'
    BY DEF TypeOK, CopyIsPast, Replies, Classify
  <1>2. Exclusive'
    BY DEF Exclusive
  <1>3. CopyIsPast'
    BY DEF CopyIsPast, TypeOK, Record, Current, BeforeBoundary, AfterBoundary
  <1>4. QuietBefore'
    BY DEF QuietBefore, TypeOK, Calling, AfterBoundary, CopyIsPast, BeforeBoundary
  <1>5. OneCaller' /\ OutcomeIsReply'
    BY DEF OneCaller, OutcomeIsReply, Calling, AfterBoundary, TypeOK, CopyIsPast, Classify, Replies
  <1>6. EventIsState' /\ ProgramVerdictIsReal'
    BY DEF EventIsState, ProgramVerdictIsReal, OneCaller, Calling, AfterBoundary, TypeOK, CopyIsPast
  <1>7. Freshness' /\ StaleNeverDispatched'
    BY DEF Freshness, StaleNeverDispatched, TypeOK, Record, CopyIsPast, Current
  <1>8. QED
    BY <1>1, <1>2, <1>3, <1>4, <1>5, <1>6, <1>7

\* A crash forgets what a worker held and changes nothing else.
LEMMA CrashStep ==
  ASSUME IInv, NEW w \in Workers, Crash(w)
  PROVE  IInv'
  <1> USE BindingAssumption, BoundAssumption
      DEF IInv, worker, world, Created, Holds, Idle, Crash
  <1>1. TypeOK'
    BY Typing DEF TypeOK, CopyIsPast
  <1>2. Exclusive'
    BY DEF Exclusive
  <1>3. CopyIsPast'
    BY DEF CopyIsPast, TypeOK, Record, Current, BeforeBoundary, AfterBoundary
  <1>4. QuietBefore'
    BY DEF QuietBefore, TypeOK, Calling, AfterBoundary, CopyIsPast, BeforeBoundary
  <1>5. OneCaller' /\ OutcomeIsReply'
    BY DEF OneCaller, OutcomeIsReply, Calling, AfterBoundary, TypeOK, CopyIsPast, Classify, Replies
  <1>6. EventIsState' /\ ProgramVerdictIsReal'
    BY DEF EventIsState, ProgramVerdictIsReal, OneCaller, Calling, AfterBoundary, TypeOK, CopyIsPast
  <1>7. Freshness' /\ StaleNeverDispatched'
    BY DEF Freshness, StaleNeverDispatched, TypeOK, Record, CopyIsPast, Current
  <1>8. QED
    BY <1>1, <1>2, <1>3, <1>4, <1>5, <1>6, <1>7

\* Steps by which a worker writes the ledger: either the transaction changes nothing, or
\* it advances the record the worker still holds, which is where its copy is current.
LEMMA CommitRejectionStep ==
  ASSUME IInv, NEW w \in Workers, NEW commit \in Commit, CommitRejection(w, commit)
  PROVE  IInv'
  <1> DEFINE i == held[w]
             new == Step(copy[w], "failed", copy[w].expires, "failed")
  <1> USE BindingAssumption DEF IInv, worker, world, Created, Idle
  <1>a. /\ i \in Intents /\ pc[w] = "rejected" /\ UNCHANGED <<world, boundary, staleSince>>
        /\ copy[w] \in Record /\ copy[w].state = "claimed" /\ Idle(w)
    BY DEF CommitRejection, CopyIsPast, TypeOK, BeforeBoundary
  <1>b. /\ new \in Record /\ new.state = "failed" /\ new.event = "failed"
        /\ new.revision = copy[w].revision + 1 /\ new.revision \in Nat
    BY <1>a DEF Step, Record, Lifecycle, EventType
  <1>c. \/ records' = records
        \/ records' = [records EXCEPT ![i] = new] /\ records[i] = copy[w]
    BY DEF CommitRejection, Save, CanTransition, Current
  <1> HIDE DEF new
  <1> USE <1>a, <1>b, <1>c
  <1>1. TypeOK'
    BY Typing DEF TypeOK
  <1>2. Exclusive'
    BY DEF Exclusive, TypeOK
  <1>3. CopyIsPast'
    <2> SUFFICES ASSUME NEW v \in Workers, pc'[v] # "idle"
                 PROVE  /\ held'[v] \in Intents
                        /\ Created(held[v])'
                        /\ copy'[v].revision <= records'[held'[v]].revision
                        /\ copy'[v].revision = records'[held'[v]].revision => Current(v)'
                        /\ pc'[v] \in BeforeBoundary => copy'[v].state = "claimed"
                        /\ pc'[v] \in AfterBoundary => copy'[v].state = "executing"
      BY DEF CopyIsPast, TypeOK, BeforeBoundary, AfterBoundary
    <2>1. CASE v = w
      BY <2>1, Typing DEF CopyIsPast, TypeOK, Current, BeforeBoundary, AfterBoundary
    <2>2. CASE v # w
      <3>1. /\ pc'[v] = pc[v] /\ held'[v] = held[v] /\ copy'[v] = copy[v]
        BY <2>2 DEF TypeOK
      <3>2. CASE held[v] = i /\ records' # records
        BY <2>2, <3>1, <3>2, Typing DEF CopyIsPast, TypeOK, Current
      <3>3. CASE ~(held[v] = i /\ records' # records)
        BY <2>2, <3>1, <3>3, Typing DEF CopyIsPast, TypeOK, Current
      <3>4. QED
        BY <3>2, <3>3
    <2>3. QED
      BY <2>1, <2>2
  <1>4. QuietBefore'
    BY DEF QuietBefore, TypeOK, Calling, AfterBoundary
  <1>5. OneCaller' /\ OutcomeIsReply'
    BY DEF OneCaller, OutcomeIsReply, Calling, AfterBoundary, TypeOK
  <1>6. EventIsState' /\ ProgramVerdictIsReal'
    BY DEF EventIsState, ProgramVerdictIsReal, QuietBefore, Calling, AfterBoundary, TypeOK
  <1>7. Freshness' /\ StaleNeverDispatched'
    BY Typing DEF Freshness, StaleNeverDispatched, TypeOK
  <1>8. QED
    BY <1>1, <1>2, <1>3, <1>4, <1>5, <1>6, <1>7

\* Recording the outcome advances an executing record that is exactly the worker's copy.
LEMMA CommitOutcomeStep ==
  ASSUME IInv, NEW w \in Workers, NEW commit \in Commit, CommitOutcome(w, commit)
  PROVE  IInv'
  <1> DEFINE i == held[w]
             new == Step(copy[w], outcome[w], copy[w].expires, outcome[w])
  <1> USE BindingAssumption DEF IInv, worker, world, Created, Idle
  <1>a. /\ i \in Intents /\ pc[w] = "returned" /\ UNCHANGED <<world, boundary, staleSince>>
        /\ copy[w] \in Record /\ copy[w].state = "executing" /\ Idle(w)
        /\ outcome[w] \in {"succeeded", "failed", "uncertain"}
    BY DEF CommitOutcome, CopyIsPast, OutcomeIsReply, TypeOK, AfterBoundary
  <1>b. /\ new \in Record /\ new.state = outcome[w] /\ new.event = outcome[w]
        /\ new.revision = copy[w].revision + 1 /\ new.revision \in Nat
    BY <1>a DEF Step, Record, Lifecycle, EventType
  <1>c. \/ records' = records
        \/ records' = [records EXCEPT ![i] = new] /\ records[i] = copy[w]
    BY DEF CommitOutcome, Save, CanTransition, Current
  <1> HIDE DEF new
  <1> USE <1>a, <1>b, <1>c
  <1>1. TypeOK'
    BY Typing DEF TypeOK
  <1>2. Exclusive'
    BY DEF Exclusive, TypeOK
  <1>3. CopyIsPast'
    <2> SUFFICES ASSUME NEW v \in Workers, pc'[v] # "idle"
                 PROVE  /\ held'[v] \in Intents
                        /\ Created(held[v])'
                        /\ copy'[v].revision <= records'[held'[v]].revision
                        /\ copy'[v].revision = records'[held'[v]].revision => Current(v)'
                        /\ pc'[v] \in BeforeBoundary => copy'[v].state = "claimed"
                        /\ pc'[v] \in AfterBoundary => copy'[v].state = "executing"
      BY DEF CopyIsPast, TypeOK, BeforeBoundary, AfterBoundary
    <2>1. CASE v = w
      BY <2>1, Typing DEF CopyIsPast, TypeOK, Current, BeforeBoundary, AfterBoundary
    <2>2. CASE v # w
      <3>1. /\ pc'[v] = pc[v] /\ held'[v] = held[v] /\ copy'[v] = copy[v]
        BY <2>2 DEF TypeOK
      <3>2. CASE held[v] = i /\ records' # records
        BY <2>2, <3>1, <3>2, Typing DEF CopyIsPast, TypeOK, Current
      <3>3. CASE ~(held[v] = i /\ records' # records)
        BY <2>2, <3>1, <3>3, Typing DEF CopyIsPast, TypeOK, Current
      <3>4. QED
        BY <3>2, <3>3
    <2>3. QED
      BY <2>1, <2>2
  <1>4. QuietBefore'
    BY DEF QuietBefore, TypeOK, Calling, AfterBoundary
  <1>5. OneCaller' /\ OutcomeIsReply'
    BY DEF OneCaller, OutcomeIsReply, Calling, AfterBoundary, TypeOK
  <1>6. EventIsState' /\ ProgramVerdictIsReal'
    BY DEF EventIsState, ProgramVerdictIsReal, OneCaller, OutcomeIsReply, Calling,
           AfterBoundary, TypeOK
  <1>7. Freshness' /\ StaleNeverDispatched'
    BY Typing DEF Freshness, StaleNeverDispatched, TypeOK
  <1>8. QED
    BY <1>1, <1>2, <1>3, <1>4, <1>5, <1>6, <1>7

\* The invocation boundary advances a claimed record that is exactly the worker's copy,
\* so no second worker can stand behind the boundary of the same record.
LEMMA CommitBoundaryStep ==
  ASSUME IInv, NEW w \in Workers, NEW now \in Time, NEW commit \in Commit,
         CommitBoundary(w, now, commit)
  PROVE  IInv'
  <1> DEFINE i == held[w]
             new == Step(copy[w], "executing", copy[w].expires, "invocation_boundary")
  <1> USE BindingAssumption DEF IInv, worker, world, Created
  <1>a. /\ i \in Intents /\ pc[w] = "validated" /\ UNCHANGED <<world, staleSince>>
        /\ copy[w] \in Record /\ copy[w].state = "claimed"
    BY DEF CommitBoundary, CopyIsPast, TypeOK, BeforeBoundary
  <1>b. /\ new \in Record /\ new.state = "executing" /\ new.event = "invocation_boundary"
        /\ new.expires = copy[w].expires /\ new.revision = copy[w].revision + 1 /\ new.revision \in Nat
    BY <1>a DEF Step, Record, Lifecycle, EventType
  <1>c. \/ records' = records /\ boundary' = boundary /\ Idle(w)
        \/ /\ records[i] = copy[w]
           /\ records' = [records EXCEPT ![i] = new]
           /\ boundary' = [boundary EXCEPT ![i] = new.revision]
           /\ Idle(w) \/ Holds(w, "armed", i, new)
    BY DEF CommitBoundary, Save, CanTransition, Current, Commit
  <1> HIDE DEF new
  <1> USE <1>a, <1>b, <1>c DEF Idle, Holds
  <1>1. TypeOK'
    <2>1. CASE records' = records /\ boundary' = boundary /\ Idle(w)
      BY <2>1, Typing DEF TypeOK
    <2>2. CASE /\ records[i] = copy[w]
               /\ records' = [records EXCEPT ![i] = new]
               /\ boundary' = [boundary EXCEPT ![i] = new.revision]
               /\ Idle(w) \/ Holds(w, "armed", i, new)
      <3>1. /\ new.expires # NoClaim
            /\ records' \in [Intents -> Record]
            /\ boundary' \in [Intents -> Nat]
        BY <2>2 DEF TypeOK
      <3>2. \A j \in Intents :
              /\ records'[j].state \in {"claimed", "executing"} => records'[j].expires # NoClaim
              /\ records'[j].state \in {"absent", "pending"} => records'[j].expires = NoClaim
        BY <2>2, <3>1 DEF TypeOK
      <3>3. /\ copy' \in [Workers -> Record]
            /\ held' \in [Workers -> Intents \cup {NoIntent}]
        BY <2>2, Typing DEF TypeOK
      <3>4. /\ pc' \in [Workers -> {"idle", "claimed", "loaded", "validated", "rejected",
                                  "armed", "running", "returned"}]
            /\ outcome' \in [Workers -> {"none", "succeeded", "failed", "uncertain"}]
        BY <2>2 DEF TypeOK
      <3>5. QED
        BY <3>1, <3>2, <3>3, <3>4 DEF TypeOK
    <2>3. QED
      BY <2>1, <2>2
  <1>2. Exclusive'
    BY DEF Exclusive, TypeOK
  <1>3. CopyIsPast'
    <2> SUFFICES ASSUME NEW v \in Workers, pc'[v] # "idle"
                 PROVE  /\ held'[v] \in Intents
                        /\ Created(held[v])'
                        /\ copy'[v].revision <= records'[held'[v]].revision
                        /\ copy'[v].revision = records'[held'[v]].revision => Current(v)'
                        /\ pc'[v] \in BeforeBoundary => copy'[v].state = "claimed"
                        /\ pc'[v] \in AfterBoundary => copy'[v].state = "executing"
      BY DEF CopyIsPast, TypeOK, BeforeBoundary, AfterBoundary
    <2>1. CASE v = w
      BY <2>1, Typing DEF CopyIsPast, TypeOK, Current, BeforeBoundary, AfterBoundary
    <2>2. CASE v # w
      <3>1. /\ pc'[v] = pc[v] /\ held'[v] = held[v] /\ copy'[v] = copy[v]
        BY <2>2 DEF TypeOK
      <3>2. CASE held[v] = i /\ records' # records
        BY <2>2, <3>1, <3>2, Typing DEF CopyIsPast, TypeOK, Current
      <3>3. CASE ~(held[v] = i /\ records' # records)
        BY <2>2, <3>1, <3>3, Typing DEF CopyIsPast, TypeOK, Current
      <3>4. QED
        BY <3>2, <3>3
    <2>3. QED
      BY <2>1, <2>2
  <1>4. QuietBefore'
    BY DEF QuietBefore, TypeOK, Calling, AfterBoundary
  <1>5. OneCaller' /\ OutcomeIsReply'
    BY DEF OneCaller, OutcomeIsReply, QuietBefore, Calling, AfterBoundary, TypeOK
  <1>6. EventIsState' /\ ProgramVerdictIsReal'
    BY DEF EventIsState, ProgramVerdictIsReal, TypeOK
  <1>7. Freshness' /\ StaleNeverDispatched'
    <2>1. CASE records' = records /\ boundary' = boundary /\ Idle(w)
      BY <2>1, Typing DEF Freshness, StaleNeverDispatched, TypeOK
    <2>2. CASE /\ records[i] = copy[w]
               /\ records' = [records EXCEPT ![i] = new]
               /\ boundary' = [boundary EXCEPT ![i] = new.revision]
               /\ Idle(w) \/ Holds(w, "armed", i, new)
      <3>1. /\ \A j \in Intents : boundary'[j] <= records'[j].revision
            /\ StaleNeverDispatched'
        BY <2>2, Typing DEF Freshness, StaleNeverDispatched, TypeOK
      <3>2. \A v \in Workers : pc'[v] = "validated" =>
              staleSince'[held'[v]] = -1 \/ copy'[v].revision <= staleSince'[held'[v]]
        BY <2>2, Typing DEF Freshness, TypeOK
      <3>3. QED
        BY <3>1, <3>2 DEF Freshness
    <2>3. QED
      BY <2>1, <2>2
  <1>8. QED
    BY <1>1, <1>2, <1>3, <1>4, <1>5, <1>6, <1>7

\* A human verdict advances an uncertain record.
LEMMA ReconcileStep ==
  ASSUME IInv, NEW i \in Intents, NEW revision \in Nat,
         NEW state \in {"succeeded", "failed", "uncertain"}, NEW commit \in Commit,
         Reconcile(i, revision, state, commit)
  PROVE  IInv'
  <1> DEFINE new == Step(records[i], state, records[i].expires, "reconciled")
  <1> USE BindingAssumption DEF IInv, worker, world, Created
  <1>a. /\ records[i].state = "uncertain"
        /\ UNCHANGED <<pc, held, copy, outcome, invocations, reply, boundary, staleSince>>
        /\ records' = records \/ records' = [records EXCEPT ![i] = new]
    BY DEF Reconcile, Save
  <1>b. /\ new \in Record /\ new.state = state /\ new.event = "reconciled"
        /\ new.revision = records[i].revision + 1 /\ new.revision \in Nat
    BY DEF Step, Record, Lifecycle, EventType, TypeOK
  <1> HIDE DEF new
  <1> USE <1>a, <1>b
  <1>1. TypeOK'
    BY DEF TypeOK
  <1>2. Exclusive'
    BY DEF Exclusive, TypeOK
  <1>3. CopyIsPast'
    BY Typing DEF CopyIsPast, TypeOK, Current
  <1>4. QuietBefore'
    BY DEF QuietBefore, TypeOK, Calling
  <1>5. OneCaller' /\ OutcomeIsReply'
    BY DEF OneCaller, OutcomeIsReply, Calling
  <1>6. EventIsState' /\ ProgramVerdictIsReal'
    BY DEF EventIsState, ProgramVerdictIsReal, TypeOK
  <1>7. Freshness' /\ StaleNeverDispatched'
    BY Typing DEF Freshness, StaleNeverDispatched, TypeOK
  <1>8. QED
    BY <1>1, <1>2, <1>3, <1>4, <1>5, <1>6, <1>7

\* One recovery transaction may advance any number of records.
LEMMA RecoverStep ==
  ASSUME IInv, NEW now \in [Intents -> Time], NEW commit \in Commit, Recover(now, commit)
  PROVE  IInv'
  <1> USE BindingAssumption DEF IInv, worker, world, Created
  <1>a. UNCHANGED <<pc, held, copy, outcome, invocations, reply, boundary, staleSince>>
    BY DEF Recover
  <1>b. records' \in [Intents -> Record]
    BY DEF Recover, TypeOK, Recovered, Step, Record, Lifecycle, EventType, NoClaim
  <1>c. ASSUME NEW i \in Intents
        PROVE  \/ records'[i] = records[i]
               \/ /\ records[i].state = "claimed"
                  /\ records'[i].state = "pending" /\ records'[i].event = "recovered"
                  /\ records'[i].revision = records[i].revision + 1
                  /\ records'[i].expires = NoClaim
               \/ /\ records[i].state = "executing"
                  /\ records'[i].state = "uncertain" /\ records'[i].event = "recovered"
                  /\ records'[i].revision = records[i].revision + 1
    BY <1>c DEF Recover, Expired, Recovered, Step
  <1> USE <1>a, <1>b, <1>c
  <1>1. TypeOK'
    BY DEF TypeOK
  <1>2. Exclusive'
    BY DEF Exclusive
  <1>3. CopyIsPast'
    BY Typing DEF CopyIsPast, Current
  <1>4. QuietBefore'
    BY DEF QuietBefore, Calling
  <1>5. OneCaller' /\ OutcomeIsReply'
    BY DEF OneCaller, OutcomeIsReply, Calling
  <1>6. EventIsState' /\ ProgramVerdictIsReal'
    BY DEF EventIsState, ProgramVerdictIsReal
  <1>7. Freshness' /\ StaleNeverDispatched'
    BY Typing DEF Freshness, StaleNeverDispatched, TypeOK
  <1>8. QED
    BY <1>1, <1>2, <1>3, <1>4, <1>5, <1>6, <1>7

\* A change of the sources marks the record at its present revision.
LEMMA SourcesChangeStep ==
  ASSUME IInv, NEW i \in Intents, SourcesChange(i)
  PROVE  IInv'
  <1> USE DEF IInv, SourcesChange, worker, world
  <1>1. TypeOK'
    BY Typing DEF TypeOK
  <1>2. /\ Exclusive' /\ CopyIsPast' /\ QuietBefore' /\ OneCaller' /\ OutcomeIsReply'
        /\ EventIsState' /\ ProgramVerdictIsReal'
    BY DEF Exclusive, CopyIsPast, QuietBefore, OneCaller, OutcomeIsReply, EventIsState,
           ProgramVerdictIsReal, Created, Current, Calling
  <1>3. Freshness' /\ StaleNeverDispatched'
    BY Typing DEF Freshness, StaleNeverDispatched, CopyIsPast, TypeOK
  <1>4. QED
    BY <1>1, <1>2, <1>3

-----------------------------------------------------------------------------
\* Every step keeps the invariant.
LEMMA NextInvariant == IInv /\ [Next]_vars => IInv'
  <1> SUFFICES ASSUME IInv, [Next]_vars PROVE IInv'
    OBVIOUS
  <1>1. ASSUME NEW w \in Workers, Dispatch(w) PROVE IInv'
    BY <1>1, ClaimStep, AdoptStep, LoadClaimStep, ValidateStep, CommitRejectionStep,
       CommitBoundaryStep, InvokeStep, PreflightStep, ReturnStep, CommitOutcomeStep, CrashStep
    DEF Dispatch
  <1>2. CASE Operate
    BY <1>2, BoundAssumption, CreateStep, RecoverStep, ReconcileStep, SourcesChangeStep DEF Operate
  <1>3. CASE UNCHANGED vars
    BY <1>3 DEF IInv, vars, TypeOK, Exclusive, CopyIsPast, QuietBefore, OneCaller, OutcomeIsReply,
       EventIsState, ProgramVerdictIsReal, Freshness, StaleNeverDispatched, Created, Current, Calling
  <1>4. QED
    BY <1>1, <1>2, <1>3 DEF Next

\* The invariant holds in every reachable state, for all values of the constants: claims
\* are exclusive and the ledger runs ahead of every copy a worker remembers.
THEOREM Invariance == Spec => []IInv
  BY InitInvariant, NextInvariant, PTL DEF Spec

\* The ledger, its workers and the model's record of the outside world are well typed.
THEOREM TypeCorrectness == Spec => []TypeOK
  BY Invariance, PTL DEF IInv

\* One promotion and one approval never start a tool twice (replay guard).
THEOREM OneInvocation == Spec => []AtMostOneInvocation
  <1>1. IInv => AtMostOneInvocation
    BY DEF IInv, AtMostOneInvocation, OneCaller, QuietBefore, Exclusive, Created, TypeOK
  <1>2. QED
    BY <1>1, Invariance, PTL

\* Recovery never makes an intent whose tool may have started eligible again.
THEOREM NoRequeue == Spec => []NoRequeueAfterInvocation
  <1>1. IInv => NoRequeueAfterInvocation
    BY DEF IInv, NoRequeueAfterInvocation, QuietBefore, TypeOK, Record, Lifecycle
  <1>2. QED
    BY <1>1, Invariance, PTL

\* A verdict the program persisted itself is the one the tool call justifies.
THEOREM VerdictsAreReal == Spec => []ProgramVerdictIsReal
  BY Invariance, PTL DEF IInv

\* A claim made after the sources went out of date never reaches the boundary.
THEOREM StaleIntentsAreNotDispatched == Spec => []StaleNeverDispatched
  BY Invariance, PTL DEF IInv

-----------------------------------------------------------------------------
(* Refinement of OneShotDispatch.  The verdict and the author of a         *)
(* promotion are functions of the one record stored for it.                *)

VerdictIn(r) == IF r.state \in {"succeeded", "failed"} THEN r.state ELSE "open"
AuthorIn(r) == IF VerdictIn(r) = "open" THEN "nobody"
               ELSE IF r.event = "reconciled" THEN "human" ELSE "program"

\* The stored record decides.
LEMMA StoredVerdict ==
  ASSUME IInv, NEW i \in Intents, Created(i)
  PROVE  /\ PromotionOf[i] \in Promotions
         /\ VerdictOf[PromotionOf[i]] = VerdictIn(records[i])
         /\ AuthorOf[PromotionOf[i]] = AuthorIn(records[i])
  <1>1. PromotionOf[i] \in Promotions
    BY BindingAssumption
  <1>2. \A j \in Intents : Created(j) /\ PromotionOf[j] = PromotionOf[i] => j = i
    BY DEF IInv, Exclusive
  <1>3. \A s \in {"succeeded", "failed"} :
          StateOf(PromotionOf[i], s) <=> records[i].state = s
    BY <1>2 DEF StateOf, Created
  <1>4. SettledByHuman(PromotionOf[i]) <=>
          records[i].state \in {"succeeded", "failed"} /\ records[i].event = "reconciled"
    BY <1>2 DEF SettledByHuman, Created
  <1>5. VerdictOf[PromotionOf[i]] = VerdictIn(records[i])
    BY <1>1, <1>3 DEF VerdictOf, VerdictIn
  <1>6. QED
    BY <1>1, <1>4, <1>5 DEF AuthorOf, AuthorIn, VerdictIn

\* Steps that give no verdict and start no tool are invisible.
LEMMA Invisible ==
  ASSUME UNCHANGED invocations,
         \A i \in Intents : /\ VerdictIn(records'[i]) = VerdictIn(records[i])
                            /\ AuthorIn(records'[i]) = AuthorIn(records[i])
  PROVE  UNCHANGED <<CallsOf, VerdictOf, AuthorOf>>
  <1>1. CallsOf' = CallsOf
    BY DEF CallsOf, Started
  <1>2. \A p \in Promotions, s \in {"succeeded", "failed"} : StateOf(p, s)' <=> StateOf(p, s)
    BY DEF StateOf, VerdictIn
  <1>3. \A p \in Promotions : SettledByHuman(p)' <=> SettledByHuman(p)
    BY DEF SettledByHuman, VerdictIn, AuthorIn
  <1>4. VerdictOf' = VerdictOf
    BY <1>2 DEF VerdictOf
  <1>5. AuthorOf' = AuthorOf
    BY <1>3, <1>4 DEF AuthorOf
  <1>6. QED
    BY <1>1, <1>4, <1>5

\* A first verdict on a stored record is a Settle of its promotion.
LEMMA Visible ==
  ASSUME IInv, IInv', NEW i \in Intents, Created(i), UNCHANGED invocations,
         NEW new, records' = [records EXCEPT ![i] = new],
         VerdictIn(records[i]) = "open",
         new.state \in {"succeeded", "failed"},
         new.state = "succeeded" /\ new.event # "reconciled" => invocations[i] > 0
  PROVE  OneShot!Next
  <1> DEFINE p == PromotionOf[i]
  <1>1. /\ p \in Promotions
        /\ VerdictOf[p] = "open" /\ AuthorOf[p] = AuthorIn(records[i])
    BY StoredVerdict
  <1>2. records'[i] = new /\ Created(i)'
    BY DEF IInv, TypeOK, Created
  <1>3. VerdictOf'[p] = new.state /\ AuthorOf'[p] = AuthorIn(new)
    <2>1. /\ \A s \in {"succeeded", "failed"} : StateOf(p, s)' <=> new.state = s
          /\ SettledByHuman(p)' <=> new.event = "reconciled"
      <3>1. \A j \in Intents : Created(j)' /\ PromotionOf[j] = p => j = i
        BY <1>2 DEF IInv, Exclusive
      <3>2. QED
        BY <1>2, <3>1 DEF StateOf, SettledByHuman, Created
    <2>2. QED
      BY <1>1, <2>1 DEF VerdictOf, AuthorOf, AuthorIn, VerdictIn
  <1>4. ASSUME NEW q \in Promotions, q # p
        PROVE  VerdictOf'[q] = VerdictOf[q] /\ AuthorOf'[q] = AuthorOf[q]
    <2>1. \A j \in Intents : PromotionOf[j] = q => records'[j] = records[j]
      BY <1>4 DEF IInv, TypeOK
    <2>2. /\ \A s \in {"succeeded", "failed"} : StateOf(q, s)' <=> StateOf(q, s)
          /\ SettledByHuman(q)' <=> SettledByHuman(q)
      BY <2>1 DEF StateOf, SettledByHuman
    <2>3. QED
      BY <2>2 DEF VerdictOf, AuthorOf
  <1>5. VerdictOf' = [VerdictOf EXCEPT ![p] = new.state]
    BY <1>1, <1>3, <1>4 DEF VerdictOf
  <1>6. AuthorOf' = [AuthorOf EXCEPT ![p] = AuthorIn(new)]
    BY <1>1, <1>3, <1>4 DEF AuthorOf
  <1>7. CallsOf' = CallsOf
    BY DEF CallsOf, Started
  <1>8. AuthorIn(new) \in {"program", "human"}
        /\ (AuthorIn(new) = "program" => new.event # "reconciled")
    BY DEF AuthorIn, VerdictIn
  <1>9. AuthorIn(new) = "program" /\ new.state = "succeeded" => CallsOf[p] > 0
    BY <1>1, <1>8 DEF CallsOf, Started
  <1>10. OneShot!Settle(p, new.state, AuthorIn(new))
    BY <1>1, <1>5, <1>6, <1>7, <1>9 DEF OneShot!Settle
  <1>11. QED
    BY <1>1, <1>8, <1>10 DEF OneShot!Next

\* The start of a tool handler is a Fire of its promotion.
LEMMA InvokeFires ==
  ASSUME IInv, NEW w \in Workers, Invoke(w)
  PROVE  OneShot!Next
  <1> DEFINE i == held[w]
             p == PromotionOf[i]
  <1>1. /\ pc[w] = "armed" /\ i \in Intents /\ Created(i) /\ Calling(w, i)
        /\ records' = records /\ invocations' = [invocations EXCEPT ![i] = @ + 1]
    BY DEF Invoke, IInv, CopyIsPast, Calling, AfterBoundary
  <1>2. /\ p \in Promotions /\ VerdictOf[p] = VerdictIn(records[i])
        /\ AuthorOf[p] = AuthorIn(records[i])
    BY <1>1, StoredVerdict
  <1>3. records[i].event \notin {"succeeded", "failed"}
    BY <1>1 DEF IInv, ProgramVerdictIsReal
  <1>4. AuthorOf[p] # "program"
    BY <1>1, <1>2, <1>3 DEF IInv, EventIsState, AuthorIn, VerdictIn
  <1>5. \A j \in Intents : PromotionOf[j] = p => invocations[j] = 0
    BY <1>1 DEF IInv, OneCaller, QuietBefore, Exclusive, Created
  <1>6. CallsOf[p] = 0
    BY <1>2, <1>5 DEF CallsOf, Started
  <1>7. CallsOf' = [CallsOf EXCEPT ![p] = 1]
    <2>1. /\ invocations'[i] = 1
          /\ \A j \in Intents : j # i => invocations'[j] = invocations[j]
      BY <1>1, <1>5 DEF IInv, TypeOK
    <2>2. \A j \in Intents : PromotionOf[j] = p /\ invocations'[j] > 0 <=> j = i
      BY <1>1, <1>5, <2>1
    <2>3. CallsOf'[p] = 1
      BY <1>1, <1>2, <2>1, <2>2 DEF CallsOf, Started
    <2>4. ASSUME NEW q \in Promotions, q # p
          PROVE  CallsOf'[q] = CallsOf[q]
      <3>1. \A j \in Intents : Started(q, j)' <=> Started(q, j)
        BY <2>1, <2>4 DEF Started
      <3>2. \A j \in Intents : Started(q, j) => invocations'[j] = invocations[j]
        BY <2>1, <2>4 DEF Started
      <3>3. QED
        BY <3>1, <3>2 DEF CallsOf
    <2>5. QED
      BY <1>2, <2>3, <2>4 DEF CallsOf
  <1>8. UNCHANGED <<VerdictOf, AuthorOf>>
    BY <1>1 DEF VerdictOf, AuthorOf, StateOf, SettledByHuman
  <1>9. QED
    BY <1>2, <1>4, <1>6, <1>7, <1>8 DEF OneShot!Next, OneShot!Fire

\* Every step of a worker is a Fire, a Settle or invisible.
LEMMA DispatchSimulates ==
  ASSUME IInv, IInv', NEW w \in Workers, Dispatch(w)
  PROVE  OneShot!Next \/ UNCHANGED <<CallsOf, VerdictOf, AuthorOf>>
  <1> USE DEF world, worker
  <1>1. ASSUME UNCHANGED <<records, invocations>>
        PROVE  UNCHANGED <<CallsOf, VerdictOf, AuthorOf>>
    BY <1>1, Invisible
  <1>2. ASSUME NEW i \in Intents, NEW now \in Time, NEW lease \in Leases, NEW commit \in Commit,
               Claim(w, i, now, lease, commit)
        PROVE  UNCHANGED <<CallsOf, VerdictOf, AuthorOf>>
    <2>1. /\ UNCHANGED invocations
          /\ \A j \in Intents : /\ VerdictIn(records'[j]) = VerdictIn(records[j])
                                /\ AuthorIn(records'[j]) = AuthorIn(records[j])
      BY <1>2 DEF Claim, Save, Step, VerdictIn, AuthorIn, IInv, TypeOK
    <2>2. QED
      BY <2>1, Invisible
  <1>3. ASSUME NEW now \in Time, NEW commit \in Commit, CommitBoundary(w, now, commit)
        PROVE  UNCHANGED <<CallsOf, VerdictOf, AuthorOf>>
    <2>1. copy[w].state = "claimed"
      BY <1>3 DEF CommitBoundary, IInv, CopyIsPast, BeforeBoundary
    <2>2. /\ UNCHANGED invocations
          /\ \A j \in Intents : /\ VerdictIn(records'[j]) = VerdictIn(records[j])
                                /\ AuthorIn(records'[j]) = AuthorIn(records[j])
      BY <1>3, <2>1 DEF CommitBoundary, CanTransition, Current, Save, Step, VerdictIn, AuthorIn,
                        IInv, TypeOK
    <2>3. QED
      BY <2>2, Invisible
  <1>4. ASSUME NEW commit \in Commit, CommitRejection(w, commit)
        PROVE  OneShot!Next \/ UNCHANGED <<CallsOf, VerdictOf, AuthorOf>>
    <2> DEFINE new == Step(copy[w], "failed", copy[w].expires, "failed")
    <2>1. /\ held[w] \in Intents /\ Created(held[w]) /\ copy[w].state = "claimed"
          /\ UNCHANGED invocations
      BY <1>4 DEF CommitRejection, IInv, CopyIsPast, BeforeBoundary
    <2>2. \/ records' = records
          \/ records' = [records EXCEPT ![held[w]] = new] /\ records[held[w]] = copy[w]
      BY <1>4 DEF CommitRejection, Save, CanTransition, Current
    <2>3. new.state = "failed"
      BY DEF Step
    <2>4. CASE records' = records
      BY <2>1, <2>4, Invisible
    <2>5. CASE records' = [records EXCEPT ![held[w]] = new] /\ records[held[w]] = copy[w]
      BY <2>1, <2>3, <2>5, Visible DEF VerdictIn
    <2>6. QED
      BY <2>2, <2>4, <2>5
  <1>5. ASSUME NEW commit \in Commit, CommitOutcome(w, commit)
        PROVE  OneShot!Next \/ UNCHANGED <<CallsOf, VerdictOf, AuthorOf>>
    <2> DEFINE new == Step(copy[w], outcome[w], copy[w].expires, outcome[w])
    <2>1. /\ held[w] \in Intents /\ Created(held[w]) /\ copy[w].state = "executing"
          /\ UNCHANGED invocations /\ pc[w] = "returned"
          /\ outcome[w] \in {"succeeded", "failed", "uncertain"}
      BY <1>5 DEF CommitOutcome, IInv, CopyIsPast, AfterBoundary, OutcomeIsReply, TypeOK
    <2>2. \/ records' = records
          \/ records' = [records EXCEPT ![held[w]] = new] /\ records[held[w]] = copy[w]
      BY <1>5 DEF CommitOutcome, Save, CanTransition, Current
    <2>3. new.state = outcome[w]
      BY DEF Step
    <2>4. outcome[w] = "succeeded" => invocations[held[w]] > 0
      BY <2>1 DEF IInv, OutcomeIsReply, OneCaller
    <2>5. CASE records' = records
      BY <2>1, <2>5, Invisible
    <2>6. CASE /\ records' = [records EXCEPT ![held[w]] = new] /\ records[held[w]] = copy[w]
               /\ outcome[w] = "uncertain"
      <3>1. \A j \in Intents : /\ VerdictIn(records'[j]) = VerdictIn(records[j])
                               /\ AuthorIn(records'[j]) = AuthorIn(records[j])
        BY <2>1, <2>3, <2>6 DEF VerdictIn, AuthorIn, IInv, TypeOK
      <3>2. QED
        BY <2>1, <3>1, Invisible
    <2>7. CASE /\ records' = [records EXCEPT ![held[w]] = new] /\ records[held[w]] = copy[w]
               /\ outcome[w] # "uncertain"
      BY <2>1, <2>3, <2>4, <2>7, Visible DEF VerdictIn
    <2>8. QED
      BY <2>2, <2>5, <2>6, <2>7
  <1>6. QED
    BY <1>1, <1>2, <1>3, <1>4, <1>5, InvokeFires
    DEF Dispatch, Adopt, LoadClaim, Validate, PreflightRefuses, ToolReturns, Crash

\* Every step of registration, recovery and reconciliation is a Settle or invisible.
LEMMA OperateSimulates ==
  ASSUME IInv, IInv', Operate
  PROVE  OneShot!Next \/ UNCHANGED <<CallsOf, VerdictOf, AuthorOf>>
  <1> USE DEF world, worker
  <1>1. ASSUME NEW i \in Intents, NEW commit \in Commit, Create(i, commit)
        PROVE  UNCHANGED <<CallsOf, VerdictOf, AuthorOf>>
    <2>1. /\ UNCHANGED invocations
          /\ \A j \in Intents : /\ VerdictIn(records'[j]) = VerdictIn(records[j])
                                /\ AuthorIn(records'[j]) = AuthorIn(records[j])
      BY <1>1 DEF Create, Reserved, Created, Save, Absent, VerdictIn, AuthorIn, IInv, TypeOK
    <2>2. QED
      BY <2>1, Invisible
  <1>2. ASSUME NEW now \in [Intents -> Time], NEW commit \in Commit, Recover(now, commit)
        PROVE  UNCHANGED <<CallsOf, VerdictOf, AuthorOf>>
    <2>1. /\ UNCHANGED invocations
          /\ \A j \in Intents : /\ VerdictIn(records'[j]) = VerdictIn(records[j])
                                /\ AuthorIn(records'[j]) = AuthorIn(records[j])
      BY <1>2 DEF Recover, Recovered, Expired, Step, VerdictIn, AuthorIn
    <2>2. QED
      BY <2>1, Invisible
  <1>3. ASSUME NEW i \in Intents, NEW revision \in Nat,
               NEW state \in {"succeeded", "failed", "uncertain"}, NEW commit \in Commit,
               Reconcile(i, revision, state, commit)
        PROVE  OneShot!Next \/ UNCHANGED <<CallsOf, VerdictOf, AuthorOf>>
    <2> DEFINE new == Step(records[i], state, records[i].expires, "reconciled")
    <2>1. /\ Created(i) /\ records[i].state = "uncertain" /\ UNCHANGED invocations
          /\ records' = records \/ records' = [records EXCEPT ![i] = new]
      BY <1>3 DEF Reconcile, Save, Created
    <2>2. new.state = state /\ new.event = "reconciled"
      BY DEF Step
    <2>3. CASE records' = records \/ state = "uncertain"
      <3>1. \A j \in Intents : /\ VerdictIn(records'[j]) = VerdictIn(records[j])
                               /\ AuthorIn(records'[j]) = AuthorIn(records[j])
        BY <2>1, <2>2, <2>3 DEF VerdictIn, AuthorIn, IInv, TypeOK
      <3>2. QED
        BY <2>1, <3>1, Invisible
    <2>4. CASE records' = [records EXCEPT ![i] = new] /\ state # "uncertain"
      BY <2>1, <2>2, <2>4, Visible DEF VerdictIn
    <2>5. QED
      BY <2>1, <2>3, <2>4
  <1>4. ASSUME NEW i \in Intents, SourcesChange(i)
        PROVE  UNCHANGED <<CallsOf, VerdictOf, AuthorOf>>
    BY <1>4, Invisible DEF SourcesChange
  <1>5. QED
    BY <1>1, <1>2, <1>3, <1>4, BoundAssumption DEF Operate

\* Durable execution implements OneShotDispatch: at most one Fire and one Settle of each
\* promotion, and no Fire after the program itself settled it.
THEOREM Refinement == Spec => ImplementsOneShot
  <1>1. Init => OneShot!Init
    BY DEF Init, OneShot!Init, CallsOf, Started, VerdictOf, AuthorOf, StateOf, SettledByHuman, Absent
  <1>2. IInv /\ IInv' /\ [Next]_vars => [OneShot!Next]_(OneShot!abstract)
    <2>1. CASE UNCHANGED vars
      BY <2>1, Invisible DEF vars, OneShot!abstract
    <2>2. QED
      BY <2>1, DispatchSimulates, OperateSimulates DEF Next, OneShot!abstract
  <1>3. QED
    BY <1>1, <1>2, Invariance, PTL DEF Spec, ImplementsOneShot, OneShot!Spec
=============================================================================

------------------------- MODULE RestrictedResponse -------------------------
(***************************************************************************)
(* The one response with a real effect: changing a registered test marker  *)
(* (src/soc_agent/linux_runtime/restricted_response.py and                 *)
(* restricted_resource.py).                                                *)
(*                                                                         *)
(* One process behind the writer lock serves operator requests one at a    *)
(* time.  Its history is an append-only table; the marker is a file.       *)
(* No transaction spans both, so the process may die, and an outsider may  *)
(* overwrite the file, between any two of their changes.  The history is   *)
(* kept here as what its readers make of it: the last status of each       *)
(* candidate and the candidate that completed last.                        *)
(***************************************************************************)
EXTENDS Integers, FiniteSets

CONSTANTS
  Findings,     \* completed investigations a response may be asked for
  Policies,     \* policy fingerprints: implementation and result
  NoCandidate   \* no original, and no candidate being executed

\* A candidate is the digest of its RestrictedInput.  A rollback is bound to the receipt
\* of the quarantine it undoes, and a quarantine has at most one receipt.
Quarantines == [finding : Findings, policy : Policies, undoes : {NoCandidate}]
Rollbacks ==
  {r \in [finding : Findings, policy : Policies, undoes : Quarantines] :
     r.finding = r.undoes.finding}
Candidates == Quarantines \cup Rollbacks

ASSUME CandidateAssumption == NoCandidate \notin Candidates

Before(c) == IF c.undoes = NoCandidate THEN "available" ELSE "quarantined"
After(c) == IF c.undoes = NoCandidate THEN "quarantined" ELSE "available"

VARIABLES
  status,      \* the last RESTRICTED_RECORD status of each candidate
  completed,   \* the candidate of the last completed record, or NoCandidate
  registered,  \* a RESTRICTED_TEST_MODE event is stored
  conflict,    \* a RESTRICTED_RECOVERY_CONFLICT event is stored
  runtime,     \* the state row of the runtime store
  marker,      \* content of test-resources/marker
  policy,      \* the policy the program evaluates
  pc,          \* where the process stands
  current,     \* the candidate it executes
  writes,      \* how often the marker was written for each candidate
  tampered     \* an outsider has changed the marker

history == <<status, completed, registered, conflict>>
world == <<policy, writes, tampered>>
vars == <<history, runtime, marker, pc, current, world>>

-----------------------------------------------------------------------------
Commit == {"ok", "rolled_back", "unseen"}
Applied(commit) == commit # "rolled_back"

Statuses == {"ABSENT", "PENDING_APPROVAL", "APPROVED", "REJECTED", "STARTED",
             "TEST_RESOURCE_CHANGED", "ROLLED_BACK", "UNKNOWN"}
Contents == {"available", "quarantined", "foreign"}

Uncertain(c) == status[c] \in {"STARTED", "UNKNOWN"}
Completed(c) == status[c] \in {"TEST_RESOURCE_CHANGED", "ROLLED_BACK"}

\* _expected_resource_digest: what the last receipt says, or the initial content.
Expected == IF completed = NoCandidate THEN "available" ELSE After(completed)

\* Wrong on purpose, for a run that must reject it: the candidate is not let go.
GoesKeeping(at, c) == pc' = at /\ current' = IF c = NoCandidate THEN current ELSE c

\* The process goes on to step `at` of the execution of c.
Goes(at, c) == pc' = at /\ current' = c

\* The history after the status of c became s, if the transaction was applied.
Save(c, s, commit) ==
  status' = IF Applied(commit) THEN [status EXCEPT ![c] = s] ELSE status

Init ==
  /\ status = [c \in Candidates |-> "ABSENT"]
  /\ completed = NoCandidate
  /\ registered = FALSE
  /\ conflict = FALSE
  /\ runtime = "STOPPED"
  /\ marker = "missing"
  /\ policy \in Policies
  /\ pc = "stopped"
  /\ current = NoCandidate
  /\ writes = [c \in Candidates |-> 0]
  /\ tampered = FALSE

-----------------------------------------------------------------------------
(* Preparing, starting and stopping.                                       *)

\* enable_test_mode, offline: the file is created first and never adopted, so an
\* interrupted preparation leaves a file nobody may register.
CreateMarker ==
  /\ pc = "stopped"
  /\ runtime = "STOPPED"
  /\ ~registered
  /\ marker = "missing"
  /\ marker' = "available"
  /\ Goes("registering", NoCandidate)
  /\ UNCHANGED <<history, runtime, world>>

Register(commit) ==
  /\ pc = "registering"
  /\ registered' = Applied(commit)
  /\ Goes("stopped", NoCandidate)
  /\ UNCHANGED <<status, completed, conflict, runtime, marker, world>>

Start ==
  /\ pc = "stopped"
  /\ runtime' = "RUNNING"
  /\ Goes("starting", NoCandidate)
  /\ UNCHANGED <<history, marker, world>>

\* Wrong on purpose, for runs that must reject them: recovery takes an attempt for one
\* that had no effect, or for one that succeeded.
RecoveredForRetry(s) == IF s = "STARTED" THEN "APPROVED" ELSE s
RecoveredAsDone(s) == IF s = "STARTED" THEN "TEST_RESOURCE_CHANGED" ELSE s

\* An attempt without a receipt is never confirmed and never repeated.
RecoveredStatus(s) == IF s = "STARTED" THEN "UNKNOWN" ELSE s

\* Without an uncertain attempt the marker must be what the history says.
Comparable == registered /\ \A c \in Candidates : ~Uncertain(c)

\* recover: one transaction that reads the marker, which may be unreadable.
RecoverHistory(readable, commit) ==
  /\ status' = IF Applied(commit) THEN [c \in Candidates |-> RecoveredStatus(status[c])]
               ELSE status
  /\ conflict' = (conflict \/ (Applied(commit) /\ Comparable
                                 /\ (~readable \/ marker # Expected)))
  /\ UNCHANGED <<completed, registered>>

\* OperatorServer.start recovers before it listens; an error ends the runtime.
RecoverAtStart(readable, commit) ==
  /\ pc = "starting"
  /\ RecoverHistory(readable, commit)
  /\ Goes(IF commit = "ok" THEN "serving" ELSE "stopped", NoCandidate)
  /\ runtime' = IF commit = "ok" THEN runtime ELSE "FAILED"
  /\ UNCHANGED <<marker, world>>

Stop ==
  /\ pc = "serving"
  /\ runtime' \in {"STOPPED", "FAILED"}
  /\ Goes("stopped", NoCandidate)
  /\ UNCHANGED <<history, marker, world>>

Crash ==
  /\ pc # "stopped"
  /\ Goes("stopped", NoCandidate)
  /\ UNCHANGED <<history, runtime, marker, world>>

\* The program is replaced between two runs.
PolicyChanges ==
  /\ pc = "stopped"
  /\ policy' \in Policies \ {policy}
  /\ UNCHANGED <<history, runtime, marker, pc, current, writes, tampered>>

Tamper ==
  /\ marker # "missing"
  /\ marker' \in Contents \ {marker}
  /\ tampered' = TRUE
  /\ UNCHANGED <<history, runtime, pc, current, policy, writes>>

-----------------------------------------------------------------------------
(* Operator requests.  Any of them may be refused, which changes nothing.  *)

\* Wrong on purpose, for a run that must reject it: attempts of other candidates do not
\* block this one.
NoOtherAttemptIgnored(c) == TRUE

\* No other candidate has an attempt whose outcome is open.
NoOtherAttempt(c) == \A d \in Candidates \ {c} : ~Uncertain(d)

\* _verify: mode, other attempts, policy, marker and the original of a rollback.  The
\* context of a completed finding does not change.
Verified(c, content) ==
  /\ registered
  /\ ~conflict
  /\ NoOtherAttempt(c)
  /\ c.policy = policy
  /\ marker = content
  /\ c.undoes # NoCandidate => status[c.undoes] = "TEST_RESOURCE_CHANGED"

\* request: an input that was asked for before returns its existing record.
Request(c, commit) ==
  /\ pc = "serving"
  /\ status[c] = "ABSENT"
  /\ Verified(c, Before(c))
  /\ Save(c, "PENDING_APPROVAL", commit)
  /\ UNCHANGED <<completed, registered, conflict, runtime, marker, pc, current, world>>

Review(c, decision, commit) ==
  /\ pc = "serving"
  /\ status[c] = "PENDING_APPROVAL"
  /\ Verified(c, Before(c))
  /\ Save(c, decision, commit)
  /\ UNCHANGED <<completed, registered, conflict, runtime, marker, pc, current, world>>

\* execute: STARTED is durable before the marker may change.  An error of this commit
\* ends the request without recovery.
Reserve(c, commit) ==
  /\ pc = "serving"
  /\ status[c] = "APPROVED"
  /\ Verified(c, Before(c))
  /\ Save(c, "STARTED", commit)
  /\ IF commit = "ok" THEN Goes("reserved", c) ELSE UNCHANGED <<pc, current>>
  /\ UNCHANGED <<completed, registered, conflict, runtime, marker, world>>

\* The tool validates everything again when it opens the marker and once more directly
\* before it writes; an expired approval or a stop request refuses as well.
Revalidate ==
  /\ \/ pc = "reserved" /\ Verified(current, Before(current)) /\ Goes("opened", current)
     \/ pc = "opened" /\ Verified(current, Before(current)) /\ Goes("writing", current)
     \/ pc \in {"reserved", "opened"} /\ Goes("failed", current)
  /\ UNCHANGED <<history, runtime, marker, world>>

\* pwrite: all of the content over what is there, whose tail stays until the file is
\* truncated, or less than all of it.
Overwritten(complete) ==
  CASE ~complete -> {marker, "torn"}
    [] complete /\ marker = "foreign" -> {"torn", "foreign"}
    [] complete /\ marker # "foreign" ->
         {IF marker = "quarantined" /\ After(current) = "available" THEN "torn"
          ELSE After(current)}

Write(complete) ==
  /\ pc = "writing"
  /\ marker' \in Overwritten(complete)
  /\ writes' = [writes EXCEPT ![current] = @ + 1]
  /\ Goes(IF complete THEN "truncating" ELSE "failed", current)
  /\ UNCHANGED <<history, runtime, policy, tampered>>

\* ftruncate, fsync and reading back what was written.
Truncate ==
  /\ pc = "truncating"
  /\ marker' = IF marker \in {"torn", After(current)} THEN After(current) ELSE "foreign"
  /\ \/ marker' = After(current) /\ Goes("written", current)
     \/ Goes("failed", current)
  /\ UNCHANGED <<history, runtime, world>>

\* The completion transaction verifies once more, against the new content; receipt and
\* audit are one transaction; any error is followed by recovery.
CommitReceipt(commit) ==
  LET done == IF current \in Quarantines THEN "TEST_RESOURCE_CHANGED" ELSE "ROLLED_BACK"
      saved == Verified(current, After(current)) /\ Applied(commit)
  IN /\ pc = "written"
     /\ status' = IF saved THEN [status EXCEPT ![current] = done] ELSE status
     /\ completed' = IF saved THEN current ELSE completed
     /\ IF saved /\ commit = "ok" THEN Goes("serving", NoCandidate) ELSE Goes("failed", current)
     /\ UNCHANGED <<registered, conflict, runtime, marker, world>>

\* The except clause of execute; the error reaches the operator in any case.
RecoverAfterFailure(readable, commit) ==
  /\ pc = "failed"
  /\ RecoverHistory(readable, commit)
  /\ Goes("serving", NoCandidate)
  /\ UNCHANGED <<runtime, marker, world>>

-----------------------------------------------------------------------------
Next ==
  \/ CreateMarker \/ Start \/ Stop \/ Crash \/ PolicyChanges \/ Tamper
  \/ Revalidate \/ Truncate
  \/ \E complete \in BOOLEAN : Write(complete)
  \/ \E commit \in Commit :
       \/ Register(commit) \/ CommitReceipt(commit)
       \/ \E readable \in BOOLEAN :
            RecoverAtStart(readable, commit) \/ RecoverAfterFailure(readable, commit)
       \/ \E c \in Candidates :
            \/ Request(c, commit) \/ Reserve(c, commit)
            \/ \E decision \in {"APPROVED", "REJECTED"} : Review(c, decision, commit)

Spec == Init /\ [][Next]_vars

-----------------------------------------------------------------------------
(* Properties.                                                             *)

Executing == {"reserved", "opened", "writing", "truncating", "written"}

\* The stores, the marker and the process hold values of their types, and a process in
\* the middle of an execution holds a candidate.
TypeOK ==
  /\ status \in [Candidates -> Statuses]
  /\ completed \in Candidates \cup {NoCandidate}
  /\ registered \in BOOLEAN /\ conflict \in BOOLEAN
  /\ runtime \in {"STOPPED", "RUNNING", "FAILED"}
  /\ marker \in Contents \cup {"missing", "torn"}
  /\ policy \in Policies
  /\ pc \in Executing \cup {"stopped", "registering", "starting", "serving", "failed"}
  /\ current \in Candidates \cup {NoCandidate}
  /\ pc \in Executing \cup {"failed"} <=> current # NoCandidate
  /\ writes \in [Candidates -> Nat]
  /\ tampered \in BOOLEAN

\* While no outsider touched the marker, no attempt is open and no conflict is recorded,
\* the marker is exactly what the last receipt says: no crash, torn write or lost commit
\* answer separates the history from the file without the history saying so.
MarkerIsExpected ==
  registered /\ ~tampered /\ ~conflict /\ (\A c \in Candidates : ~Uncertain(c))
    => marker = Expected

\* An attempt whose outcome is unknown, or a recorded conflict, stops every later write
\* of any candidate and is never taken back (uncertain attempts are not replayed).
UnknownBlocks ==
  [][/\ conflict \/ (\E c \in Candidates : status[c] = "UNKNOWN") => UNCHANGED writes
     /\ conflict => conflict'
     /\ \A c \in Candidates : status[c] = "UNKNOWN" => status'[c] = "UNKNOWN"]_vars

\* "Duplicate rollback is refused" (docs/linux-soc-v1/restricted-response-executor.md): a
\* quarantine is rolled back at most once.
RollbackOnce ==
  \A r, s \in Rollbacks :
    status[r] = "ROLLED_BACK" /\ status[s] = "ROLLED_BACK" /\ r.undoes = s.undoes => r = s

-----------------------------------------------------------------------------
(* The promise it shares with durable execution.                           *)

OneShot ==
  INSTANCE OneShotDispatch
    WITH Promotions <- Candidates,
         calls <- writes,
         verdict <- [c \in Candidates |-> IF Completed(c) THEN "succeeded" ELSE "open"],
         author <- [c \in Candidates |-> IF Completed(c) THEN "program" ELSE "nobody"]

\* Each candidate writes the marker at most once, a receipt is stored at most once and
\* only after that write, and nothing is written after it.
ImplementsOneShot == OneShot!Spec

-----------------------------------------------------------------------------
(* The inductive invariant behind the safety properties.                   *)

\* At most one attempt is open, and the process executes only that one.
OneAttempt ==
  /\ \A c, d \in Candidates : Uncertain(c) /\ Uncertain(d) => c = d
  /\ pc \in Executing => status[current] = "STARTED" /\ registered /\ ~conflict

\* A candidate is written by its only attempt and has a receipt only after that.
OneWrite ==
  /\ \A c \in Candidates :
       /\ writes[c] <= 1
       /\ status[c] \in {"ABSENT", "PENDING_APPROVAL", "APPROVED", "REJECTED"} => writes[c] = 0
       /\ Completed(c) => writes[c] = 1
  /\ pc \in {"reserved", "opened", "writing"} => writes[current] = 0
  /\ pc \in {"truncating", "written"} => writes[current] = 1

\* Untouched by outsiders, the marker follows the process: unregistered it is new, after
\* the write it is what the candidate wants, between attempts what the history says.
MarkerFollows ==
  ~tampered =>
    /\ ~registered => marker \in {"missing", "available"} /\ completed = NoCandidate
    /\ pc = "registering" => ~registered /\ marker = "available"
    /\ pc = "written" => marker = After(current)
    /\ MarkerIsExpected

IInv == TypeOK /\ OneAttempt /\ OneWrite /\ MarkerFollows
=============================================================================

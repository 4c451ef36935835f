------------------------ MODULE HumanGovernanceProofs ------------------------
(***************************************************************************)
(* Theorems about HumanGovernance for any processes, cases and responses,  *)
(* any number of confirmations, revisions and faults.                      *)
(***************************************************************************)
EXTENDS HumanGovernance, TLAPS

-----------------------------------------------------------------------------
(* Confirmations.                                                          *)

\* What a confirmation may be given for.
LEMMA ContextType ==
  ASSUME NEW action \in Actions, NEW object \in Cases \cup Responses
  PROVE  For(action, object) \in Context /\ For(action, object) # Nothing
  BY DEF For, Context, Nothing, Actions

\* A consumption under a context of its type: nothing consumed is changed, what is new is
\* what was presented, and it is used for the first time.
LEMMA ConsumeStep ==
  ASSUME TypeOK, ConsumedIsUsed, NEW c \in Confirmations, NEW context \in Context,
         NEW commit \in Commit, NEW p \in Processes,
         Presents(p, c, context), Consumes(c, context, commit), UNCHANGED incident
  PROVE  /\ consumed' \in [Confirmations -> [context : Context, revision : Revision]
                                            \cup {Unspent}]
         /\ uses' \in [Confirmations -> 0 .. 1]
         /\ bound' \in [Confirmations -> Context \cup {Nothing}]
         /\ ConsumedIsUsed'
         /\ \A d \in Confirmations : consumed[d] # Unspent => consumed'[d] = consumed[d]
         /\ Applied(commit) =>
              consumed'[c] = [context |-> context, revision |-> incident.revision]
  <1>1. consumed[c] = Unspent /\ uses[c] = 0
    BY DEF Presents, Spent, ConsumedIsUsed
  <1>2. incident.revision \in Revision
    BY DEF TypeOK
  <1>3. [context |-> context, revision |-> incident.revision] # Unspent
    BY DEF Unspent, Context, Nothing, Actions
  <1> DEFINE spent == [context |-> context, revision |-> incident.revision]
  <1>4. /\ consumed' = consumed \/ consumed' = [consumed EXCEPT ![c] = spent]
        /\ Applied(commit) => consumed' = [consumed EXCEPT ![c] = spent]
        /\ \/ consumed' = consumed /\ uses' = uses
           \/ /\ consumed' = [consumed EXCEPT ![c] = spent]
              /\ uses' = [uses EXCEPT ![c] = uses[c] + 1]
        /\ bound' = [bound EXCEPT ![c] = context]
    BY DEF Consumes, Presents
  <1>5. spent \in [context : Context, revision : Revision]
    BY <1>2
  <1>6. QED
    BY <1>1, <1>2, <1>3, <1>4, <1>5, GovernanceAssumption
    DEF TypeOK, ConsumedIsUsed, Revision

\* What a step may do to the confirmations: those that were consumed stay as they are.
Kept == \A d \in Confirmations : consumed[d] # Unspent => consumed'[d] = consumed[d]

\* A confirmation for an action is a consumed one.
LEMMA ConfirmedIsConsumed ==
  ASSUME NEW c \in Confirmations, NEW action \in Actions,
         \E object : consumed[c].context = For(action, object)
  PROVE  consumed[c] # Unspent
  BY DEF For, Unspent, Nothing, Actions

\* A decision that was confirmed stays confirmed.
LEMMA ConfirmedStays ==
  ASSUME Kept
  PROVE  \A c, action, object, revision :
           action \in Actions /\ Confirmed(c, action, object, revision) =>
             Confirmed(c, action, object, revision)'
  BY ConfirmedIsConsumed DEF Kept, Confirmed

-----------------------------------------------------------------------------
(* The initial state and the incident.                                     *)

LEMMA InitInvariant == Init => IInv
  <1> SUFFICES ASSUME Init
               PROVE  IInv
    OBVIOUS
  <1> USE DEF Init
  <1>a. NoCase \in Case /\ NoResponse \in Response /\ Idle \in Operation
    BY DEF NoCase, Case, NoResponse, Response, Idle, Operation, Stages, ResponseStages, Steps
  <1>1. TypeOK
    BY <1>a, GovernanceAssumption DEF TypeOK, Statuses, Policies, Revision
  <1>2. ConsumedIsUsed
    BY DEF ConsumedIsUsed, Unspent
  <1>3. CasesConfirmed /\ InProgress /\ ResponsesConfirmed
    BY DEF CasesConfirmed, NoCase, Stages, InProgress, ResponsesConfirmed, NoResponse
  <1>4. QED
    BY <1>1, <1>2, <1>3 DEF IInv

\* Evidence moves the incident on and away from every snapshot.
LEMMA EvidenceStep ==
  ASSUME IInv, AppendEvidence
  PROVE  IInv'
  <1> USE DEF IInv, AppendEvidence, human
  <1>1. TypeOK'
    BY GovernanceAssumption DEF TypeOK, Revision
  <1>2. /\ incident.revision \in Int /\ incident'.revision = incident.revision + 1
        /\ \A c \in Confirmations : consumed[c].revision \in Int
    BY GovernanceAssumption DEF TypeOK, Revision, Unspent
  <1>3. ConsumedIsUsed'
    BY <1>2 DEF ConsumedIsUsed
  <1>4. CasesConfirmed'
    BY <1>2, GovernanceAssumption DEF CasesConfirmed, Confirmed, TypeOK, Revision
  <1>5. InProgress'
    BY DEF InProgress, ConfirmedSince, Has, At
  <1>6. ResponsesConfirmed'
    BY <1>2, GovernanceAssumption DEF ResponsesConfirmed, Confirmed, Revision
  <1>7. QED
    BY <1>1, <1>3, <1>4, <1>5, <1>6

\* A request opens a case on the current snapshot.
LEMMA RequestStep ==
  ASSUME IInv, NEW k \in Cases, RequestReview(k)
  PROVE  IInv'
  <1> USE DEF IInv
  <1> DEFINE new == [NoCase EXCEPT !.stage = "requested", !.snapshot = incident.revision]
  <1>1. new \in Case /\ new.stage = "requested" /\ new.applied = -1
    BY DEF TypeOK, NoCase, Case, Stages
  <1>2. /\ case' = [case EXCEPT ![k] = new]
        /\ UNCHANGED <<incident, consumed, used, bound, uses, faults, response, policy, pc>>
    BY DEF RequestReview, human
  <1> HIDE DEF new
  <1>3. TypeOK'
    BY <1>1, <1>2 DEF TypeOK
  <1>4. ConsumedIsUsed' /\ InProgress' /\ ResponsesConfirmed'
    BY <1>2 DEF ConsumedIsUsed, InProgress, ConfirmedSince, Has, At, ResponsesConfirmed, Confirmed
  <1>5. CasesConfirmed'
    <2>1. -1 \notin Revision
      BY GovernanceAssumption DEF Revision
    <2>2. QED
      BY <1>1, <1>2, <2>1 DEF CasesConfirmed, Confirmed, TypeOK
  <1>6. QED
    BY <1>3, <1>4, <1>5

\* A change is proposed from an eligible review.
LEMMA ProposalStep ==
  ASSUME IInv, NEW k \in Cases, ProposeChange(k)
  PROVE  IInv'
  <1> USE DEF IInv, ProposeChange, human
  <1>1. PICK after \in Statuses :
          case' = [case EXCEPT ![k].stage = "proposed", ![k].after = after]
    OBVIOUS
  <1> DEFINE new == [case[k] EXCEPT !.stage = "proposed", !.after = after]
  <1>a. case[k] \in Case
    BY DEF TypeOK
  <1>2. /\ new \in Case /\ new.stage = "proposed"
        /\ new.snapshot = case[k].snapshot /\ new.eligible = case[k].eligible
        /\ new.reviewer = case[k].reviewer /\ new.applied = case[k].applied
    BY <1>a DEF Case, Stages
  <1>3. case' = [case EXCEPT ![k] = new]
    BY <1>1 DEF TypeOK, Case
  <1> HIDE DEF new
  <1>4. TypeOK'
    BY <1>2, <1>3 DEF TypeOK
  <1>5. ConsumedIsUsed' /\ InProgress' /\ ResponsesConfirmed'
    BY DEF ConsumedIsUsed, InProgress, ConfirmedSince, Has, At, ResponsesConfirmed, Confirmed
  <1>6. CasesConfirmed'
    BY <1>2, <1>3 DEF CasesConfirmed, Confirmed, TypeOK, Stages
  <1>7. QED
    BY <1>4, <1>5, <1>6

\* What a confirmation for a case leaves alone, and that it is given on the case's snapshot.
LEMMA CaseConfirmation ==
  ASSUME IInv, NEW p \in Processes, NEW k \in Cases, NEW c \in Confirmations,
         NEW commit \in Commit, NEW action \in {"record_review", "authorize_state_change"},
         Anchored(k), VerifiesInside(p, c, For(action, k), commit),
         UNCHANGED <<incident, response, policy, pc>>,
         case' \in [Cases -> Case]
  PROVE  /\ TypeOK' /\ ConsumedIsUsed' /\ InProgress' /\ ResponsesConfirmed' /\ Kept
         /\ Applied(commit) =>
              consumed'[c] = [context |-> For(action, k), revision |-> case[k].snapshot]
  <1> USE DEF IInv
  <1>1. For(action, k) \in Context
    BY ContextType DEF Actions
  <1>2. Presents(p, c, For(action, k)) /\ Consumes(c, For(action, k), commit)
    BY DEF VerifiesInside
  <1>3. /\ consumed' \in [Confirmations -> [context : Context, revision : Revision]
                                           \cup {Unspent}]
        /\ uses' \in [Confirmations -> 0 .. 1]
        /\ bound' \in [Confirmations -> Context \cup {Nothing}]
        /\ ConsumedIsUsed' /\ Kept
        /\ Applied(commit) =>
             consumed'[c] = [context |-> For(action, k), revision |-> incident.revision]
    BY <1>1, <1>2, ConsumeStep DEF Kept
  <1>4. used' \in [Processes -> SUBSET Confirmations]
    BY DEF VerifiesInside, TypeOK
  <1>5. TypeOK'
    BY <1>3, <1>4 DEF TypeOK
  <1>6. InProgress'
    <2>1. \A d, a, r : a \in Actions /\ ConfirmedSince(d, a, r) => ConfirmedSince(d, a, r)'
      BY <1>3, ConfirmedIsConsumed DEF ConfirmedSince, Kept
    <2>2. QED
      BY <2>1 DEF InProgress, Has, At, Actions
  <1>7. ResponsesConfirmed'
    BY <1>3, ConfirmedStays DEF ResponsesConfirmed, Actions
  <1>8. QED
    BY <1>3, <1>5, <1>6, <1>7 DEF Anchored

\* A review is confirmed on the snapshot it was requested for.
LEMMA RecordStep ==
  ASSUME IInv, NEW p \in Processes, NEW k \in Cases, NEW c \in Confirmations,
         NEW commit \in Commit, RecordReview(p, k, c, commit)
  PROVE  IInv'
  <1> USE DEF IInv
  <1>1. PICK eligible \in BOOLEAN :
          case' = IF Applied(commit)
                  THEN [case EXCEPT ![k].stage = "reviewed", ![k].eligible = eligible,
                                    ![k].reviewer = c]
                  ELSE case
    BY DEF RecordReview
  <1>2. /\ Anchored(k) /\ VerifiesInside(p, c, For("record_review", k), commit)
        /\ UNCHANGED <<incident, response, policy, pc>> /\ case[k].stage = "requested"
    BY DEF RecordReview
  <1> DEFINE new == [case[k] EXCEPT !.stage = "reviewed", !.eligible = eligible, !.reviewer = c]
  <1>3. case[k] \in Case
    BY DEF TypeOK
  <1>4. /\ new \in Case /\ new.stage = "reviewed" /\ new.reviewer = c
        /\ new.snapshot = case[k].snapshot /\ new.applied = case[k].applied
    BY <1>3 DEF Case, Stages
  <1>5. case' = IF Applied(commit) THEN [case EXCEPT ![k] = new] ELSE case
    BY <1>1, <1>3 DEF TypeOK, Case
  <1> HIDE DEF new
  <1>6. case' \in [Cases -> Case]
    BY <1>4, <1>5 DEF TypeOK
  <1>7. /\ TypeOK' /\ ConsumedIsUsed' /\ InProgress' /\ ResponsesConfirmed' /\ Kept
        /\ Applied(commit) =>
             consumed'[c] = [context |-> For("record_review", k), revision |-> case[k].snapshot]
    BY <1>2, <1>6, CaseConfirmation
  <1>8. CasesConfirmed'
    BY <1>2, <1>4, <1>5, <1>7, ConfirmedStays DEF CasesConfirmed, Confirmed, TypeOK, Actions, Stages
  <1>9. QED
    BY <1>7, <1>8

\* An authorization is confirmed on the snapshot of its review.
LEMMA AuthorizeStep ==
  ASSUME IInv, NEW p \in Processes, NEW k \in Cases, NEW c \in Confirmations,
         NEW commit \in Commit, AuthorizeChange(p, k, c, commit)
  PROVE  IInv'
  <1> USE DEF IInv
  <1>1. /\ Anchored(k) /\ VerifiesInside(p, c, For("authorize_state_change", k), commit)
        /\ UNCHANGED <<incident, response, policy, pc>> /\ case[k].stage = "proposed"
        /\ case' = IF Applied(commit)
                   THEN [case EXCEPT ![k].stage = "authorized", ![k].authorizer = c]
                   ELSE case
    BY DEF AuthorizeChange
  <1> DEFINE new == [case[k] EXCEPT !.stage = "authorized", !.authorizer = c]
  <1>2. case[k] \in Case
    BY DEF TypeOK
  <1>3. /\ new \in Case /\ new.stage = "authorized" /\ new.authorizer = c
        /\ new.snapshot = case[k].snapshot /\ new.applied = case[k].applied
        /\ new.reviewer = case[k].reviewer /\ new.eligible = case[k].eligible
    BY <1>2 DEF Case, Stages
  <1>4. case' = IF Applied(commit) THEN [case EXCEPT ![k] = new] ELSE case
    BY <1>1, <1>2 DEF TypeOK, Case
  <1> HIDE DEF new
  <1>5. case' \in [Cases -> Case]
    BY <1>3, <1>4 DEF TypeOK
  <1>6. /\ TypeOK' /\ ConsumedIsUsed' /\ InProgress' /\ ResponsesConfirmed' /\ Kept
        /\ Applied(commit) =>
             consumed'[c] = [context |-> For("authorize_state_change", k),
                             revision |-> case[k].snapshot]
    BY <1>1, <1>5, CaseConfirmation
  <1>7. CasesConfirmed'
    BY <1>1, <1>3, <1>4, <1>6, ConfirmedStays
    DEF CasesConfirmed, Confirmed, TypeOK, Actions, Stages
  <1>8. QED
    BY <1>6, <1>7

\* An application takes the incident past the snapshot of its case.
LEMMA ApplyStep ==
  ASSUME IInv, NEW k \in Cases, Apply(k)
  PROVE  IInv'
  <1> USE DEF IInv
  <1>1. /\ case[k].stage = "authorized" /\ case[k].snapshot = incident.revision
        /\ incident.revision < MaxRevision
        /\ incident' = [revision |-> incident.revision + 1, status |-> case[k].after]
        /\ Permitted(incident.status, case[k].after)
        /\ case' = [case EXCEPT ![k].stage = "applied", ![k].applied = incident.revision]
        /\ UNCHANGED <<consumed, used, bound, uses, faults, response, policy, pc>>
    BY DEF Apply, Anchored, human
  <1>2. /\ incident.revision \in Int /\ MaxRevision \in Int
        /\ \A c \in Confirmations : consumed[c].revision \in Int
    BY GovernanceAssumption DEF TypeOK, Revision, Unspent
  <1> DEFINE new == [case[k] EXCEPT !.stage = "applied", !.applied = incident.revision]
  <1>3. case[k] \in Case
    BY DEF TypeOK
  <1>4. /\ new \in Case /\ new.stage = "applied" /\ new.applied = incident.revision
        /\ new.snapshot = case[k].snapshot /\ new.eligible = case[k].eligible
        /\ new.reviewer = case[k].reviewer /\ new.authorizer = case[k].authorizer
    BY <1>3 DEF Case, Stages, TypeOK
  <1>5. case' = [case EXCEPT ![k] = new]
    BY <1>1, <1>3 DEF TypeOK, Case
  <1> HIDE DEF new
  <1>6. case[k].after \in Statuses
    BY <1>1, <1>3 DEF Permitted, Case, Statuses, TypeOK
  <1>7. TypeOK'
    <2>1. incident' \in [revision : Revision, status : Statuses]
      BY <1>1, <1>2, <1>6, GovernanceAssumption DEF TypeOK, Revision
    <2>2. QED
      BY <1>1, <1>4, <1>5, <2>1 DEF TypeOK
  <1>8. ConsumedIsUsed'
    BY <1>1, <1>2 DEF ConsumedIsUsed
  <1>9. CasesConfirmed'
    <2>1. incident.revision \in Revision /\ incident'.revision = incident.revision + 1
      BY <1>1 DEF TypeOK
    <2>2. \A j \in Cases : /\ case[j].applied # incident.revision
                           /\ case[j].stage = "applied" => case[j].applied < incident.revision + 1
      BY <1>2, <2>1, GovernanceAssumption DEF CasesConfirmed, Revision
    <2>3. /\ incident.revision < incident'.revision
          /\ \A c \in Confirmations : consumed'[c] = consumed[c]
      BY <1>1, <1>2, <2>1
    <2>4. QED
      <3> SUFFICES ASSUME NEW j \in Cases
                   PROVE  CasesConfirmed!(j)'
        BY DEF CasesConfirmed
      <3>1. CASE j = k
        BY <1>1, <1>4, <1>5, <2>1, <2>2, <2>3, <3>1 DEF CasesConfirmed, Confirmed, TypeOK, Stages
      <3>2. CASE j # k
        BY <1>1, <1>4, <1>5, <2>1, <2>2, <2>3, <3>2 DEF CasesConfirmed, Confirmed, TypeOK, Stages
      <3>3. QED
        BY <3>1, <3>2
  <1>10. InProgress'
    BY <1>1 DEF InProgress, ConfirmedSince, Has, At
  <1>11. ResponsesConfirmed'
    BY <1>1, <1>2, GovernanceAssumption DEF ResponsesConfirmed, Confirmed, Revision
  <1>12. QED
    BY <1>7, <1>8, <1>9, <1>10, <1>11

-----------------------------------------------------------------------------
(* Responses.                                                              *)

\* Steps of the server leave the cases as they were.
LEMMA CasesStay ==
  ASSUME IInv, Kept, UNCHANGED <<incident, case>>
  PROVE  CasesConfirmed'
  BY ConfirmedStays DEF IInv, CasesConfirmed, Actions

\* A response changed at rest: without a confirmation only the server's memory moves.
LEMMA ResponseStays ==
  ASSUME IInv, UNCHANGED <<incident, case, consumed, bound, uses>>,
         policy' \in Policies, pc' \in Operation, used' \in [Processes -> SUBSET Confirmations],
         response' \in [Responses -> Response]
  PROVE  TypeOK' /\ ConsumedIsUsed' /\ CasesConfirmed'
  <1>1. Kept
    BY DEF Kept
  <1>2. QED
    BY <1>1, CasesStay DEF IInv, TypeOK, ConsumedIsUsed

\* A draft is about the current snapshot.
LEMMA DraftStep ==
  ASSUME IInv, NEW r \in Responses, NEW ready \in BOOLEAN, DraftReview(r, ready)
  PROVE  IInv'
  <1> USE DEF IInv
  <1> DEFINE new == [NoResponse EXCEPT !.stage = "drafted", !.snapshot = incident.revision,
                                       !.ready = ready]
  <1>1. /\ response' = [response EXCEPT ![r] = new] /\ pc = Idle
        /\ UNCHANGED <<incident, case, consumed, used, bound, uses, faults, policy, pc>>
    BY DEF DraftReview, human, Free
  <1>2. new \in Response /\ new.stage = "drafted" /\ new.snapshot = incident.revision
    BY DEF NoResponse, Response, ResponseStages, TypeOK
  <1> HIDE DEF new
  <1>3. TypeOK' /\ ConsumedIsUsed' /\ CasesConfirmed'
    BY <1>1, <1>2, ResponseStays DEF TypeOK
  <1>4. InProgress'
    BY <1>1 DEF InProgress
  <1>5. incident.revision \in Revision /\ incident.revision <= incident.revision
    BY GovernanceAssumption DEF TypeOK, Revision
  <1>6. ResponsesConfirmed'
    BY <1>1, <1>2, <1>5 DEF ResponsesConfirmed, Confirmed, TypeOK
  <1>7. QED
    BY <1>3, <1>4, <1>6

\* Promotion, and a request for approval: validated in one operation without a confirmation.
LEMMA PromotionStep ==
  ASSUME IInv, NEW r \in Responses, Promote(r) \/ RequestApproval(r)
  PROVE  IInv'
  <1> USE DEF IInv
  <1>1. PICK stage \in {"promoted", "pending"}, verdict \in Policies :
          /\ response' = [response EXCEPT ![r].stage = stage, ![r].policy = verdict]
          /\ response[r].stage \in {"reviewed", "promoted"} /\ pc = Idle
          /\ response[r].stage = "reviewed" =>
               response[r].ready /\ (verdict = "allow" => Floor = "allow")
          /\ response[r].stage = "promoted" => verdict = response[r].policy
          /\ UNCHANGED <<incident, case, consumed, used, bound, uses, faults, policy, pc>>
    <2>1. CASE Promote(r)
      BY <2>1, GovernanceAssumption DEF Promote, Free, Has, Checked, human, TypeOK
    <2>2. CASE RequestApproval(r)
      <3>1. response[r] \in Response /\ response[r].policy = policy /\ policy \in Policies
        BY <2>2 DEF TypeOK, RequestApproval, Promoted
      <3>2. response' = [response EXCEPT ![r].stage = "pending", ![r].policy = policy]
        BY <2>2, <3>1 DEF RequestApproval, TypeOK, Response
      <3>3. QED
        BY <2>2, <3>1, <3>2 DEF RequestApproval, Free, Has, human
    <2>3. QED
      BY <2>1, <2>2
  <1> DEFINE new == [response[r] EXCEPT !.stage = stage, !.policy = verdict]
  <1>2. response[r] \in Response
    BY DEF TypeOK
  <1>3. /\ new \in Response /\ new.stage = stage /\ new.policy = verdict
        /\ new.snapshot = response[r].snapshot /\ new.ready = response[r].ready
        /\ new.reviewer = response[r].reviewer
    BY <1>2 DEF Response, ResponseStages
  <1>4. response' = [response EXCEPT ![r] = new]
    BY <1>1, <1>2 DEF TypeOK, Response
  <1> HIDE DEF new
  <1>5. TypeOK' /\ ConsumedIsUsed' /\ CasesConfirmed'
    BY <1>1, <1>3, <1>4, ResponseStays DEF TypeOK
  <1>6. InProgress'
    BY <1>1 DEF InProgress
  <1>7. ResponsesConfirmed'
    BY <1>1, <1>3, <1>4 DEF ResponsesConfirmed, Confirmed, TypeOK
  <1>8. QED
    BY <1>5, <1>6, <1>7

\* A confirmation in a transaction of its own: its revision is not before the snapshot.
LEMMA ResponseConfirmation ==
  ASSUME IInv, NEW r \in Responses, NEW c \in Confirmations, NEW commit \in Commit,
         NEW action \in {"review_response_action", "approve_promoted_tool"},
         response[r].stage # "none",
         Verifies(Server, c, For(action, r), commit),
         UNCHANGED <<incident, case, response, policy>>, pc' \in Operation
  PROVE  /\ TypeOK' /\ ConsumedIsUsed' /\ CasesConfirmed' /\ ResponsesConfirmed'
         /\ commit = "ok" => ConfirmedSince(c, action, r)'
  <1> USE DEF IInv
  <1>1. For(action, r) \in Context
    BY ContextType DEF Actions
  <1>2. Presents(Server, c, For(action, r)) /\ Consumes(c, For(action, r), commit)
    BY DEF Verifies
  <1>3. /\ consumed' \in [Confirmations -> [context : Context, revision : Revision]
                                           \cup {Unspent}]
        /\ uses' \in [Confirmations -> 0 .. 1]
        /\ bound' \in [Confirmations -> Context \cup {Nothing}]
        /\ ConsumedIsUsed' /\ Kept
        /\ Applied(commit) =>
             consumed'[c] = [context |-> For(action, r), revision |-> incident.revision]
    BY <1>1, <1>2, ConsumeStep DEF Kept, Processes
  <1>4. used' \in [Processes -> SUBSET Confirmations]
    BY DEF Verifies, TypeOK
  <1>5. TypeOK'
    BY <1>3, <1>4 DEF TypeOK
  <1>6. CasesConfirmed'
    BY <1>3, CasesStay
  <1>7. ResponsesConfirmed'
    BY <1>3, ConfirmedStays DEF ResponsesConfirmed, Actions
  <1>8. commit = "ok" => ConfirmedSince(c, action, r)'
    BY <1>3 DEF ConfirmedSince, Applied, ResponsesConfirmed
  <1>9. QED
    BY <1>3, <1>5, <1>6, <1>7, <1>8

LEMMA ConfirmResponseStep ==
  ASSUME IInv, NEW r \in Responses, NEW c \in Confirmations, NEW commit \in Commit,
         ConfirmResponse(r, c, commit)
  PROVE  IInv'
  <1> USE DEF IInv
  <1>1. /\ pc = Idle /\ Has(r, "drafted")
        /\ Verifies(Server, c, For("review_response_action", r), commit)
        /\ UNCHANGED <<incident, case, response, policy>>
        /\ \/ pc' = Idle
           \/ commit = "ok" /\ pc' = [step |-> "record", response |-> r, confirmation |-> c]
    BY DEF ConfirmResponse, Free, Goes
  <1>2. pc' \in Operation
    BY <1>1 DEF Idle, Operation, Steps
  <1>3. /\ TypeOK' /\ ConsumedIsUsed' /\ CasesConfirmed' /\ ResponsesConfirmed'
        /\ commit = "ok" => ConfirmedSince(c, "review_response_action", r)'
    BY <1>1, <1>2, ResponseConfirmation DEF Has
  <1>4. InProgress'
    BY <1>1, <1>3 DEF InProgress, At, Has, Idle, ConfirmedSince
  <1>5. QED
    BY <1>3, <1>4

LEMMA ConfirmApprovalStep ==
  ASSUME IInv, NEW c \in Confirmations, NEW commit \in Commit, ConfirmApproval(c, commit)
  PROVE  IInv'
  <1> USE DEF IInv
  <1>1. pc.response \in Responses /\ Has(pc.response, "pending")
    BY DEF ConfirmApproval, InProgress, At, Idle
  <1> DEFINE r == pc.response
  <1>2. /\ Verifies(Server, c, For("approve_promoted_tool", r), commit)
        /\ UNCHANGED <<incident, case, response, policy>>
        /\ \/ pc' = Idle
           \/ commit = "ok" /\ pc' = [step |-> "approve", response |-> r, confirmation |-> c]
    BY DEF ConfirmApproval, Goes, Rests
  <1>3. pc' \in Operation
    BY <1>1, <1>2 DEF Idle, Operation, Steps
  <1>4. PICK q \in Responses : q = r
    BY <1>1
  <1>5. /\ TypeOK' /\ ConsumedIsUsed' /\ CasesConfirmed' /\ ResponsesConfirmed'
        /\ commit = "ok" => ConfirmedSince(c, "approve_promoted_tool", q)'
    BY <1>1, <1>2, <1>3, <1>4, ResponseConfirmation DEF Has
  <1>6. InProgress'
    BY <1>1, <1>2, <1>4, <1>5 DEF InProgress, At, Has, Idle, ConfirmedSince
  <1>7. QED
    BY <1>5, <1>6

\* Showing an approval and checking an intent begin an operation on what was permitted.
LEMMA BeginStep ==
  ASSUME IInv, NEW r \in Responses, ShowApproval(r) \/ CheckIntent(r)
  PROVE  IInv'
  <1> USE DEF IInv
  <1>1. /\ UNCHANGED <<incident, case, response, policy, consumed, used, bound, uses, faults>>
        /\ \/ Has(r, "pending")
              /\ pc' = [step |-> "confirm", response |-> r, confirmation |-> NoOne]
           \/ /\ Has(r, "approved") \/ (Has(r, "promoted") /\ response[r].policy = "allow")
              /\ pc' = [step |-> "insert", response |-> r, confirmation |-> NoOne]
    BY DEF ShowApproval, CheckIntent, Permits, Goes, human
  <1>2. pc' \in Operation
    BY <1>1 DEF Operation, Steps
  <1>3. TypeOK' /\ ConsumedIsUsed' /\ CasesConfirmed'
    BY <1>1, <1>2, ResponseStays DEF TypeOK
  <1>4. InProgress'
    BY <1>1 DEF InProgress, At, Has
  <1>5. ResponsesConfirmed'
    BY <1>1 DEF ResponsesConfirmed, Confirmed
  <1>6. QED
    BY <1>3, <1>4, <1>5

\* A current snapshot that a confirmation does not precede is the one it was given on.
LEMMA ConfirmedNow ==
  ASSUME IInv, NEW r \in Responses, NEW c, NEW action \in Actions,
         ConfirmedSince(c, action, r), Current(response[r].snapshot)
  PROVE  Confirmed(c, action, r, response[r].snapshot)
  <1>1. consumed[c] # Unspent
    BY ConfirmedIsConsumed DEF ConfirmedSince
  <1>2. consumed[c] \in [context : Context, revision : Revision] /\ incident.revision \in Revision
    BY <1>1 DEF IInv, TypeOK, ConfirmedSince
  <1>3. consumed[c].revision = response[r].snapshot
    BY <1>2, GovernanceAssumption DEF IInv, ConsumedIsUsed, ConfirmedSince, Current, Revision
  <1>4. QED
    BY <1>2, <1>3 DEF Confirmed, ConfirmedSince

\* The sources are compared after the confirmation: what is recorded was confirmed on them.
LEMMA RecordResponseStep ==
  ASSUME IInv, RecordResponse
  PROVE  IInv'
  <1> USE DEF IInv
  <1>1. PICK r \in Responses : r = pc.response /\ Has(r, "drafted")
    BY DEF RecordResponse, InProgress, At, Idle
  <1> DEFINE c == pc.confirmation
             new == [response[r] EXCEPT !.stage = "reviewed", !.reviewer = c]
  <1>2. /\ ConfirmedSince(c, "review_response_action", r) /\ pc' = Idle
        /\ UNCHANGED <<incident, case, consumed, used, bound, uses, faults, policy>>
    BY <1>1 DEF RecordResponse, InProgress, At, Idle, Rests, human
  <1>3. response[r] \in Response /\ c \in Confirmations
    BY <1>2 DEF TypeOK, ConfirmedSince
  <1>4. /\ new \in Response /\ new.stage = "reviewed" /\ new.reviewer = c
        /\ new.snapshot = response[r].snapshot
    BY <1>3 DEF Response, ResponseStages
  <1>5. response' = IF Current(response[r].snapshot) THEN [response EXCEPT ![r] = new] ELSE response
    BY <1>1, <1>3 DEF RecordResponse, TypeOK, Response
  <1>6. Current(response[r].snapshot) =>
          Confirmed(c, "review_response_action", r, response[r].snapshot)
    BY <1>2, ConfirmedNow DEF Actions
  <1> HIDE DEF new
  <1>7. TypeOK' /\ ConsumedIsUsed' /\ CasesConfirmed'
    BY <1>2, <1>4, <1>5, ResponseStays DEF TypeOK, Idle, Operation, Steps
  <1>8. InProgress'
    BY <1>2 DEF InProgress
  <1>9. ResponsesConfirmed'
    BY <1>1, <1>2, <1>4, <1>5, <1>6 DEF ResponsesConfirmed, Confirmed, TypeOK, Has
  <1>10. QED
    BY <1>7, <1>8, <1>9

\* The intent is compared again after the human has confirmed it.
LEMMA ApproveStep ==
  ASSUME IInv, Approve
  PROVE  IInv'
  <1> USE DEF IInv
  <1>1. PICK r \in Responses : r = pc.response /\ Has(r, "pending")
    BY DEF Approve, InProgress, At, Idle
  <1> DEFINE c == pc.confirmation
             new == [response[r] EXCEPT !.stage = "approved", !.approver = c]
  <1>2. /\ ConfirmedSince(c, "approve_promoted_tool", r) /\ pc' = Idle
        /\ UNCHANGED <<incident, case, consumed, used, bound, uses, faults, policy>>
    BY <1>1 DEF Approve, InProgress, At, Idle, Rests, human
  <1>3. response[r] \in Response /\ c \in Confirmations
    BY <1>2 DEF TypeOK, ConfirmedSince
  <1>4. /\ new \in Response /\ new.stage = "approved" /\ new.approver = c
        /\ new.snapshot = response[r].snapshot /\ new.ready = response[r].ready
        /\ new.policy = response[r].policy /\ new.reviewer = response[r].reviewer
    BY <1>3 DEF Response, ResponseStages
  <1>5. response' = IF SameIntent(r) THEN [response EXCEPT ![r] = new] ELSE response
    BY <1>1, <1>3 DEF Approve, TypeOK, Response
  <1>6. SameIntent(r) => Confirmed(c, "approve_promoted_tool", r, response[r].snapshot)
    BY <1>2, ConfirmedNow DEF Actions, SameIntent, Promoted, Checked
  <1> HIDE DEF new
  <1>7. TypeOK' /\ ConsumedIsUsed' /\ CasesConfirmed'
    BY <1>2, <1>4, <1>5, ResponseStays DEF TypeOK, Idle, Operation, Steps
  <1>8. InProgress'
    BY <1>2 DEF InProgress
  <1>9. ResponsesConfirmed'
    BY <1>1, <1>2, <1>4, <1>5, <1>6 DEF ResponsesConfirmed, Confirmed, TypeOK, Has
  <1>10. QED
    BY <1>7, <1>8, <1>9

\* The registered intent is the one that was checked.
LEMMA InsertStep ==
  ASSUME IInv, NEW commit \in Commit, InsertIntent(commit)
  PROVE  IInv'
  <1> USE DEF IInv
  <1>1. PICK r \in Responses :
          /\ r = pc.response
          /\ response[r].stage = "approved"
             \/ (response[r].stage = "promoted" /\ response[r].policy = "allow")
    BY DEF InsertIntent, InProgress, At, Idle, Has
  <1> DEFINE new == [response[r] EXCEPT !.stage = "registered"]
  <1>2. /\ pc' = Idle /\ UNCHANGED <<incident, case, consumed, used, bound, uses, policy>>
        /\ response' = response \/ response' = [response EXCEPT ![r].stage = "registered"]
    BY <1>1 DEF InsertIntent, Rests
  <1>3. response[r] \in Response
    BY DEF TypeOK
  <1>4. /\ new \in Response /\ new.stage = "registered"
        /\ new.snapshot = response[r].snapshot /\ new.ready = response[r].ready
        /\ new.policy = response[r].policy /\ new.reviewer = response[r].reviewer
        /\ new.approver = response[r].approver
    BY <1>3 DEF Response, ResponseStages
  <1>5. response' = response \/ response' = [response EXCEPT ![r] = new]
    BY <1>2, <1>3 DEF TypeOK, Response
  <1> HIDE DEF new
  <1>6. TypeOK' /\ ConsumedIsUsed' /\ CasesConfirmed'
    BY <1>2, <1>4, <1>5, ResponseStays DEF TypeOK, Idle, Operation, Steps
  <1>7. InProgress'
    BY <1>2 DEF InProgress
  <1>8. ResponsesConfirmed'
    BY <1>1, <1>2, <1>4, <1>5 DEF ResponsesConfirmed, Confirmed, TypeOK
  <1>9. QED
    BY <1>6, <1>7, <1>8

\* A refusal and a new policy leave everything that was confirmed.
LEMMA QuietStep ==
  ASSUME IInv, RefuseApproval \/ PolicyChanges
  PROVE  IInv'
  <1> USE DEF IInv
  <1>1. /\ UNCHANGED <<incident, case, response, consumed, used, bound, uses, faults>>
        /\ pc' = pc \/ pc' = Idle
        /\ policy' \in Policies
    BY DEF RefuseApproval, PolicyChanges, Rests, human, TypeOK
  <1>2. TypeOK' /\ ConsumedIsUsed' /\ CasesConfirmed'
    BY <1>1, ResponseStays DEF TypeOK, Idle, Operation, Steps
  <1>3. InProgress' /\ ResponsesConfirmed'
    BY <1>1 DEF InProgress, ConfirmedSince, Has, At, ResponsesConfirmed, Confirmed
  <1>4. QED
    BY <1>2, <1>3

\* A dead server keeps only what it had registered.
LEMMA CrashStep ==
  ASSUME IInv, NEW p \in Processes, Crash(p)
  PROVE  IInv'
  <1> USE DEF IInv
  <1>1. /\ UNCHANGED <<incident, case, consumed, bound, uses, policy>>
        /\ used' = [used EXCEPT ![p] = {}]
        /\ \/ UNCHANGED <<pc, response>>
           \/ /\ pc' = Idle
              /\ response' = [r \in Responses |->
                   IF response[r].stage \in {"none", "registered"} THEN response[r]
                   ELSE [response[r] EXCEPT !.stage = "lost"]]
    BY DEF Crash, Rests
  <1>2. \A r \in Responses :
          /\ response'[r] \in Response
          /\ \/ response'[r] = response[r]
             \/ response'[r].stage = "lost" /\ response[r].stage # "none"
                /\ response'[r].snapshot = response[r].snapshot
    <2> SUFFICES ASSUME NEW r \in Responses
                 PROVE  /\ response'[r] \in Response
                        /\ \/ response'[r] = response[r]
                           \/ response'[r].stage = "lost" /\ response[r].stage # "none"
                              /\ response'[r].snapshot = response[r].snapshot
      OBVIOUS
    <2> DEFINE lost == [response[r] EXCEPT !.stage = "lost"]
    <2>1. response[r] \in Response
      BY DEF TypeOK
    <2>2. lost \in Response /\ lost.stage = "lost" /\ lost.snapshot = response[r].snapshot
      BY <2>1 DEF Response, ResponseStages
    <2>3. response'[r] = response[r] \/ (response'[r] = lost /\ response[r].stage # "none")
      BY <1>1
    <2> HIDE DEF lost
    <2>4. QED
      BY <2>1, <2>2, <2>3
  <1>3. response' \in [Responses -> Response]
    BY <1>1, <1>2 DEF TypeOK
  <1>4. TypeOK' /\ ConsumedIsUsed' /\ CasesConfirmed'
    BY <1>1, <1>3, ResponseStays DEF TypeOK, Idle, Operation, Steps
  <1>5. InProgress'
    BY <1>1 DEF InProgress, ConfirmedSince, Has, At
  <1>6. ResponsesConfirmed'
    BY <1>1, <1>2 DEF ResponsesConfirmed, Confirmed
  <1>7. QED
    BY <1>4, <1>5, <1>6

-----------------------------------------------------------------------------
(* The theorems.                                                           *)

\* Every operation preserves the inductive invariant.
LEMMA NextInvariant == IInv /\ [Next]_vars => IInv'
  <1> SUFFICES ASSUME IInv, [Next]_vars
               PROVE  IInv'
    OBVIOUS
  <1>1. ASSUME NEW r \in Responses, ReviewsResponse(r)
        PROVE  IInv'
    BY <1>1, DraftStep, ConfirmResponseStep, PromotionStep, BeginStep DEF ReviewsResponse
  <1>2. ASSUME Continues
        PROVE  IInv'
    BY <1>2, RecordResponseStep, QuietStep, ApproveStep, ConfirmApprovalStep, InsertStep
    DEF Continues
  <1>3. ASSUME NEW p \in Processes, NEW k \in Cases, ReviewsIncident(p, k)
        PROVE  IInv'
    BY <1>3, RecordStep, AuthorizeStep DEF ReviewsIncident
  <1>4. CASE UNCHANGED vars
    BY <1>4 DEF vars, IInv, TypeOK, ConsumedIsUsed, CasesConfirmed, InProgress,
                ResponsesConfirmed, Confirmed, ConfirmedSince, Has, At
  <1>5. QED
    BY <1>1, <1>2, <1>3, <1>4, EvidenceStep, RequestStep, ProposalStep, ApplyStep, QuietStep,
       CrashStep DEF Next

\* The inductive invariant of the governance database and the server's memory.
THEOREM Invariance == Spec => []IInv
  BY InitInvariant, NextInvariant, PTL DEF Spec

\* The tables and the server's memory hold values of their types, and no confirmation is
\* consumed twice (SQLiteConfirmationConsumer).
THEOREM TypeCorrectness == Spec => []TypeOK
  <1>1. IInv => TypeOK
    BY DEF IInv
  <1>2. QED
    BY <1>1, Invariance, PTL

\* What is applied to an incident was reviewed and authorized on the revision it replaces.
THEOREM ChangesAreReviewed == Spec => []AppliedAsReviewed
  <1>1. IInv => AppliedAsReviewed
    <2> SUFFICES ASSUME IInv, NEW k \in Cases, case[k].stage = "applied"
                 PROVE  LET at == case[k].applied IN
                          /\ case[k].eligible
                          /\ Confirmed(case[k].reviewer, "record_review", k, at)
                          /\ Confirmed(case[k].authorizer, "authorize_state_change", k, at)
                          /\ \A j \in Cases \ {k} : case[j].applied # at
      BY DEF AppliedAsReviewed
    <2>1. QED
      BY DEF IInv, CasesConfirmed, Stages, TypeOK
  <1>2. QED
    BY <1>1, Invariance, PTL

\* Approvals and intents rest on the confirmations that the governance asks for.
THEOREM ResponsesAreAuthorized == Spec => []AuthorizedAsConfirmed
  <1>1. IInv => AuthorizedAsConfirmed
    BY DEF IInv, ResponsesConfirmed, AuthorizedAsConfirmed
  <1>2. QED
    BY <1>1, Invariance, PTL
=============================================================================

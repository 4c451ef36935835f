--------------------------- MODULE HumanGovernance --------------------------
(***************************************************************************)
(* What humans authorize: changes of the incident (PersistentHumanReview-  *)
(* Service on the governance database, src/soc_agent/review) and response  *)
(* actions (PromotionService, ApprovalManager and ExecutionBridge,         *)
(* src/soc_agent/response/promotion, src/soc_agent/approval), both on      *)
(* confirmations that a durable table lets nobody use twice.               *)
(*                                                                         *)
(* A server shares the SQLite file with other processes.  An operation on  *)
(* the incident is one write transaction, the human's confirmation         *)
(* included.  Response reviews, promotions and approvals live in the       *)
(* memory of the server, which runs one operation at a time; theirs take   *)
(* several transactions, between which the others change the incident.     *)
(* Any process may die: the server loses what it had not registered.  A    *)
(* commit may fail, or take effect while its caller sees an error.         *)
(***************************************************************************)
EXTENDS Integers, FiniteSets

CONSTANTS
  Server,            \* the process whose responses these are
  Others,            \* other processes on the same governance database
  Cases,             \* review request, review, change request, authorization, application
  Responses,         \* response review, promotion, approval, execution intent
  MaxConfirmations,  \* bound: confirmations the identity provider issues
  Floor,             \* what the default policy says of the tool: "allow" or "require"
  MaxFaults,         \* bound: failed commits and deaths
  MaxRevision        \* bound: revisions of the incident are 0 .. MaxRevision

ASSUME GovernanceAssumption ==
  /\ Server \notin Others
  /\ Cases \cap Responses = {}
  /\ Floor \in {"allow", "require"}
  /\ {MaxConfirmations, MaxFaults, MaxRevision} \subseteq Nat

Confirmations == 1 .. MaxConfirmations
Processes == {Server} \cup Others

VARIABLES
  incident,   \* incidents: revision and status of the one incident
  case,       \* the governance tables, a row of each per case
  consumed,   \* human_confirmations: what a consumed confirmation was for
  response,   \* the artifacts of a response, in the memory of the server
  policy,     \* the verdict of the server's policy and registry on the tool
  pc,         \* the operation the server is in, its response and confirmation
  used,       \* the confirmations the authority of a process remembers
  bound,      \* the action and object a confirmation was given for
  uses,       \* history: how often a confirmation was consumed
  faults      \* bounded by MaxFaults

vars == <<incident, case, consumed, response, policy, pc, used, bound, uses, faults>>
human == <<consumed, used, bound, uses, faults>>

-----------------------------------------------------------------------------
Statuses == {"investigating", "assessing", "closed"}
Policies == {"allow", "require", "refused"}
Actions == {"record_review", "authorize_state_change", "review_response_action",
            "approve_promoted_tool"}
Commit == {"ok", "rolled_back", "unseen"}
Applied(commit) == commit # "rolled_back"
Fault == faults < MaxFaults /\ faults' = faults + 1
Commits(commit) == IF commit = "ok" THEN UNCHANGED faults ELSE Fault

NoOne == 0
Nothing == [action |-> "none", object |-> "none"]
For(action, object) == [action |-> action, object |-> object]
Unspent == [context |-> Nothing, revision |-> -1]
NoCase == [stage |-> "none", snapshot |-> -1, eligible |-> FALSE, after |-> "none",
           reviewer |-> NoOne, authorizer |-> NoOne, applied |-> -1]
NoResponse == [stage |-> "none", snapshot |-> -1, ready |-> FALSE, policy |-> "none",
               reviewer |-> NoOne, approver |-> NoOne]
Idle == [step |-> "idle", response |-> "none", confirmation |-> NoOne]

Init ==
  /\ incident = [revision |-> 0, status |-> "assessing"]
  /\ case = [k \in Cases |-> NoCase]
  /\ consumed = [c \in Confirmations |-> Unspent]
  /\ response = [r \in Responses |-> NoResponse]
  /\ policy \in {"allow", "require"}
  /\ pc = Idle
  /\ used = [p \in Processes |-> {}]
  /\ bound = [c \in Confirmations |-> Nothing]
  /\ uses = [c \in Confirmations |-> 0]
  /\ faults = 0

-----------------------------------------------------------------------------
(* Confirmations: ProviderHumanAuthority and SQLiteConfirmationConsumer.   *)

\* Wrong on purpose, for a run that must reject it: only the process remembers.
SpentHere(p, c) == c \in used[p]

Spent(p, c) == c \in used[p] \/ consumed[c] # Unspent

\* The human confirmed exactly this: now, or when the confirmation was first shown.
Presents(p, c, context) ==
  /\ \/ bound[c] = context
     \/ bound[c] = Nothing /\ \A d \in 1 .. c - 1 : bound[d] # Nothing
  /\ bound' = [bound EXCEPT ![c] = context]
  /\ ~Spent(p, c)

Consumes(c, context, commit) ==
  /\ Commits(commit)
  /\ IF Applied(commit)
     THEN /\ consumed' = [consumed EXCEPT ![c] = [context |-> context,
                                                  revision |-> incident.revision]]
          /\ uses' = [uses EXCEPT ![c] = @ + 1]
     ELSE UNCHANGED <<consumed, uses>>

\* Within the transaction of the caller: memory does not roll back with it.
VerifiesInside(p, c, context, commit) ==
  /\ Presents(p, c, context)
  /\ Consumes(c, context, commit)
  /\ used' = [used EXCEPT ![p] = @ \cup {c}]

\* In a transaction of its own: it is remembered, and the caller goes on, when
\* its commit returns.
Verifies(p, c, context, commit) ==
  /\ Presents(p, c, context)
  /\ Consumes(c, context, commit)
  /\ used' = [used EXCEPT ![p] = IF commit = "ok" THEN @ \cup {c} ELSE @]

-----------------------------------------------------------------------------
(* The incident.                                                           *)

\* The server does nothing else while it is inside an operation.
Free(p) == p = Server => pc = Idle

\* Another writer appends evidence to the snapshot it read.
AppendEvidence ==
  /\ incident.revision < MaxRevision
  /\ incident' = [incident EXCEPT !.revision = @ + 1]
  /\ UNCHANGED <<case, human, response, policy, pc>>

\* Wrong on purpose, for a run that must reject it: any later snapshot will do.
AnchoredOnce(k) == case[k].snapshot <= incident.revision

\* _current: the case is about the incident as it is now.
Anchored(k) == case[k].snapshot = incident.revision

\* A severity change leaves the status as it is.
Permitted(before, after) ==
  /\ before # "closed"
  /\ \/ after = before
     \/ <<before, after>> \in {<<"investigating", "assessing">>, <<"assessing", "investigating">>,
                               <<"assessing", "closed">>}

RequestReview(k) ==
  /\ case[k].stage = "none"
  /\ case' = [case EXCEPT ![k] = [NoCase EXCEPT !.stage = "requested",
                                               !.snapshot = incident.revision]]
  /\ UNCHANGED <<incident, human, response, policy, pc>>

RecordReview(p, k, c, commit) ==
  /\ Free(p) /\ case[k].stage = "requested" /\ Anchored(k)
  /\ VerifiesInside(p, c, For("record_review", k), commit)
  /\ \E eligible \in BOOLEAN :
       case' = IF Applied(commit)
               THEN [case EXCEPT ![k].stage = "reviewed", ![k].eligible = eligible,
                                 ![k].reviewer = c]
               ELSE case
  /\ UNCHANGED <<incident, response, policy, pc>>

ProposeChange(k) ==
  /\ case[k].stage = "reviewed" /\ case[k].eligible /\ Anchored(k)
  /\ \E after \in Statuses :
       /\ Permitted(incident.status, after)
       /\ case' = [case EXCEPT ![k].stage = "proposed", ![k].after = after]
  /\ UNCHANGED <<incident, human, response, policy, pc>>

AuthorizeChange(p, k, c, commit) ==
  /\ Free(p) /\ case[k].stage = "proposed" /\ Anchored(k)
  /\ VerifiesInside(p, c, For("authorize_state_change", k), commit)
  /\ case' = IF Applied(commit)
             THEN [case EXCEPT ![k].stage = "authorized", ![k].authorizer = c]
             ELSE case
  /\ UNCHANGED <<incident, response, policy, pc>>

\* compare_and_apply, whose authorization is unused.
Apply(k) ==
  /\ case[k].stage = "authorized" /\ Anchored(k)
  /\ Permitted(incident.status, case[k].after)
  /\ incident.revision < MaxRevision
  /\ incident' = [revision |-> incident.revision + 1, status |-> case[k].after]
  /\ case' = [case EXCEPT ![k].stage = "applied", ![k].applied = incident.revision]
  /\ UNCHANGED <<human, response, policy, pc>>

-----------------------------------------------------------------------------
(* Responses.                                                              *)

\* CurrentValidation.sources
Current(snapshot) == incident.status # "closed" /\ incident.revision = snapshot

\* CurrentValidation.check: the policy may be stricter than the default one, never weaker.
Checked(r) ==
  /\ Current(response[r].snapshot)
  /\ policy # "refused"
  /\ ~(Floor = "require" /\ policy = "allow")

\* validate_promoted
Promoted(r) == Checked(r) /\ policy = response[r].policy

Has(r, stage) == response[r].stage = stage
Goes(step, r, c) == pc' = [step |-> step, response |-> r, confirmation |-> c]
At(step) == pc.step = step
Rests == pc' = Idle

DraftReview(r, ready) ==
  /\ Free(Server) /\ response[r].stage = "none"
  /\ incident.status # "closed"
  /\ response' = [response EXCEPT ![r] =
       [NoResponse EXCEPT !.stage = "drafted", !.snapshot = incident.revision,
                          !.ready = ready]]
  /\ UNCHANGED <<incident, case, human, policy, pc>>

\* The confirmation first, ...
ConfirmResponse(r, c, commit) ==
  /\ Free(Server) /\ Has(r, "drafted")
  /\ Verifies(Server, c, For("review_response_action", r), commit)
  /\ IF commit = "ok" THEN Goes("record", r, c) ELSE UNCHANGED pc
  /\ UNCHANGED <<incident, case, response, policy>>

\* ... then the sources; the confirmation of a stale review stays spent.
RecordResponse ==
  /\ At("record") /\ Rests
  /\ LET r == pc.response IN
     response' = IF Current(response[r].snapshot)
                 THEN [response EXCEPT ![r].stage = "reviewed",
                                       ![r].reviewer = pc.confirmation]
                 ELSE response
  /\ UNCHANGED <<incident, case, human, policy>>

\* request_promotion and promote
Promote(r) ==
  /\ Free(Server) /\ Has(r, "reviewed") /\ response[r].ready
  /\ Checked(r)
  /\ response' = [response EXCEPT ![r].stage = "promoted", ![r].policy = policy]
  /\ UNCHANGED <<incident, case, human, policy, pc>>

RequestApproval(r) ==
  /\ Free(Server) /\ Has(r, "promoted")
  /\ Promoted(r) /\ policy = "require"
  /\ response' = [response EXCEPT ![r].stage = "pending"]
  /\ UNCHANGED <<incident, case, human, policy, pc>>

\* approve_tool: the intent is shown, ...
ShowApproval(r) ==
  /\ Free(Server) /\ Has(r, "pending") /\ Promoted(r)
  /\ Goes("confirm", r, NoOne)
  /\ UNCHANGED <<incident, case, human, response, policy>>

\* ... confirmed, or refused, ...
ConfirmApproval(c, commit) ==
  /\ At("confirm")
  /\ LET r == pc.response IN
     /\ Verifies(Server, c, For("approve_promoted_tool", r), commit)
     /\ IF commit = "ok" THEN Goes("approve", r, c) ELSE Rests
  /\ UNCHANGED <<incident, case, response, policy>>

RefuseApproval ==
  /\ At("confirm") /\ Rests
  /\ UNCHANGED <<incident, case, human, response, policy>>

\* Wrong on purpose, for a run that must reject it: what was shown is not compared again.
AlwaysSame(r) == Has(r, "pending")

SameIntent(r) == Has(r, "pending") /\ Promoted(r)

\* ... and must still be the same when the human has confirmed it.
Approve ==
  /\ At("approve") /\ Rests
  /\ LET r == pc.response IN
     response' = IF SameIntent(r)
                 THEN [response EXCEPT ![r].stage = "approved",
                                       ![r].approver = pc.confirmation]
                 ELSE response
  /\ UNCHANGED <<incident, case, human, policy>>

\* validated_approval: a promotion under REQUIRE_APPROVAL needs its confirmed approval.
Permits(r) ==
  /\ Promoted(r)
  /\ \/ Has(r, "approved")
     \/ Has(r, "promoted") /\ response[r].policy = "allow"

\* ExecutionStore.create: the checks of the bridge, then the transaction of the ledger.
CheckIntent(r) ==
  /\ Free(Server) /\ Permits(r)
  /\ Goes("insert", r, NoOne)
  /\ UNCHANGED <<incident, case, human, response, policy>>

InsertIntent(commit) ==
  /\ At("insert") /\ Rests /\ Commits(commit)
  /\ response' = IF Applied(commit)
                 THEN [response EXCEPT ![pc.response].stage = "registered"]
                 ELSE response
  /\ UNCHANGED <<incident, case, consumed, used, bound, uses, policy>>

-----------------------------------------------------------------------------
\* Between two operations the policy is replaced, or the tool is removed or altered.
PolicyChanges ==
  /\ Free(Server)
  /\ policy' \in Policies \ {policy}
  /\ UNCHANGED <<incident, case, human, response, pc>>

\* A process dies: the server loses what it had not registered.
Crash(p) ==
  /\ Fault
  /\ used' = [used EXCEPT ![p] = {}]
  /\ IF p = Server
     THEN /\ Rests
          /\ response' = [r \in Responses |->
               IF response[r].stage \in {"none", "registered"} THEN response[r]
               ELSE [response[r] EXCEPT !.stage = "lost"]]
     ELSE UNCHANGED <<pc, response>>
  /\ UNCHANGED <<incident, case, consumed, policy, bound, uses>>

ReviewsIncident(p, k) ==
  \E c \in Confirmations, commit \in Commit :
    RecordReview(p, k, c, commit) \/ AuthorizeChange(p, k, c, commit)

ReviewsResponse(r) ==
  \/ \E ready \in BOOLEAN : DraftReview(r, ready)
  \/ \E c \in Confirmations, commit \in Commit : ConfirmResponse(r, c, commit)
  \/ Promote(r) \/ RequestApproval(r) \/ ShowApproval(r) \/ CheckIntent(r)

Continues ==
  \/ RecordResponse \/ RefuseApproval \/ Approve
  \/ \E c \in Confirmations, commit \in Commit : ConfirmApproval(c, commit)
  \/ \E commit \in Commit : InsertIntent(commit)

Next ==
  \/ AppendEvidence
  \/ \E k \in Cases : RequestReview(k) \/ ProposeChange(k) \/ Apply(k)
  \/ \E p \in Processes, k \in Cases : ReviewsIncident(p, k)
  \/ \E r \in Responses : ReviewsResponse(r)
  \/ Continues \/ PolicyChanges
  \/ \E p \in Processes : Crash(p)

Spec == Init /\ [][Next]_vars

-----------------------------------------------------------------------------
Stages == {"none", "requested", "reviewed", "proposed", "authorized", "applied"}
ResponseStages == {"none", "drafted", "reviewed", "promoted", "pending", "approved",
                   "registered", "lost"}
Steps == {"idle", "record", "confirm", "approve", "insert"}
Revision == 0 .. MaxRevision
Context == [action : Actions, object : Cases \cup Responses]
Case == [stage : Stages, snapshot : Revision \cup {-1}, eligible : BOOLEAN,
         after : Statuses \cup {"none"}, reviewer : Confirmations \cup {NoOne},
         authorizer : Confirmations \cup {NoOne}, applied : Revision \cup {-1}]
Response == [stage : ResponseStages, snapshot : Revision \cup {-1}, ready : BOOLEAN,
             policy : Policies \cup {"none"}, reviewer : Confirmations \cup {NoOne},
             approver : Confirmations \cup {NoOne}]
Operation == [step : Steps, response : Responses \cup {"none"},
              confirmation : Confirmations \cup {NoOne}]

\* Every variable has its type; in particular a confirmation is consumed once, whichever
\* process it is shown to, whatever failed after it and whoever died
\* (SQLiteConfirmationConsumer._consume).
TypeOK ==
  /\ incident \in [revision : Revision, status : Statuses]
  /\ case \in [Cases -> Case]
  /\ response \in [Responses -> Response]
  /\ consumed \in [Confirmations -> [context : Context, revision : Revision] \cup {Unspent}]
  /\ policy \in Policies
  /\ pc \in Operation
  /\ used \in [Processes -> SUBSET Confirmations]
  /\ bound \in [Confirmations -> Context \cup {Nothing}]
  /\ uses \in [Confirmations -> 0 .. 1]

\* The human gave this confirmation for this, with the incident at that revision.
Confirmed(c, action, object, revision) ==
  c \in Confirmations /\ consumed[c] = [context |-> For(action, object), revision |-> revision]

\* A change of the incident was reviewed and authorized by two confirmations, both given on
\* the very revision it was then applied to, and no two changes replaced the same revision
\* (HumanReviewService.apply and GovernanceSession.compare_and_apply).
AppliedAsReviewed ==
  \A k \in Cases : case[k].stage = "applied" =>
    LET at == case[k].applied IN
    /\ case[k].eligible
    /\ Confirmed(case[k].reviewer, "record_review", k, at)
    /\ Confirmed(case[k].authorizer, "authorize_state_change", k, at)
    /\ \A j \in Cases \ {k} : case[j].applied # at

\* A tool approval and an execution intent exist only for a response that a human reviewed
\* as ready and, unless policy allowed the tool when it was promoted, that a second
\* confirmation approved, both given while the incident was as the plan saw it
\* (PromotionService.record_review, ExecutionBridge.approve_tool, ExecutionStore.create).
AuthorizedAsConfirmed ==
  \A r \in Responses : response[r].stage \in {"approved", "registered"} =>
    LET seen == response[r].snapshot IN
    /\ response[r].ready
    /\ Confirmed(response[r].reviewer, "review_response_action", r, seen)
    /\ \/ response[r].policy = "allow" /\ Floor = "allow"
       \/ Confirmed(response[r].approver, "approve_promoted_tool", r, seen)

-----------------------------------------------------------------------------
(* The inductive invariant.                                                *)

\* A consumed confirmation was used, and not in the future.
ConsumedIsUsed ==
  \A c \in Confirmations :
    /\ consumed[c] = Unspent <=> uses[c] = 0
    /\ consumed[c].revision <= incident.revision

\* What a stage of a case needs was confirmed on the snapshot the case is about; an applied
\* one has taken the incident past it, as no other did.
CasesConfirmed ==
  \A k \in Cases :
    /\ case[k].stage \in Stages \ {"none", "requested"} =>
         Confirmed(case[k].reviewer, "record_review", k, case[k].snapshot)
    /\ case[k].stage \in {"proposed", "authorized", "applied"} => case[k].eligible
    /\ case[k].stage \in {"authorized", "applied"} =>
         Confirmed(case[k].authorizer, "authorize_state_change", k, case[k].snapshot)
    /\ IF case[k].stage = "applied"
       THEN /\ case[k].applied = case[k].snapshot
            /\ case[k].applied \in Revision /\ case[k].applied < incident.revision
            /\ \A j \in Cases \ {k} : case[j].applied # case[k].applied
       ELSE case[k].applied = -1

\* A confirmation for an action on a response, since its snapshot was taken.
ConfirmedSince(c, action, r) ==
  /\ c \in Confirmations
  /\ consumed[c].context = For(action, r)
  /\ response[r].snapshot <= consumed[c].revision

\* The operation in progress: what it is about, and what was confirmed or permitted for it.
InProgress ==
  LET r == pc.response IN
  pc # Idle =>
    /\ r \in Responses
    /\ At("record") =>
         /\ Has(r, "drafted")
         /\ ConfirmedSince(pc.confirmation, "review_response_action", r)
    /\ At("confirm") => Has(r, "pending")
    /\ At("approve") =>
         /\ Has(r, "pending")
         /\ ConfirmedSince(pc.confirmation, "approve_promoted_tool", r)
    /\ At("insert") => Has(r, "approved") \/ (Has(r, "promoted") /\ response[r].policy = "allow")

\* What a stage of a response needs: a review as ready, a policy not weaker than the floor, and
\* for an approval a policy that asks for it.
ResponsesConfirmed ==
  \A r \in Responses :
    LET stage == response[r].stage  seen == response[r].snapshot IN
    /\ stage # "none" => seen \in Revision /\ seen <= incident.revision
    /\ stage \in {"reviewed", "promoted", "pending", "approved", "registered"} =>
         Confirmed(response[r].reviewer, "review_response_action", r, seen)
    /\ stage \in {"promoted", "pending", "approved", "registered"} =>
         /\ response[r].ready
         /\ response[r].policy = "allow" => Floor = "allow"
    /\ stage = "approved" \/ (stage = "registered" /\ response[r].policy # "allow") =>
         Confirmed(response[r].approver, "approve_promoted_tool", r, seen)

IInv ==
  TypeOK /\ ConsumedIsUsed /\ CasesConfirmed /\ InProgress /\ ResponsesConfirmed
=============================================================================

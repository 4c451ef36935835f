CONSTANTS
  i1 = i1
  i2 = i2
  p1 = p1
  a1 = a1
  a2 = a2
  Intents = {i1, i2}
  Promotions = {p1}
  Approvals = {a1, a2}
  NoApproval = NoApproval
  PromotionOf <- MCPromotionOf
  ApprovalOf <- MCApprovalOf
  Workers = {w1, w2, w3}
  NoIntent = NoIntent
  MaxTime = 1
  Leases = {1}
  MaxRevision = 4
SPECIFICATION Spec
SYMMETRY WorkerSymmetry
INVARIANTS
  TypeOK
  AtMostOneInvocation
  NoRequeueAfterInvocation
  ProgramVerdictIsReal
  StaleNeverDispatched
PROPERTIES
  ImplementsOneShot
CHECK_DEADLOCK FALSE

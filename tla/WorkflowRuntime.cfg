CONSTANTS
  a = a
  Runtimes = {r1, r2}
  NoRuntime = NoRuntime
  Inputs = {a}
  Plans <- MCPlans
  MaxRounds = 2
  MaxAnchor = 2
  MaxRevision = 9
SPECIFICATION Spec
SYMMETRY RuntimeSymmetry
INVARIANTS
  TypeOK
  StepBegunOnce
  InvestigationBounded
  IntentIsReviewed
  DispatchedOnce
  CompletionIsReal
PROPERTY
  PublishedIsSuccessor

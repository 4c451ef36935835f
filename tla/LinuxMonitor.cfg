SPECIFICATION Spec
CONSTANTS
  Findings = {f1, f2}
  NoFinding = NoFinding
  PendingLimit = 1
  RetryLimit = 1
  MaxCalls = 1
  CircuitFailures = 2
  MaxConstructed = 1
  MaxReviews = 1
SYMMETRY FindingSymmetry
INVARIANTS TypeOK CostIsBounded
PROPERTIES CallsAreJustified SimulatedOnce

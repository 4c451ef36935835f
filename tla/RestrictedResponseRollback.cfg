CONSTANTS
  Findings = {f1}
  Policies = {p1, p2}
  NoCandidate = NoCandidate
SPECIFICATION Spec
SYMMETRY PolicySymmetry
INVARIANT
  RollbackOnce

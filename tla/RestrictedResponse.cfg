CONSTANTS
  Findings = {f1}
  Policies = {p1, p2}
  NoCandidate = NoCandidate
SPECIFICATION Spec
SYMMETRY PolicySymmetry
INVARIANTS
  TypeOK
  MarkerIsExpected
PROPERTIES
  UnknownBlocks
  ImplementsOneShot

SPECIFICATION Spec
CONSTANTS
  s1 = s1  s2 = s2
  k1 = k1  k2 = k2
  r1 = r1
  Server = s1
  Others <- MCOthers
  Cases <- MCCases
  Responses <- MCResponses
  MaxConfirmations = 3
  MaxFaults = 1
  Floor = "allow"
  MaxRevision = 2
SYMMETRY Symmetry
INVARIANTS TypeOK AppliedAsReviewed AuthorizedAsConfirmed

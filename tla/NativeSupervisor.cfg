SPECIFICATION FairSpec
CONSTANT
  MaxPolls = 2
CHECK_DEADLOCK FALSE
INVARIANTS TypeOK VerifiedIsClean PolicyOutlivesContainer ClosedIsVerified
PROPERTY SessionEnds

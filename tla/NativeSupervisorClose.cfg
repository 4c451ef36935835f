SPECIFICATION FairSpec
CONSTANT
  MaxPolls = 1
CHECK_DEADLOCK FALSE
INVARIANT UnverifiedRemainsError

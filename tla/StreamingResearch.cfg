SPECIFICATION Spec
CONSTANTS
  NumFlows = 3
  NumProfiles = 2
  InferenceCapacity = 2
  RetryLimit = 2
  MaxDeaths = 2
  MaxFaults = 1
CHECK_DEADLOCK FALSE
INVARIANTS TypeOK VerifiedIsSettled InputKeptUntilOutcome RestoredIsSettled

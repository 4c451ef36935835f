CONSTANTS
  MaxRecords = 3
  FixtureFile <- MCFixtureFile
  IncidentOf <- MCIncidentOf
  HasFeatures = {11}
  Observations = 1
  NoEvent = NoEvent
  Capacity = 1
  Retention = 3
  RetryLimit = 2
  BatchSize = 2
  StepBudget = 1
  RotationRaces = TRUE
SPECIFICATION Spec
INVARIANT
  NoGap

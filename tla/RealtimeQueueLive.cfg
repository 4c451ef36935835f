CONSTANTS
  MaxRecords = 1
  FixtureFile <- MCFixtureFile
  IncidentOf <- MCIncidentOf
  HasFeatures = {11}
  Observations = 2
  NoEvent = NoEvent
  Capacity = 1
  Retention = 3
  RetryLimit = 2
  BatchSize = 1
  StepBudget = 1
  RotationRaces = FALSE
SPECIFICATION FairSpec
PROPERTIES
  StoredEventSettles

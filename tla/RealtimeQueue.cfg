CONSTANTS
  MaxRecords = 3
  FixtureFile <- MCFixtureFile
  IncidentOf <- MCIncidentOf
  HasFeatures = {11}
  Observations = 2
  NoEvent = NoEvent
  Capacity = 1
  Retention = 3
  RetryLimit = 2
  BatchSize = 2
  StepBudget = 1
  RotationRaces = FALSE
SPECIFICATION Spec
INVARIANTS
  TypeOK
  NoGap
  ActiveWithinCapacity
  DoneIsProcessed
  EffectsBounded
PROPERTY
  SettledStays

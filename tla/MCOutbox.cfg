SPECIFICATION FairSpec
CONSTANTS
  OwnPanel = {"b"}
  Events = {1, 2, 3}
  Topic <- TopicOf
  Aggregate <- AggregateOf
  Handled <- OneHandled
  HoldTopic = "hold"
  Workers = {w1, w2}
  MaxAttempts = 2
  MaxRows = 2
  Limit = 2
  MaxCrashes = 1
INVARIANTS
  TypeOK
  DoneMeansDelivered
  SuspendedIsCutOff
  SharedOnlyWhenOverdue
PROPERTIES
  SettlesUnlessWedged
  DoneStaysUnlessOverdue

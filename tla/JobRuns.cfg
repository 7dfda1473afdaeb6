SPECIFICATION FairSpec
CONSTANTS
  Workers = {w1, w2}
  Events = {e1}
  MaxAttempts = 2
  StaleTimeout = 2
  RunLimit = 1
  MaxCrashes = 2
INVARIANTS TypeOK SucceededIffAppliedOnce ProcessedIsApplied
PROPERTIES SuccessIsFinal ImplementsLease EventsSettle

SPECIFICATION NotifFairSpec
CONSTANTS
  Orders = {"o"}
  MaxResends = 1
  MaxAttempts = 3
  MaxStalled = 1
INVARIANTS
  RecordedWasSent
  CompletedWasMailed
PROPERTIES
  AutomaticMailOnce
  JobsEnd
CHECK_DEADLOCK FALSE

SPECIFICATION Spec
CONSTANTS
  StopTimeout <- UnevenStop
  StopRetries = 10
  CheckTimeout <- TenSeconds
  Attempts = 10
  StartConcurrency <- DefaultLimit
  StartedCounts <- AnyStarted
  FleetErrors = TRUE
CHECK_DEADLOCK FALSE
INVARIANTS
  WaitsFit
  StopTimeGranted

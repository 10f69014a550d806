SPECIFICATION FairSpec
CONSTANTS
  Deployments = {d}
  Names = {"slack", "pager"}
  Settings <- Configured
CHECK_DEADLOCK FALSE
INVARIANTS
  FailuresAnnounced
  SuccessStored
PROPERTY FailuresHeard

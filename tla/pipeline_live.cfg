SPECIFICATION FairSpec
CONSTANTS
  app = app
  v1 = v1
  v2 = v2
  Jobs = {j1, j2}
  Apps = {app}
  Versions = {v1, v2}
  AllVersions = AllVersions
  Requests <- LivenessRequests
  Limit = 1
  Overruns = {j2}
  NoJob = NoJob
  Unversioned = Unversioned
  NotWired = NotWired
CHECK_DEADLOCK FALSE
INVARIANTS
  ProcessingLocked
  WiredIsRegistered
PROPERTIES
  LockFreed
  JobsSettle

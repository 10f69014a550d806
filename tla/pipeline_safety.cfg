SPECIFICATION Spec
CONSTANTS
  app = app
  v1 = v1
  v2 = v2
  Jobs = {j1, j2, j3}
  Apps = {app}
  Versions = {v1, v2}
  AllVersions = AllVersions
  Requests <- SafetyRequests
  Limit = 1
  Overruns = {}
  NoJob = NoJob
  Unversioned = Unversioned
  NotWired = NotWired
SYMMETRY Symmetry
CHECK_DEADLOCK FALSE
INVARIANTS
  TypeOK
  AtMostOnePromoted
  StartedWithinLimit
  SlotsAccountedFor
  NewAccountedFor
PROPERTIES
  ImplementsLifecycle
  WiredTakenDownOnPurpose
  WiredAfterCheck

SPECIFICATION Spec
CONSTANTS
  app = app
  v1 = v1
  v2 = v2
  Jobs = {j1, j2}
  Apps = {app}
  Versions = {v1}
  AllVersions = AllVersions
  Requests <- RedGreenRequests
  Limit = 1
  Overruns = {}
  NoJob = NoJob
  Unversioned = Unversioned
  NotWired = NotWired
SYMMETRY Symmetry
CHECK_DEADLOCK FALSE
INVARIANT WiredIsRegistered

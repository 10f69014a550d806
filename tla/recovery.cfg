SPECIFICATION Spec
CONSTANTS
  app = app
  app2 = app2
  Jobs = {j1, j2, j3, j4}
  Apps = {app, app2}
  Configs = {c}
  Mode <- Modes
  Named = {n}
  MaxClock = 3
  SameMillisecond = TRUE
  FailsIn = {"queued", "created", "started", "deploying", "switched"}
  RecoverStates = {"PROMOTED", "FAILED"}
  None = None
SYMMETRY Symmetry
CHECK_DEADLOCK FALSE
INVARIANT CloneReplacesSource
PROPERTIES
  
  LostOnlyInSwitch

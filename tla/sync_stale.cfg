SPECIFICATION Spec
CONSTANTS
  Executions = {e1}
  Kinds = {units}
  Deployments = {d1}
  MaxVersion = 1
  Timely = TRUE
  NoExecution = NoExecution
  Reset = Reset
INVARIANT OnlyPromotedHaveRuntime

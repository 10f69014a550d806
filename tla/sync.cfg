SPECIFICATION FairSpec
CONSTANTS
  Executions = {e1, e2}
  Kinds = {units}
  Deployments = {d1}
  MaxVersion = 2
  Timely = TRUE
  NoExecution = NoExecution
  Reset = Reset
PROPERTIES
  NoOlderSnapshot
  RuntimeConverges

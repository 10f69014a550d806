SPECIFICATION FairSpec
CONSTANTS
  Header = {"_fleet_deploy app", "_fleet_deploy logger"}
  MaxLost = 2
  ChordBreaks = FALSE
INVARIANTS
  NoEarlyVerdict
  SuccessMeansDone
  VerdictExplained
  AnswerFinal
PROPERTIES
  LossReported
  FailureVisible

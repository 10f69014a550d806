SPECIFICATION Spec
CONSTANTS
  Requests <- AllRequests
  Keys <- AllKeys
  EmptyDict = EmptyDict
CHECK_DEADLOCK FALSE
INVARIANTS
  DefaultsBelowSettings
  PortsAgree
  TasksFindTemplates
  RecoveredAlike

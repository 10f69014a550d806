SPECIFICATION FairSpec
CONSTANTS
  Greenlets = {g1, g2}
  Kinds = {"health", "ready", "simple_result"}
  HealthSeconds = 3
  ReadySeconds = 6
  Tries = 3
  Delay = 2
  MaxTime = 8
INVARIANT AlarmOwned
PROPERTY CallsEnd

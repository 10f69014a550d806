SPECIFICATION FairSpec
CONSTANTS
  Callers = {c1, c2, c3}
  Names = {app}
  Uuids = {u1, u2, u3, u4, u5}
  LockTTL = 2
  NoValue = NoValue
INVARIANTS
  LeaseHonoured
  MutualExclusion
PROPERTIES
  ImplementsLeasedLock
  LocksEnd

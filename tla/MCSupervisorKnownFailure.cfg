SPECIFICATION Spec
CONSTANTS
  Delegation = {d1, d2}
  LeaseTicks = 2
  CancelTries = 2
  GenBound = 4
  CrashBound = 0
CHECK_DEADLOCK FALSE
PROPERTIES
  KnownFailureIsRecorded

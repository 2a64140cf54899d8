\* One delegation: what the others do to the loop and the gateway task is a
\* stutter for it. Leases are renewed twice, the process dies three times.
SPECIFICATION FairSpec
CONSTANTS
  Delegation = {d1}
  LeaseTicks = 3
  CancelTries = 3
  GenBound = 6
  CrashBound = 3
CHECK_DEADLOCK FALSE
INVARIANTS
  TypeOK
  ExecutedAtMostOnce
  AgreedCancelHonoured
PROPERTIES
  WorkIsSettled
  CancellationTakesEffect

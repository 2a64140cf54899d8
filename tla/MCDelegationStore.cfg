SPECIFICATION Spec
CONSTANTS
  d1 = d1
  d2 = d2
  w1 = w1
  w2 = w2
  r1 = r1
  r2 = r2
  k1 = k1
  k2 = k2
  Null = Null
  Delegation = {d1, d2}
  Session = {"parent"}
  Worker = {w1, w2}
  Reason = {r1, r2}
  Claim = {k1, k2}
  Timestamp = {1, 2, 3}
  ChildTurnBound = 1
SYMMETRY Symmetry
CHECK_DEADLOCK FALSE
INVARIANTS
  TypeOK
  OutboxMatchesTerminal
  ExpiryBatchNeverAborts
  ChildTurnMatchesCompletion
  DeliveredToOneHolder
  CurrentAuthorityIsOwner
PROPERTY ImplementsLifecycle

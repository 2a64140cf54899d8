\* One stored session and one to create, two submissions, two commands each.
SPECIFICATION FairSpec
CONSTANTS
  Session = {s1, s2}
  NoSession = NoSession
  Stored = {s1}
  Failing = {"create", "resume"}
  TurnBound = 2
  AskBound = 2
  FlightBound = 2
CHECK_DEADLOCK FALSE
INVARIANTS
  TypeOK
  StartedWithConsent
  InterruptedOnRequest
  ViewSettles
PROPERTIES PendingViewEnds

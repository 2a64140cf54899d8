\* One session, one turn, two commands, and no request refused.
SPECIFICATION Spec
CONSTANTS
  Session = {s1}
  NoSession = NoSession
  Stored = {s1}
  Failing = {}
  TurnBound = 1
  AskBound = 2
  FlightBound = 2
CHECK_DEADLOCK FALSE
INVARIANTS
  AllowedAfterShown

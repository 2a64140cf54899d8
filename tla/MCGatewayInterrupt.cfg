SPECIFICATION Spec
CONSTANTS
  Session = {s1}
  Turn = {t1, t2}
  Event = {e1}
  TranscriptBound = 1
  CrashBound = 0
  Null = Null
CHECK_DEADLOCK FALSE
INVARIANTS
  InterruptedOnlyOnRequest

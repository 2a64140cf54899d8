\* One session, two prompts, one completion, another writer and a crash.
SPECIFICATION FairSpec
CONSTANTS
  Session = {s1}
  Turn = {t1, t2}
  Event = {e1}
  TranscriptBound = 2
  CrashBound = 1
  Null = Null
CHECK_DEADLOCK FALSE
INVARIANTS
  TypeOK
  ReportedIsDurable
  BusyMatchesWork
  TranscriptMatchesTurns
PROPERTIES
  ImplementsStore
  StopsWhenAsked

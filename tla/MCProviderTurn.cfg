\* Two prompts, two attempts each, at most two calls per reply, one piece of text.
SPECIFICATION FairSpec
CONSTANTS
  CallId = {c1, c2}
  NoCall = NoCall
  TextBound = 1
  CallBound = 2
  AttemptBound = 2
  TurnBound = 2
CHECK_DEADLOCK FALSE
INVARIANTS
  TypeOK
  TranscriptIsWhatWasSaid
  EveryCallIsAnswered
  ActsOnWholeReplies
PROPERTIES TurnEnds

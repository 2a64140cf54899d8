\* One command, and an interrupt on the way to its decision.
SPECIFICATION Spec
CONSTANTS
  Call = {shell}
  Terminal = {shell}
  Delegate = {}
  NoCall = NoCall
  AttemptBound = 2
  ScopeBound = 2
  CrashBound = 0
INVARIANTS
  DenialIsTheClients

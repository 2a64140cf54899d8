\* Every kind of call in one batch, a retry, an interrupt and a crash, under
\* the fairness of the gateway.
SPECIFICATION FairSpec
CONSTANTS
  Call = {read, shell, script, child}
  Terminal = {shell, script}
  Delegate = {child}
  NoCall = NoCall
  AttemptBound = 2
  ScopeBound = 1
  CrashBound = 1
INVARIANTS
  TypeOK
  LedgerAccountsForEffects
  AllowedByClient
PROPERTIES
  ImplementsLifecycle
  InterruptedWaitIsUnresolved
  AnswerEndsTheWait

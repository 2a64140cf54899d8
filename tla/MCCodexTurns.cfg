SPECIFICATION Spec
CONSTANTS
    Attempt = {a1, a2}
    Interruptible = {a2}
    Elsewhere = Elsewhere
    Residue = Residue
    TranscriptBound = 2
    EventBound = 2
    WorkerBound = 1
INVARIANTS TypeOK BindingIsTranscript ContextIsCanonical AnswerIsComplete NoTraceOfUncommitted
PROPERTIES InterruptEnds
CHECK_DEADLOCK FALSE

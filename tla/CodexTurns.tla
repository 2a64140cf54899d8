----------------------------- MODULE CodexTurns -----------------------------
(***************************************************************************)
(* One Hermes session whose turns are reasoned by a Codex app-server.      *)
(*                                                                         *)
(* Attempts of several hosts (the gateway, whose turns can be interrupted, *)
(* and hermesd chat, whose turns cannot) run against the same session.     *)
(* Each attempt spawns a worker of its own, opens a thread in it, runs one *)
(* turn and commits it at the generation it started from; the thread is    *)
(* then saved as a binding, from which the next attempt may fork.          *)
(*                                                                         *)
(* The host's steps are the awaits of CodexTurnEngine::run_inner and the   *)
(* transactions around it.  The worker is external: it is modelled from    *)
(* the requests the engine sends it and the answers the engine provides    *)
(* for.  A thread has the name of the attempt that opened it, and so has   *)
(* its turn.                                                               *)
(***************************************************************************)
EXTENDS Naturals, Sequences, FiniteSets

CONSTANTS
    Attempt,          \* turns of the session that some host starts
    Interruptible,    \* those of the gateway, which hold a cancellation
    Elsewhere,        \* a turn another process appends, whose binding is lost
    Residue,          \* what a worker adds to a thread after Hermes' turn
    TranscriptBound,  \* turns the session may have
    EventBound,       \* events a worker emits before its turn ends
    WorkerBound       \* attempts whose worker is alive at once

ASSUME AttemptAssumption ==
    /\ Interruptible \subseteq Attempt
    /\ Elsewhere \notin Attempt /\ Residue \notin Attempt /\ Elsewhere # Residue
    /\ TranscriptBound \in Nat /\ EventBound \in Nat /\ WorkerBound \in Nat

VARIABLES
    transcript,  \* the committed turns; the owner generation is one more
    binding,     \* the row of worker_bindings
    attempt,     \* per attempt: where it is and what it started from
    interrupt,   \* attempts whose cancellation was sent
    thread,      \* per attempt: what its worker thread has seen
    worker,      \* per attempt: the app-server process
    stdout,      \* per attempt: frames written and not read yet
    buffered,    \* per attempt: buffered_events
    heard        \* per attempt: text events in the response

vars == <<transcript, binding, attempt, interrupt, thread, worker, stdout,
          buffered, heard>>
\* what the engine and its worker share, and what they do not touch
engineVars == <<thread, worker, stdout, buffered, heard>>
durableVars == <<transcript, binding>>

Turn == Attempt \cup {Elsewhere}
Generation == Len(transcript) + 1

NoBinding == [generation |-> 0, turn |-> Elsewhere]
Binding == [generation : 1..TranscriptBound + 1, turn : Attempt]

StartUp == {"initialize", "config", "open", "start"}
Asking == StartUp \cup {"interrupt"}
Final == {"completed", "failed", "interrupted", "crashed"}
\* shutdown() of an interrupted turn and of a completed one: stdin is flushed
\* and closed, the process exits, its stderr is read to the end
Stopping == {"stopping", "stopExit", "stopStderr"}
Closing == {"closing", "closeStderr"}
Place == {"new", "load", "running", "tool", "refusing", "settling", "commit", "save"}
         \cup Stopping \cup Closing \cup Asking \cup Final

\* a worker's frames: answers, events, and the terminals of a turn
Event == {"text", "call", "bad", "completed", "failed", "interrupted"}
Frame == {"reply", "refusal", "notRunning"} \cup Event

NoWorker == [up |-> FALSE, asked |-> "nothing", turn |-> "none", said |-> 0, emitted |-> 0]
Worker == [up : BOOLEAN, asked : Asking \cup {"nothing"},
           turn : {"none", "running", "ended"}, said : 0..EventBound, emitted : 0..EventBound]

At(t) == attempt[t].at
Ended(t) == At(t) \in Final
Supervising(t) == At(t) \notin {"new", "load", "commit", "save"} \cup Final
Interrupted(t) == t \in interrupt
Goto(t, place) == attempt' = [attempt EXCEPT ![t].at = place]

Init ==
    /\ transcript = <<>>
    /\ binding = NoBinding
    /\ attempt = [t \in Attempt |-> [at |-> "new", base |-> 0, from |-> NoBinding]]
    /\ interrupt = {}
    /\ thread = [t \in Attempt |-> <<>>]
    /\ worker = [t \in Attempt |-> NoWorker]
    /\ stdout = [t \in Attempt |-> <<>>]
    /\ buffered = [t \in Attempt |-> <<>>]
    /\ heard = [t \in Attempt |-> 0]

-----------------------------------------------------------------------------
(* Before the engine: the snapshot and the binding.                        *)

\* A host loads the session.  The gateway runs one turn of a session at a time.
Begin(t) ==
    /\ At(t) = "new"
    /\ t \in Interruptible =>
         \A u \in Interruptible : At(u) = "new" \/ Ended(u)
    /\ attempt' = [attempt EXCEPT ![t].at = "load", ![t].base = Generation]
    /\ UNCHANGED <<durableVars, interrupt, engineVars>>

\* Seeded fault: the row counts whatever its generation.
AnyBinding(generation) == binding

\* load_current: the row counts only when it is of the caller's generation.
CurrentBinding(generation) ==
    IF binding.generation = generation THEN binding ELSE NoBinding

\* The host asks its worker and waits for the answer.
Ask(t, request) ==
    /\ Goto(t, request)
    /\ worker' = [worker EXCEPT ![t].asked = request]

LoadBinding(t) ==
    /\ At(t) = "load"
    /\ attempt[t].base = Generation
    /\ Cardinality({u \in Attempt : Supervising(u)}) < WorkerBound
    /\ attempt' = [attempt EXCEPT ![t].at = "initialize",
                                  ![t].from = CurrentBinding(attempt[t].base)]
    /\ worker' = [worker EXCEPT ![t].up = TRUE, ![t].asked = "initialize"]
    /\ UNCHANGED <<durableVars, interrupt, thread, stdout, buffered, heard>>

\* The worker is dropped, which kills it, whatever it was about to say.
Dismiss(t) ==
    /\ stdout' = [stdout EXCEPT ![t] = <<>>]
    /\ buffered' = [buffered EXCEPT ![t] = <<>>]
    /\ UNCHANGED thread

End(t, outcome) ==
    /\ attempt' = [attempt EXCEPT ![t] = [at |-> outcome, base |-> 0, from |-> NoBinding]]
    /\ Dismiss(t)
    /\ worker' = [worker EXCEPT ![t] = NoWorker]
    /\ heard' = [heard EXCEPT ![t] = 0]
    /\ interrupt' = interrupt \ {t}
    /\ UNCHANGED durableVars

\* The session moved (Conflict), or the store or the spawn failed.
LoadFails(t) == At(t) = "load" /\ End(t, "failed")

-----------------------------------------------------------------------------
(* request(): the engine reads until the answer to what it asked.          *)

\* Up to the start of the turn an interrupt is looked at before anything else.
Waiting(t) == At(t) \in StartUp /\ ~Interrupted(t)
Reading(t) == (Waiting(t) \/ At(t) = "interrupt") /\ stdout[t] # <<>>

\* Seeded fault: answers are buffered as well.
KeepAnything(t) ==
    /\ Reading(t)
    /\ stdout' = [stdout EXCEPT ![t] = Tail(@)]
    /\ buffered' = [buffered EXCEPT ![t] = Append(@, Head(stdout[t]))]
    /\ UNCHANGED <<durableVars, attempt, interrupt, thread, worker, heard>>

\* Seeded fault: request() skips what is not its answer.
KeepNothing(t) ==
    /\ Reading(t) /\ Head(stdout[t]) \in Event
    /\ stdout' = [stdout EXCEPT ![t] = Tail(@)]
    /\ UNCHANGED <<durableVars, attempt, interrupt, thread, worker, buffered, heard>>

\* Events that overtake the answer are kept for next_event.
Keep(t) ==
    /\ Reading(t) /\ Head(stdout[t]) \in Event
    /\ stdout' = [stdout EXCEPT ![t] = Tail(@)]
    /\ buffered' = [buffered EXCEPT ![t] = Append(@, Head(stdout[t]))]
    /\ UNCHANGED <<durableVars, attempt, interrupt, thread, worker, heard>>

AfterAnswer == [initialize |-> "config", config |-> "open", open |-> "start"]

\* The next request of the start-up; turn/start is the last.
Proceed(t) ==
    /\ Waiting(t) /\ stdout[t] # <<>> /\ Head(stdout[t]) = "reply"
    /\ stdout' = [stdout EXCEPT ![t] = Tail(@)]
    /\ IF At(t) = "start"
       THEN Goto(t, "running") /\ UNCHANGED worker
       ELSE Ask(t, AfterAnswer[At(t)])
    /\ UNCHANGED <<durableVars, interrupt, thread, buffered, heard>>

\* A refusal, a frame that is no event, a worker that ended, or an answer the
\* engine does not accept: another model, other tools, a turn not in progress.
StartUpFails(t) ==
    /\ Waiting(t)
    /\ \/ ~worker[t].up /\ stdout[t] = <<>>
       \/ stdout[t] # <<>> /\ Head(stdout[t]) \in Frame \ (Event \ {"bad"})
    /\ End(t, "failed")

-----------------------------------------------------------------------------
(* The event loop of the running turn.                                     *)

\* next_event: what a request left over comes first.
Front(t) == Head(buffered[t] \o stdout[t])
HasNext(t) == buffered[t] \o stdout[t] # <<>>
TakeNext(t) ==
    IF buffered[t] # <<>>
    THEN buffered' = [buffered EXCEPT ![t] = Tail(@)] /\ UNCHANGED stdout
    ELSE stdout' = [stdout EXCEPT ![t] = Tail(@)] /\ UNCHANGED buffered

Listening(t) == At(t) = "running" /\ ~Interrupted(t)

HearText(t) ==
    /\ Listening(t) /\ HasNext(t) /\ Front(t) = "text"
    /\ TakeNext(t)
    /\ heard' = [heard EXCEPT ![t] = @ + 1]
    /\ UNCHANGED <<durableVars, attempt, interrupt, thread, worker>>

\* A dynamic tool call is planned, decided, executed and answered.
BeginCall(t) ==
    /\ Listening(t) /\ HasNext(t) /\ Front(t) = "call"
    /\ TakeNext(t)
    /\ Goto(t, "tool")
    /\ UNCHANGED <<durableVars, interrupt, thread, worker, heard>>

AnswerCall(t) ==
    /\ At(t) = "tool" /\ ~Interrupted(t)
    /\ Goto(t, "running")
    /\ UNCHANGED <<durableVars, interrupt, engineVars>>

CallFails(t) == At(t) = "tool" /\ ~Interrupted(t) /\ End(t, "failed")

\* A request that is no dynamic tool call is refused, whatever is sent meanwhile.
RefuseRequest(t) ==
    /\ Listening(t) /\ HasNext(t) /\ Front(t) = "bad"
    /\ TakeNext(t)
    /\ Goto(t, "refusing")
    /\ UNCHANGED <<durableVars, interrupt, thread, worker, heard>>

RequestRefused(t) == At(t) = "refusing" /\ End(t, "failed")

\* The turn is complete, and has to have some text.
HearCompleted(t) ==
    /\ Listening(t) /\ HasNext(t) /\ Front(t) = "completed" /\ heard[t] > 0
    /\ TakeNext(t)
    /\ Goto(t, "closing")
    /\ UNCHANGED <<durableVars, interrupt, thread, worker, heard>>

\* Also when the client cannot be shown the text.
TurnFails(t) ==
    /\ Listening(t)
    /\ \/ ~worker[t].up /\ ~HasNext(t)
       \/ HasNext(t) /\ Front(t) \in {"text", "bad", "failed", "interrupted"}
       \/ HasNext(t) /\ Front(t) = "completed" /\ heard[t] = 0
    /\ End(t, "failed")

-----------------------------------------------------------------------------
(* Interruption.                                                           *)

\* session.interrupt, or the gateway dropping the sender, fires the cancellation.
Interrupt(t) ==
    /\ t \in Interruptible \ interrupt
    /\ At(t) # "new" /\ ~Ended(t)
    /\ interrupt' = interrupt \cup {t}
    /\ UNCHANGED <<durableVars, attempt, engineVars>>

\* interrupted_before_turn: no turn is known that could be interrupted.
GiveUpStartUp(t) ==
    /\ At(t) \in StartUp /\ Interrupted(t)
    /\ Goto(t, "stopping")
    /\ UNCHANGED <<durableVars, interrupt, engineVars>>

\* interrupt_active_worker asks; a tool that was running is dropped.
AskInterrupt(t) ==
    /\ At(t) \in {"running", "tool"} /\ Interrupted(t)
    /\ Ask(t, "interrupt")
    /\ UNCHANGED <<durableVars, interrupt, thread, stdout, buffered, heard>>

\* Acknowledged: the engine waits for the terminal of the turn.
Acknowledged(t) ==
    /\ At(t) = "interrupt" /\ stdout[t] # <<>> /\ Head(stdout[t]) = "reply"
    /\ stdout' = [stdout EXCEPT ![t] = Tail(@)]
    /\ Goto(t, "settling")
    /\ UNCHANGED <<durableVars, interrupt, thread, worker, buffered, heard>>

\* Refused, garbled, or the worker is gone: there is nothing to wait for.
NotAcknowledged(t) ==
    /\ At(t) = "interrupt"
    /\ \/ ~worker[t].up /\ stdout[t] = <<>>
       \/ stdout[t] # <<>> /\ Head(stdout[t]) \in {"refusal", "bad"}
    /\ Goto(t, "stopping")
    /\ UNCHANGED <<durableVars, interrupt, engineVars>>

\* Calls are refused and other events ignored until the terminal.
Settle(t) ==
    /\ At(t) = "settling" /\ HasNext(t)
    /\ Front(t) \in {"text", "call", "bad"}
    /\ TakeNext(t)
    /\ UNCHANGED <<durableVars, attempt, interrupt, thread, worker, heard>>

Settled(t) ==
    /\ At(t) = "settling"
    /\ \/ ~worker[t].up /\ ~HasNext(t)
       \/ HasNext(t) /\ Front(t) \in {"interrupted", "bad"}
    /\ Goto(t, "stopping")
    /\ UNCHANGED <<durableVars, interrupt, engineVars>>

\* The turn ended otherwise after the interrupt was acknowledged.
SettledOtherwise(t) ==
    /\ At(t) = "settling" /\ HasNext(t) /\ Front(t) \in {"completed", "failed"}
    /\ End(t, "failed")

\* Seeded fault: only the acknowledgement is bounded.
SettleForever(t) ==
    /\ At(t) = "interrupt"
    /\ Goto(t, "stopping")
    /\ UNCHANGED <<durableVars, interrupt, engineVars>>

\* INTERRUPT_ACK_TIMEOUT bounds both waits.
InterruptTimesOut(t) ==
    /\ At(t) \in {"interrupt", "settling"}
    /\ Goto(t, "stopping")
    /\ UNCHANGED <<durableVars, interrupt, engineVars>>

-----------------------------------------------------------------------------
(* shutdown(): of an interrupted turn, and of a completed one.             *)

\* Nothing the worker does from here on is looked at.
Abandon(t, place) ==
    /\ Goto(t, place)
    /\ Dismiss(t)
    /\ worker' = [worker EXCEPT ![t].up = FALSE, ![t].asked = "nothing"]
    /\ UNCHANGED <<durableVars, interrupt, heard>>

\* The rest of a frame the interrupt cut is flushed first, however long it takes.
CloseStdin(t) == At(t) = "stopping" /\ Abandon(t, "stopExit")

\* The process exits by itself.  (A completed turn left nothing to flush.)
Exit(t) ==
    /\ \/ At(t) = "stopExit" /\ Goto(t, "stopStderr")
       \/ At(t) = "closing" /\ Goto(t, "closeStderr")
    /\ UNCHANGED <<durableVars, interrupt, engineVars>>

\* SHUTDOWN_TIMEOUT bounds that wait alone: the process is killed.
ShutdownTimesOut(t) ==
    \/ At(t) = "stopExit" /\ End(t, "interrupted")
    \/ At(t) = "closing" /\ End(t, "failed")

\* Its stderr is at an end, or stdin could not be flushed; the result of the
\* shutdown is dropped.
Stopped(t) == At(t) \in {"stopping", "stopStderr"} /\ End(t, "interrupted")

-----------------------------------------------------------------------------
(* The end of a completed turn: shutdown, commit, binding.                 *)

Close(t) == At(t) = "closeStderr" /\ Abandon(t, "commit")

\* A worker that exits badly fails its turn.
CloseFails(t) == At(t) = "closeStderr" /\ End(t, "failed")

\* append and complete expect the generation the attempt started from.
Commit(t) ==
    /\ At(t) = "commit"
    /\ attempt[t].base = Generation
    /\ Len(transcript) < TranscriptBound
    /\ transcript' = Append(transcript, t)
    /\ Goto(t, "save")
    /\ UNCHANGED <<binding, interrupt, engineVars>>

\* Seeded fault: the append is kept when the commit fails.
CommitFailsHalfway(t) ==
    /\ At(t) = "commit" /\ Len(transcript) < TranscriptBound
    /\ transcript' = Append(transcript, t)
    /\ attempt' = [attempt EXCEPT ![t] = [at |-> "failed", base |-> 0, from |-> NoBinding]]
    /\ UNCHANGED <<binding, interrupt, engineVars>>

CommitFails(t) == At(t) = "commit" /\ End(t, "failed")

\* Seeded fault: saved at the generation a reload finds.
SaveReloaded(t) ==
    /\ At(t) = "save"
    /\ binding' = [generation |-> Generation, turn |-> t]
    /\ Goto(t, "completed")
    /\ UNCHANGED <<transcript, interrupt, engineVars>>

\* save: the generation the commit returned has to be the session's still.
Save(t) ==
    /\ At(t) = "save"
    /\ attempt[t].base + 1 = Generation
    /\ binding' = [generation |-> attempt[t].base + 1, turn |-> t]
    /\ Goto(t, "completed")
    /\ UNCHANGED <<transcript, interrupt, engineVars>>

\* A failed save is a warning.
SaveFails(t) ==
    /\ At(t) = "save"
    /\ Goto(t, "completed")
    /\ UNCHANGED <<durableVars, interrupt, engineVars>>

\* The host dies, and its worker with it.
Crash(t) == At(t) # "new" /\ ~Ended(t) /\ End(t, "crashed")

\* Another process commits a turn and does not save its binding.
AppendElsewhere ==
    /\ Len(transcript) < TranscriptBound
    /\ transcript' = Append(transcript, Elsewhere)
    /\ UNCHANGED <<binding, attempt, interrupt, engineVars>>

-----------------------------------------------------------------------------
(* The worker.                                                             *)

Write(t, frame) == stdout' = [stdout EXCEPT ![t] = Append(@, frame)]
Asked(t, request) == worker[t].up /\ worker[t].asked = request

\* thread/fork copies the thread through the turn that is named.
Through(turns, turn) ==
    SubSeq(turns, 1, CHOOSE i \in DOMAIN turns : turns[i] = turn)
Opened(t) ==
    IF attempt[t].from = NoBinding THEN <<>>
    ELSE Through(thread[attempt[t].from.turn], attempt[t].from.turn)

OpenThread(t) ==
    /\ Asked(t, "open")
    /\ thread' = [thread EXCEPT ![t] = Opened(t)]
    /\ worker' = [worker EXCEPT ![t].asked = "nothing"]
    /\ Write(t, "reply")
    /\ UNCHANGED <<durableVars, attempt, interrupt, buffered, heard>>

\* project_worker_input: a fresh thread is given the history with the prompt.
History(t) == SubSeq(transcript, 1, attempt[t].base - 1)
Input(t) == IF attempt[t].from = NoBinding THEN History(t) ELSE <<>>

BeginTurn(t) ==
    /\ Asked(t, "start") /\ worker[t].turn = "none"
    /\ thread' = [thread EXCEPT ![t] = @ \o Input(t) \o <<t>>]
    /\ worker' = [worker EXCEPT ![t].turn = "running"]
    /\ UNCHANGED <<durableVars, attempt, interrupt, stdout, buffered, heard>>

\* The answer to turn/start may come after events of that turn.
Answer(t) ==
    /\ worker[t].up /\ worker[t].asked \notin {"nothing", "open"}
    /\ worker[t].asked = "start" => worker[t].turn # "none"
    /\ worker' = [worker EXCEPT ![t].asked = "nothing"]
    /\ \/ Write(t, "reply")
       \/ worker[t].asked = "start" /\ worker[t].turn = "ended" /\ Write(t, "notRunning")
    /\ UNCHANGED <<durableVars, attempt, interrupt, thread, buffered, heard>>

Refuse(t) ==
    /\ worker[t].up /\ worker[t].asked # "nothing"
    /\ worker' = [worker EXCEPT ![t].asked = "nothing"]
    /\ Write(t, "refusal")
    /\ UNCHANGED <<durableVars, attempt, interrupt, thread, buffered, heard>>

Emit(t, event) ==
    /\ worker[t].up /\ worker[t].turn = "running"
    /\ worker[t].emitted < EventBound
    /\ worker' = [worker EXCEPT ![t].emitted = @ + 1,
                     ![t].said = IF event = "text" THEN @ + 1 ELSE @]
    /\ Write(t, event)
    /\ UNCHANGED <<durableVars, attempt, interrupt, thread, buffered, heard>>

\* The turn is over, or what the worker writes is no frame of it any more; the
\* worker goes on in its thread.
EndTurn(t, terminal) ==
    /\ worker[t].up /\ worker[t].turn = "running"
    /\ worker' = [worker EXCEPT ![t].turn = "ended"]
    /\ thread' = [thread EXCEPT ![t] = Append(@, Residue)]
    /\ Write(t, terminal)
    /\ UNCHANGED <<durableVars, attempt, interrupt, buffered, heard>>

\* A worker that dies with frames unread is one that is silent until they are read.
Die(t) ==
    /\ worker[t].up /\ stdout[t] = <<>>
    /\ worker' = [worker EXCEPT ![t].up = FALSE, ![t].asked = "nothing"]
    /\ UNCHANGED <<durableVars, attempt, interrupt, thread, stdout, buffered, heard>>

-----------------------------------------------------------------------------
StartUpStep(t) ==
    Begin(t) \/ LoadBinding(t) \/ LoadFails(t) \/ Proceed(t) \/ StartUpFails(t)
TurnStep(t) ==
    \/ Keep(t) \/ HearText(t) \/ BeginCall(t) \/ AnswerCall(t) \/ CallFails(t)
    \/ RefuseRequest(t) \/ RequestRefused(t) \/ HearCompleted(t) \/ TurnFails(t)
InterruptStep(t) ==
    \/ GiveUpStartUp(t) \/ AskInterrupt(t) \/ Acknowledged(t) \/ NotAcknowledged(t)
    \/ Settle(t) \/ Settled(t) \/ SettledOtherwise(t) \/ InterruptTimesOut(t)
ShutdownStep(t) ==
    \/ CloseStdin(t) \/ Exit(t) \/ ShutdownTimesOut(t) \/ Stopped(t)
    \/ Close(t) \/ CloseFails(t)
EndStep(t) == Commit(t) \/ CommitFails(t) \/ Save(t) \/ SaveFails(t)
WorkerStep(t) ==
    \/ OpenThread(t) \/ BeginTurn(t) \/ Answer(t) \/ Refuse(t)
    \/ \E event \in {"text", "call"} : Emit(t, event)
    \/ \E terminal \in {"completed", "failed", "interrupted", "bad"} : EndTurn(t, terminal)
    \/ Die(t)

Next ==
    \/ \E t \in Attempt :
        \/ StartUpStep(t) \/ TurnStep(t) \/ InterruptStep(t)
        \/ ShutdownStep(t) \/ EndStep(t)
        \/ Interrupt(t) \/ Crash(t) \/ WorkerStep(t)
    \/ AppendElsewhere

\* The host looks at an interrupt, its timers fire, and its own transactions
\* end.  Nothing is assumed of the worker, of a tool or of other processes: a
\* wait for one of them has no fairness, unless a timer bounds it.
Fairness ==
    \A t \in Attempt :
        /\ WF_vars(LoadBinding(t) \/ LoadFails(t))
        /\ WF_vars(GiveUpStartUp(t) \/ AskInterrupt(t))
        /\ WF_vars(InterruptTimesOut(t))
        /\ WF_vars(ShutdownTimesOut(t))
        /\ WF_vars(EndStep(t))

Spec == Init /\ [][Next]_vars /\ Fairness

-----------------------------------------------------------------------------
\* Types; an attempt's binding, once loaded, is a row that was saved.
TypeOK ==
    /\ transcript \in Seq(Turn)
    /\ Len(transcript) <= TranscriptBound
    /\ binding \in Binding \cup {NoBinding}
    /\ attempt \in [Attempt -> [at : Place, base : 0..TranscriptBound + 1,
                                from : Binding \cup {NoBinding}]]
    /\ interrupt \subseteq Interruptible
    /\ thread \in [Attempt -> Seq(Turn \cup {Residue})]
    /\ worker \in [Attempt -> Worker]
    /\ stdout \in [Attempt -> Seq(Frame)]
    /\ buffered \in [Attempt -> Seq(Event)]
    /\ heard \in [Attempt -> Nat]

\* The first n turns of the session.
Prefix(n) == SubSeq(transcript, 1, n)

\* A saved binding stands for the session: its thread, through its last turn,
\* is the transcript at its generation, whichever hosts raced to save theirs
\* (persist_worker_binding runs after the commit, in a transaction of its own).
BindingIsTranscript ==
    binding # NoBinding =>
        Through(thread[binding.turn], binding.turn) = Prefix(binding.generation - 1)

\* The worker reasons about the session the attempt was started on and nothing
\* else: not a turn less, and no turn that was never committed.
ContextIsCanonical ==
    \A t \in Attempt : worker[t].turn # "none" =>
        Through(thread[t], t) = Append(Prefix(attempt[t].base - 1), t)

\* What is committed was said by the worker, all of it: events that overtook
\* the answer to turn/start are not lost, nor read out of order.
AnswerIsComplete ==
    \A t \in Attempt : At(t) \in Closing \cup {"commit", "save", "completed"} =>
        heard[t] = worker[t].said

\* A turn that failed or was interrupted leaves no trace in the session, in its
\* binding, or in the thread of another attempt.
NoTraceOfUncommitted ==
    \A t \in Attempt : At(t) \in {"failed", "interrupted"} =>
        /\ \A i \in DOMAIN transcript : transcript[i] # t
        /\ binding.turn # t
        /\ \A u \in Attempt \ {t} : \A i \in DOMAIN thread[u] : thread[u][i] # t

\* The waits no timer bounds and no interrupt cuts: the refusal of a request and
\* the rest of a frame, until the worker reads them, and the end of its stderr.
HeldByWorker(t) == At(t) \in {"refusing", "stopping", "stopStderr", "closeStderr"}

\* An interrupted attempt ends, whatever its worker answers or leaves unanswered,
\* unless the worker holds it for ever in one of those waits.
InterruptEnds ==
    \A t \in Interruptible :
        (t \in interrupt ~> Ended(t)) \/ <>[]HeldByWorker(t)
=============================================================================

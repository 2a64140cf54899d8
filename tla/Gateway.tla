------------------------------- MODULE Gateway -------------------------------
(***************************************************************************)
(* The gateway process over its foreground store: the main task, which     *)
(* reads requests one at a time, one spawned task per accepted prompt, and *)
(* the two locked maps they share. Main task and turn tasks run in         *)
(* parallel; background completions, other writers of a session, process   *)
(* death and restart come from outside.                                    *)
(*                                                                         *)
(* A turn task is cancelled when its oneshot sender has gone from the map, *)
(* sent or merely dropped: execute_turn_inner takes either for a           *)
(* cancellation. So "controls" tells all a task can learn.                 *)
(***************************************************************************)
EXTENDS ForegroundStore

CONSTANT CrashBound   \* bound: how often the process may die

ASSUME CrashBoundAssumption == CrashBound \in Nat

VARIABLES
  up,        \* a process holds the gateway lease
  closing,   \* its standard input is closed
  submit,    \* the prompt the main task is accepting
  task,      \* turn -> the spawned task that runs it
  busy,      \* GatewayHost.busy
  controls,  \* GatewayHost.controls: session -> turn whose sender it holds
  minted,    \* history: attempt ids already used
  asked,     \* history: attempts a client, or closing down, interrupted
  told,      \* history: what message.complete said of an attempt
  crashes

memory   == <<up, closing, submit, task, busy, controls>>
history  == <<minted, asked, told, crashes>>
vars     == <<storeVars, memory, history>>

Submit == [pc : {"idle", "load", "list", "claim", "start", "release", "control", "spawn"},
           session : Session \cup {Null}, turn : Turn \cup {Null}, gen : Nat,
           todo : SUBSET Event, claimed : SUBSET Event, newer : SUBSET Event]

Task == {"none", "load", "run", "commit", "interrupted", "failed",
         "clear busy", "clear controls", "tell"}

Result == {"none", "completed", "interrupted", "failed", "not persisted"}

Idle == [pc |-> "idle", session |-> Null, turn |-> Null, gen |-> 0,
         todo |-> {}, claimed |-> {}, newer |-> {}]

NoTask == [pc |-> "none", result |-> "none"]

Init ==
  /\ StoreInit
  /\ up = TRUE /\ closing = FALSE
  /\ submit = Idle
  /\ task = [t \in Turn |-> NoTask]
  /\ busy = {}
  /\ controls = [s \in Session |-> Null]
  /\ minted = {} /\ asked = {}
  /\ told = [t \in Turn |-> "none"]
  /\ crashes = 0

Listening == up /\ ~closing /\ submit.pc = "idle"

-----------------------------------------------------------------------------
(* prompt.submit.                                                          *)

\* Seeded fault: the sender is registered before the prompt is accepted.
SubmitBeginArmed(s, t) ==
  /\ Listening
  /\ s \notin busy /\ t \notin minted
  /\ busy' = busy \cup {s}
  /\ minted' = minted \cup {t}
  /\ submit' = [Idle EXCEPT !.pc = "load", !.session = s, !.turn = t]
  /\ controls' = [controls EXCEPT ![s] = t]
  /\ UNCHANGED <<storeVars, up, closing, task, asked, told, crashes>>

\* The turn id and the start timestamp are taken before anything is read.
SubmitBegin(s, t) ==
  /\ Listening
  /\ s \notin busy /\ t \notin minted
  /\ busy' = busy \cup {s}
  /\ minted' = minted \cup {t}
  /\ submit' = [Idle EXCEPT !.pc = "load", !.session = s, !.turn = t]
  /\ UNCHANGED <<storeVars, up, closing, task, controls, asked, told, crashes>>

SubmitLoad ==
  /\ submit.pc = "load"
  /\ submit' = [submit EXCEPT !.pc = "list", !.gen = Generation(submit.session)]
  /\ UNCHANGED <<storeVars, up, closing, task, busy, controls, history>>

SubmitList ==
  /\ submit.pc = "list"
  /\ submit' = [submit EXCEPT !.pc = "claim",
       !.todo = {e \in Event : Available(e) /\ event[e].parent = submit.session}]
  /\ UNCHANGED <<storeVars, up, closing, task, busy, controls, history>>

SubmitClaim(e) ==
  /\ submit.pc = "claim" /\ e \in submit.todo
  /\ ClaimEvent(e, submit.turn)
  /\ submit' = [submit EXCEPT !.todo = @ \ {e}, !.claimed = @ \cup {e}]
  /\ UNCHANGED <<up, closing, task, busy, controls, history>>

SubmitPrompt ==
  /\ submit.pc = "claim" /\ submit.todo = {}
  /\ submit' = [submit EXCEPT !.pc = "start"]
  /\ UNCHANGED <<storeVars, up, closing, task, busy, controls, history>>

SubmitStart ==
  LET s == submit.session
      t == submit.turn
  IN /\ submit.pc = "start"
     /\ IF Startable(t, s, submit.gen, submit.claimed, submit.newer)
        THEN /\ StartTurn(t, s, submit.gen, submit.claimed, submit.newer)
             /\ submit' = [submit EXCEPT !.pc = "control"]
        ELSE /\ submit' = [submit EXCEPT !.pc = "release"]
             /\ UNCHANGED storeVars
     /\ UNCHANGED <<up, closing, task, busy, controls, history>>

\* A store error on the way: what was claimed so far is given back.
SubmitFails ==
  /\ submit.pc \in {"load", "list", "claim", "start"}
  /\ submit' = [submit EXCEPT !.pc = "release"]
  /\ UNCHANGED <<storeVars, up, closing, task, busy, controls, history>>

\* Each claim is released on its own, and a failure to do so is ignored.
SubmitRelease(e) ==
  /\ submit.pc = "release" /\ e \in submit.claimed
  /\ ReleaseEvent(e, submit.turn) \/ UNCHANGED storeVars
  /\ submit' = [submit EXCEPT !.claimed = @ \ {e}]
  /\ UNCHANGED <<up, closing, task, busy, controls, history>>

\* Seeded fault: one of the early returns forgets to clear busy.
SubmitRefuseStaysBusy ==
  /\ submit.pc = "release" /\ submit.claimed = {}
  /\ submit' = Idle
  /\ UNCHANGED <<storeVars, up, closing, task, busy, controls, history>>

SubmitRefuse ==
  /\ submit.pc = "release" /\ submit.claimed = {}
  /\ busy' = busy \ {submit.session}
  /\ submit' = Idle
  /\ UNCHANGED <<storeVars, up, closing, task, controls, history>>

\* Inserting the sender drops the one that was there.
SubmitControl ==
  /\ submit.pc = "control"
  /\ controls' = [controls EXCEPT ![submit.session] = submit.turn]
  /\ submit' = [submit EXCEPT !.pc = "spawn"]
  /\ UNCHANGED <<storeVars, up, closing, task, busy, history>>

SubmitSpawn ==
  /\ submit.pc = "spawn"
  /\ task' = [task EXCEPT ![submit.turn] = [NoTask EXCEPT !.pc = "load"]]
  /\ submit' = Idle
  /\ UNCHANGED <<storeVars, up, closing, busy, controls, history>>

\* The client's end is closed: the attempt is terminated and the gateway exits.
SubmitReplyFails ==
  /\ submit.pc = "spawn"
  /\ \/ TerminateTurn(submit.turn, submit.gen, "failed")
     \/ ~Current(submit.turn, submit.gen) /\ UNCHANGED storeVars
  /\ up' = FALSE /\ closing' = FALSE
  /\ submit' = Idle
  /\ task' = [t \in Turn |-> NoTask]
  /\ busy' = {}
  /\ controls' = [s \in Session |-> Null]
  /\ UNCHANGED history

-----------------------------------------------------------------------------
(* The spawned task of an accepted prompt.                                 *)

At(t, pc) == task[t].pc = pc

Goto(t, pc) == task' = [task EXCEPT ![t].pc = pc]

Report(t, result) ==
  task' = [task EXCEPT ![t] = [pc |-> "clear busy", result |-> result]]

SessionOf(t) == turn[t].session

TaskLoad(t) ==
  /\ At(t, "load")
  /\ Goto(t, IF Generation(SessionOf(t)) = turn[t].gen THEN "run" ELSE "failed")
  /\ UNCHANGED <<storeVars, up, closing, submit, busy, controls, history>>

TaskFinishes(t) ==
  /\ At(t, "run")
  /\ Goto(t, "commit")
  /\ UNCHANGED <<storeVars, up, closing, submit, busy, controls, history>>

\* The provider fails, or a store call before the terminal does.
TaskFails(t) ==
  /\ task[t].pc \in {"load", "run", "commit"}
  /\ Goto(t, "failed")
  /\ UNCHANGED <<storeVars, up, closing, submit, busy, controls, history>>

TaskCancelled(t) ==
  /\ At(t, "run")
  /\ controls[SessionOf(t)] # t
  /\ Goto(t, "interrupted")
  /\ UNCHANGED <<storeVars, up, closing, submit, busy, controls, history>>

\* Seeded fault: the answer is reported whether or not it was committed.
TaskCommitUnchecked(t) ==
  /\ At(t, "commit")
  /\ IF Current(t, turn[t].gen) THEN CompleteTurn(t, turn[t].gen) ELSE UNCHANGED storeVars
  /\ Report(t, "completed")
  /\ UNCHANGED <<up, closing, submit, busy, controls, history>>

\* Seeded fault: the answer is appended to whatever the session has become.
TaskCommitAnywhere(t) ==
  /\ At(t, "commit")
  /\ transcript' = [transcript EXCEPT ![SessionOf(t)] = Append(@, t)]
  /\ turn' = [turn EXCEPT ![t].state = "completed"]
  /\ UNCHANGED event
  /\ Report(t, "completed")
  /\ UNCHANGED <<up, closing, submit, busy, controls, history>>

TaskCommit(t) ==
  /\ At(t, "commit")
  /\ IF Current(t, turn[t].gen)
     THEN CompleteTurn(t, turn[t].gen) /\ Report(t, "completed")
     ELSE Goto(t, "failed") /\ UNCHANGED storeVars
  /\ UNCHANGED <<up, closing, submit, busy, controls, history>>

\* One attempt to record an interruption or a failure.
TaskTerminate(t) ==
  /\ task[t].pc \in {"interrupted", "failed"}
  /\ \/ TerminateTurn(t, turn[t].gen, task[t].pc) /\ Report(t, task[t].pc)
     \/ ~Current(t, turn[t].gen) /\ Report(t, "not persisted") /\ UNCHANGED storeVars
  /\ UNCHANGED <<up, closing, submit, busy, controls, history>>

TaskTerminateError(t) ==
  /\ task[t].pc \in {"interrupted", "failed"}
  /\ Report(t, "not persisted")
  /\ UNCHANGED <<storeVars, up, closing, submit, busy, controls, history>>

TaskClearBusy(t) ==
  /\ At(t, "clear busy")
  /\ busy' = busy \ {SessionOf(t)}
  /\ Goto(t, "clear controls")
  /\ UNCHANGED <<storeVars, up, closing, submit, controls, history>>

\* Whatever sender the session has by now is dropped.
TaskClearControls(t) ==
  /\ At(t, "clear controls")
  /\ controls' = [controls EXCEPT ![SessionOf(t)] = Null]
  /\ Goto(t, "tell")
  /\ UNCHANGED <<storeVars, up, closing, submit, busy, history>>

TaskTell(t) ==
  /\ At(t, "tell")
  /\ told' = [told EXCEPT ![t] = task[t].result]
  /\ task' = [task EXCEPT ![t] = NoTask]
  /\ UNCHANGED <<storeVars, up, closing, submit, busy, controls, minted, asked, crashes>>

-----------------------------------------------------------------------------
(* session.interrupt, shutdown, death and restart.                         *)

Held(s) == {controls[s]} \ {Null}

\* Seeded fault: only approvals are denied; the turn is left to run.
InterruptKeepsSender(s) ==
  /\ Listening
  /\ asked' = asked \cup Held(s)
  /\ UNCHANGED <<storeVars, memory, minted, told, crashes>>

Interrupt(s) ==
  /\ Listening
  /\ asked' = asked \cup Held(s)
  /\ controls' = [controls EXCEPT ![s] = Null]
  /\ UNCHANGED <<storeVars, up, closing, submit, task, busy, minted, told, crashes>>

CloseInput ==
  /\ Listening
  /\ closing' = TRUE
  /\ asked' = asked \cup UNION {Held(s) : s \in Session}
  /\ controls' = [s \in Session |-> Null]
  /\ UNCHANGED <<storeVars, up, submit, task, busy, minted, told, crashes>>

Exit ==
  /\ closing
  /\ \A t \in Turn : At(t, "none")
  /\ up' = FALSE /\ closing' = FALSE
  /\ UNCHANGED <<storeVars, submit, task, busy, controls, history>>

Crash ==
  /\ up /\ crashes < CrashBound
  /\ up' = FALSE /\ closing' = FALSE
  /\ submit' = Idle
  /\ task' = [t \in Turn |-> NoTask]
  /\ busy' = {}
  /\ controls' = [s \in Session |-> Null]
  /\ crashes' = crashes + 1
  /\ UNCHANGED <<storeVars, minted, asked, told>>

\* Claims left running by the last process are settled before gateway.ready.
Restart ==
  /\ ~up
  /\ up' = TRUE
  /\ ReconcileTurns
  /\ UNCHANGED <<closing, submit, task, busy, controls, history>>

-----------------------------------------------------------------------------
(* What happens around the process.                                        *)

\* A background child settles. If a prompt is being accepted meanwhile, the
\* completion may be newer than the prompt's start timestamp.
ChildCompletes(e, s) ==
  /\ up
  /\ Publish(e, s)
  /\ \/ UNCHANGED submit
     \/ /\ submit.pc # "idle"
        /\ submit' = [submit EXCEPT !.newer = @ \cup {e}]
  /\ UNCHANGED <<up, closing, task, busy, controls, history>>

OtherWriter(s) == AppendElsewhere(s) /\ UNCHANGED <<memory, history>>

DeadlinePasses(e) == ExpireClaim(e) /\ UNCHANGED <<memory, history>>

-----------------------------------------------------------------------------
SubmitNext ==
  \/ \E s \in Session, t \in Turn : SubmitBegin(s, t)
  \/ SubmitLoad
  \/ SubmitList
  \/ \E e \in Event : SubmitClaim(e) \/ SubmitRelease(e)
  \/ SubmitPrompt
  \/ SubmitStart
  \/ SubmitFails
  \/ SubmitRefuse
  \/ SubmitControl
  \/ SubmitSpawn
  \/ SubmitReplyFails

TaskNext(t) ==
  \/ TaskLoad(t)
  \/ TaskFinishes(t)
  \/ TaskFails(t)
  \/ TaskCancelled(t)
  \/ TaskCommit(t)
  \/ TaskTerminate(t)
  \/ TaskTerminateError(t)
  \/ TaskClearBusy(t)
  \/ TaskClearControls(t)
  \/ TaskTell(t)

Next ==
  \/ SubmitNext
  \/ \E t \in Turn : TaskNext(t)
  \/ \E s \in Session : Interrupt(s) \/ OtherWriter(s)
  \/ \E e \in Event : DeadlinePasses(e) \/ \E s \in Session : ChildCompletes(e, s)
  \/ CloseInput
  \/ Exit
  \/ Crash
  \/ Restart

Spec == Init /\ [][Next]_vars

\* A task that can take a step takes one; a provider need not answer, so
\* TaskFinishes and TaskFails are never forced.
Fairness ==
  /\ \A t \in Turn :
       /\ WF_vars(TaskLoad(t)) /\ WF_vars(TaskCancelled(t)) /\ WF_vars(TaskCommit(t))
       /\ WF_vars(TaskTerminate(t)) /\ WF_vars(TaskClearBusy(t))
       /\ WF_vars(TaskClearControls(t)) /\ WF_vars(TaskTell(t))
  /\ WF_vars(Exit)

FairSpec == Spec /\ Fairness

-----------------------------------------------------------------------------
(* Properties.                                                             *)

\* Types of the process state; a sender is registered only for an attempt of
\* that session that was durably accepted (submit).
TypeOK ==
  /\ StoreTypeOK
  /\ up \in BOOLEAN /\ closing \in BOOLEAN
  /\ submit \in Submit
  /\ task \in [Turn -> [pc : Task, result : Result]]
  /\ busy \subseteq Session
  /\ controls \in [Session -> Turn \cup {Null}]
  /\ \A s \in Session : \A t \in Held(s) : SessionOf(t) = s
  /\ minted \subseteq Turn /\ asked \subseteq Turn
  /\ told \in [Turn -> Result]
  /\ crashes \in Nat

\* The process uses its store only in ways the store's own specification
\* allows, so everything shown of ForegroundStore holds of the gateway.
ImplementsStore == StoreSpec

\* What a client is told of an attempt is what the database says of it from
\* then on, through interrupts, conflicts, crashes and restarts: message.complete
\* is sent only after the terminal is durable (submit's spawned task).
ReportedIsDurable ==
  \A t \in Turn : told[t] \in TurnTerminal => turn[t].state = told[t]

\* The in-memory busy set matches the work. A busy session is being worked on
\* by someone who will clear it, on every early return, so no session stays
\* locked; and while the process is up a session whose attempt is running is
\* busy, unless the attempt's terminal could not be recorded (submit,
\* clear_busy, the spawned task's clean-up).
BusyMatchesWork ==
  /\ \A s \in busy :
       \/ submit.session = s
       \/ \E t \in Turn : SessionOf(t) = s /\ ~At(t, "none")
  /\ up => \A t \in RunningTurns :
       \/ SessionOf(t) \in busy
       \/ "not persisted" \in {task[t].result, told[t]}

\* An interrupted attempt's task ends even if the provider never answers,
\* whatever becomes of its session meanwhile (interrupt_session,
\* execute_turn_inner).
InterruptTakesEffect ==
  \A t \in Turn : (t \in asked /\ ~At(t, "none")) ~> At(t, "none")

\* A gateway whose input has closed exits (run_gateway's drain and await).
ShutdownCompletes == closing ~> ~up

\* What is asked to stop stops, one attempt or the whole process, even when
\* the provider is silent and the session was written by someone else.
StopsWhenAsked == InterruptTakesEffect /\ ShutdownCompletes

\* "An authorized client cancelled the attempt": an attempt recorded as
\* interrupted was interrupted by someone (ForegroundTurnTerminal::Interrupted).
InterruptedOnlyOnRequest ==
  \A t \in Turn : turn[t].state = "interrupted" => t \in asked

\* "Interrupt and observed failure terminalize the claim": when the task of an
\* interrupted or failed attempt calls terminate_turn, and the database answers,
\* the attempt is terminal (terminate, which also checks the session).
OutcomeIsRecorded ==
  [][\A t \in Turn : TaskTerminate(t) => turn'[t].state \in TurnTerminal]_vars
=============================================================================

----------------------------- MODULE GatewayProofs -----------------------------
(***************************************************************************)
(* Proofs about the gateway process, for any number of sessions, prompts   *)
(* and completions and any number of crashes.                              *)
(*                                                                         *)
(* The refinement comes first: every step is a step of the foreground      *)
(* store or leaves it alone, so StoreInv holds here, and rows are kept as  *)
(* the store keeps them. On top of it the inductive invariant says who     *)
(* works on a session: at most one of the main task and the turn tasks,    *)
(* and exactly while it is busy.                                           *)
(***************************************************************************)
EXTENDS Gateway, ForegroundStoreProofs

\* What the main task has of the prompt it accepts; once the attempt is
\* started its row is there.
SubmitOK ==
  /\ submit.pc = "idle" => submit = Idle
  /\ submit.pc # "idle" => submit.session \in Session /\ submit.turn \in Turn
  /\ submit.pc \in {"control", "spawn"} =>
       turn[submit.turn].state # "absent" /\ SessionOf(submit.turn) = submit.session

\* Between the last step that can change its row and the end of its clean-up a
\* task has a result.
Ended == {"clear busy", "clear controls", "tell"}

ResultOf(t) == task[t].result

TaskOK(t) ==
  /\ ~At(t, "none") => turn[t].state # "absent"
  /\ task[t].pc \in Ended => ResultOf(t) # "none"
  /\ ResultOf(t) \in TurnTerminal => turn[t].state = ResultOf(t)

TasksOK == \A t \in Turn : TaskOK(t)

\* A task that has still to clear the busy mark of its session.
Serving(t) == task[t].pc \in Task \ {"none", "clear controls", "tell"}

OneWorker ==
  /\ \A t, u \in Turn : Serving(t) /\ Serving(u) /\ SessionOf(t) = SessionOf(u) => t = u
  /\ \A t \in Turn : Serving(t) /\ submit.pc # "idle" => SessionOf(t) # submit.session

BusyIsServed ==
  /\ submit.pc # "idle" => submit.session \in busy
  /\ \A t \in Turn : Serving(t) => SessionOf(t) \in busy
  /\ \A s \in busy : submit.session = s \/ \E t \in Turn : SessionOf(t) = s /\ Serving(t)

Lost(t) == "not persisted" \in {task[t].result, told[t]}

RunningIsServed ==
  up => \A t \in RunningTurns :
    \/ Serving(t)
    \/ submit.pc \in {"control", "spawn"} /\ submit.turn = t
    \/ Lost(t)

Inv ==
  /\ StoreInv
  /\ TypeOK
  /\ SubmitOK
  /\ TasksOK
  /\ ReportedIsDurable
  /\ OneWorker
  /\ BusyIsServed
  /\ RunningIsServed

-----------------------------------------------------------------------------
(* The store under the gateway.                                            *)

\* An attempt's row stays, under its session, and a terminal one as it is.
RowsKept ==
  \A t \in Turn : turn[t].state # "absent" =>
    /\ turn'[t].state # "absent" /\ turn'[t].session = turn[t].session
    /\ turn[t].state \in TurnTerminal => turn'[t].state = turn[t].state
    /\ turn'[t].state = "running" => turn[t].state = "running"

LEMMA StoreKeepsRows ==
  ASSUME StoreInv, [StoreNext]_storeVars
  PROVE  RowsKept
<1>1. turn \in [Turn -> TurnRow]
  BY DEF StoreInv, StoreTypeOK
<1> USE DEF RowsKept, TurnTerminal
<1>2. ASSUME NEW t \in Turn, NEW s \in Session, NEW g \in Nat,
             NEW carried \in SUBSET Event, NEW newer \in SUBSET Event,
             StartTurn(t, s, g, carried, newer)
      PROVE  RowsKept
  BY <1>1, <1>2 DEF StartTurn, Startable
<1>3. ASSUME NEW t \in Turn, NEW g \in Nat, CompleteTurn(t, g) PROVE RowsKept
  BY <1>1, <1>3 DEF CompleteTurn, Current, TurnRow
<1>4. ASSUME NEW t \in Turn, NEW g \in Nat, NEW o \in TurnTerminal, TerminateTurn(t, g, o)
      PROVE  RowsKept
  BY <1>1, <1>4 DEF TerminateTurn, Current, TurnRow
<1>5. CASE ReconcileTurns
  BY <1>1, <1>5 DEF ReconcileTurns, RunningTurns, TurnRow
<1>6. CASE UNCHANGED turn
  BY <1>6
<1>7. ASSUME NEW s \in Session, NEW n \in 1 .. Generation(s) PROVE n \in Nat
  BY DEF StoreInv, StoreTypeOK, Generation
<1>8. ASSUME NEW t \in Turn, NEW g \in 1 .. turn[t].gen PROVE g \in Nat
  BY <1>1 DEF TurnRow
<1>9. ASSUME StoreNext PROVE RowsKept
  BY <1>2, <1>3, <1>4, <1>5, <1>6, <1>7, <1>8, <1>9
  DEF StoreNext, AppendElsewhere, ExpireClaim, Publish, ClaimEvent, ReleaseEvent
<1> QED
  BY <1>6, <1>9 DEF storeVars

\* The generations the gateway passes are ones the store can be asked about.
LEMMA StartIsStoreStep ==
  ASSUME StoreInv, NEW t \in Turn, NEW s \in Session, NEW g,
         NEW carried \in SUBSET Event, NEW newer \in SUBSET Event,
         StartTurn(t, s, g, carried, newer)
  PROVE  StoreNext
<1>1. g = Generation(s)
  BY DEF StartTurn, Startable
<1>2. transcript[s] \in Seq(Turn \cup {Null})
  BY DEF StoreInv, StoreTypeOK
<1>3. g \in 1 .. Generation(s)
  BY <1>1, <1>2, LenProperties DEF Generation
<1> QED
  BY <1>3 DEF StoreNext

LEMMA EndIsStoreStep ==
  ASSUME StoreInv, NEW t \in Turn, NEW g,
         \/ CompleteTurn(t, g)
         \/ \E o \in TurnTerminal : TerminateTurn(t, g, o)
  PROVE  StoreNext
<1>1. turn[t].gen = g /\ turn[t].state = "running"
  BY DEF CompleteTurn, TerminateTurn, Current
<1>2. turn[t].gen \in Nat /\ turn[t].gen >= 1
  BY <1>1 DEF StoreInv, StoreTypeOK, AttemptsOK, AttemptShape, TurnRow
<1>3. g \in 1 .. turn[t].gen
  BY <1>1, <1>2
<1> QED
  BY <1>3 DEF StoreNext

LEMMA StepIsStoreStep ==
  ASSUME StoreInv, TypeOK, SubmitOK, [Next]_vars
  PROVE  [StoreNext]_storeVars
<1>1. submit \in Submit
  BY DEF TypeOK
<1>2. CASE UNCHANGED vars
  BY <1>2 DEF vars
<1>3. CASE SubmitNext
  <2>1. CASE SubmitStart
    BY <1>1, <2>1, StartIsStoreStep DEF SubmitStart, SubmitOK, Submit
  <2>2. CASE SubmitReplyFails
    BY <2>2, EndIsStoreStep DEF SubmitReplyFails, SubmitOK, TurnTerminal
  <2>3. ASSUME NEW e \in Event, SubmitClaim(e) PROVE StoreNext
    BY <2>3 DEF SubmitClaim, SubmitOK, StoreNext
  <2>4. ASSUME NEW e \in Event, SubmitRelease(e) PROVE [StoreNext]_storeVars
    BY <2>4 DEF SubmitRelease, SubmitOK, StoreNext
  <2> QED
    BY <1>3, <2>1, <2>2, <2>3, <2>4
    DEF SubmitNext, SubmitBegin, SubmitLoad, SubmitList, SubmitPrompt, SubmitFails, SubmitRefuse,
        SubmitControl, SubmitSpawn
<1>4. ASSUME NEW t \in Turn, TaskNext(t) PROVE [StoreNext]_storeVars
  <2>1. CASE TaskCommit(t)
    BY <2>1, EndIsStoreStep DEF TaskCommit
  <2>2. CASE TaskTerminate(t)
    BY <2>2, EndIsStoreStep DEF TaskTerminate, TurnTerminal
  <2> QED
    BY <1>4, <2>1, <2>2
    DEF TaskNext, TaskLoad, TaskFinishes, TaskFails, TaskCancelled, TaskTerminateError,
        TaskClearBusy, TaskClearControls, TaskTell
<1>5. ASSUME NEW s \in Session, Interrupt(s) \/ OtherWriter(s) PROVE [StoreNext]_storeVars
  BY <1>5 DEF Interrupt, OtherWriter, StoreNext
<1>6. ASSUME NEW e \in Event, DeadlinePasses(e) \/ \E s \in Session : ChildCompletes(e, s)
      PROVE  [StoreNext]_storeVars
  BY <1>6 DEF DeadlinePasses, ChildCompletes, StoreNext
<1>7. CASE CloseInput \/ Exit \/ Crash \/ Restart
  BY <1>7 DEF CloseInput, Exit, Crash, Restart, StoreNext
<1> QED
  BY <1>2, <1>3, <1>4, <1>5, <1>6, <1>7 DEF Next

-----------------------------------------------------------------------------
(* The state of the process, one action at a time, given what the store    *)
(* keeps.                                                                  *)

LEMMA InitInv == Init => Inv
<1> SUFFICES ASSUME Init PROVE Inv
  OBVIOUS
<1> USE DEF Init
<1>1. StoreInv
  BY InitStoreInv
<1>2. TypeOK
  BY <1>1, CrashBoundAssumption
  DEF StoreInv, TypeOK, Submit, Idle, Task, Result, NoTask, Held
<1>3. SubmitOK /\ TasksOK /\ ReportedIsDurable
  BY DEF SubmitOK, TasksOK, TaskOK, At, NoTask, Idle, ResultOf, Ended, TurnTerminal, ReportedIsDurable
<1>4. OneWorker /\ BusyIsServed /\ RunningIsServed
  BY DEF OneWorker, BusyIsServed, Serving, RunningIsServed, RunningTurns, StoreInit, NoTurn,
         NoTask, Idle
<1> QED
  BY <1>1, <1>2, <1>3, <1>4 DEF Inv

\* What holds of the process variables by themselves.
ProcessTypeOK ==
  /\ up \in BOOLEAN /\ closing \in BOOLEAN
  /\ submit \in Submit
  /\ task \in [Turn -> [pc : Task, result : Result]]
  /\ busy \subseteq Session
  /\ controls \in [Session -> Turn \cup {Null}]
  /\ minted \subseteq Turn /\ asked \subseteq Turn
  /\ told \in [Turn -> Result]
  /\ crashes \in Nat

LEMMA SubmitTypes ==
  ASSUME ProcessTypeOK, StoreInv, SubmitOK, SubmitNext
  PROVE  ProcessTypeOK'
<1> USE DEF ProcessTypeOK, Submit, Idle
<1>1. ASSUME NEW s \in Session, NEW t \in Turn, SubmitBegin(s, t) PROVE ProcessTypeOK'
  BY <1>1 DEF SubmitBegin
<1>2. CASE SubmitLoad
  <2>1. transcript[submit.session] \in Seq(Turn \cup {Null})
    BY <1>2 DEF SubmitLoad, SubmitOK, StoreInv, StoreTypeOK
  <2>2. Generation(submit.session) \in Nat
    BY <2>1, LenProperties DEF Generation
  <2> QED
    BY <1>2, <2>2 DEF SubmitLoad, history
<1>3. CASE SubmitList
  BY <1>3 DEF SubmitList, history
<1>4. ASSUME NEW e \in Event, SubmitClaim(e) PROVE ProcessTypeOK'
  BY <1>4 DEF SubmitClaim, history
<1>5. ASSUME NEW e \in Event, SubmitRelease(e) PROVE ProcessTypeOK'
  BY <1>5 DEF SubmitRelease, history
<1>6. CASE SubmitPrompt
  BY <1>6 DEF SubmitPrompt, history
<1>7. CASE SubmitStart
  BY <1>7 DEF SubmitStart, history
<1>8. CASE SubmitFails
  BY <1>8 DEF SubmitFails, history
<1>9. CASE SubmitRefuse
  BY <1>9 DEF SubmitRefuse, history
<1>10. CASE SubmitControl
  BY <1>10 DEF SubmitControl, SubmitOK, history
<1>11. CASE SubmitSpawn
  BY <1>11 DEF SubmitSpawn, SubmitOK, history, Task, Result, NoTask
<1>12. CASE SubmitReplyFails
  BY <1>12 DEF SubmitReplyFails, history, Task, Result, NoTask
<1> QED
  BY <1>1, <1>2, <1>3, <1>4, <1>5, <1>6, <1>7, <1>8, <1>9, <1>10, <1>11, <1>12 DEF SubmitNext

LEMMA TaskTypes ==
  ASSUME ProcessTypeOK, NEW t \in Turn, TaskNext(t)
  PROVE  ProcessTypeOK'
<1>1. /\ \A pc \in Task : Goto(t, pc) => task' \in [Turn -> [pc : Task, result : Result]]
      /\ \A r \in Result : Report(t, r) => task' \in [Turn -> [pc : Task, result : Result]]
      /\ task[t].result \in Result
  <2>1. task[t] \in [pc : Task, result : Result] /\ "clear busy" \in Task
    BY DEF ProcessTypeOK, Task
  <2>2. ASSUME NEW pc \in Task PROVE [task[t] EXCEPT !.pc = pc] \in [pc : Task, result : Result]
    BY <2>1
  <2>3. ASSUME NEW r \in Result
        PROVE  [pc |-> "clear busy", result |-> r] \in [pc : Task, result : Result]
    BY <2>1
  <2> QED
    BY <2>1, <2>2, <2>3 DEF ProcessTypeOK, Goto, Report
<1> USE <1>1 DEF ProcessTypeOK, Task, Result, history
<1>2. CASE TaskLoad(t)
  BY <1>2 DEF TaskLoad
<1>3. CASE TaskFinishes(t)
  BY <1>3 DEF TaskFinishes
<1>4. CASE TaskFails(t)
  BY <1>4 DEF TaskFails
<1>5. CASE TaskCancelled(t)
  BY <1>5 DEF TaskCancelled
<1>6. CASE TaskCommit(t)
  BY <1>6 DEF TaskCommit
<1>7. CASE TaskTerminate(t)
  BY <1>7 DEF TaskTerminate
<1>8. CASE TaskTerminateError(t)
  BY <1>8 DEF TaskTerminateError
<1>9. CASE TaskClearBusy(t)
  BY <1>9 DEF TaskClearBusy
<1>10. CASE TaskClearControls(t)
  BY <1>10 DEF TaskClearControls
<1>11. CASE TaskTell(t)
  BY <1>11 DEF TaskTell, NoTask
<1> QED
  BY <1>2, <1>3, <1>4, <1>5, <1>6, <1>7, <1>8, <1>9, <1>10, <1>11 DEF TaskNext

LEMMA NextTypeOK ==
  ASSUME Inv, [Next]_vars, StoreInv', RowsKept
  PROVE  TypeOK'
<1>1. ProcessTypeOK /\ SubmitOK
  BY DEF Inv, TypeOK, ProcessTypeOK
<1>2. ProcessTypeOK'
  <2> USE DEF ProcessTypeOK
  <2>1. ASSUME NEW s \in Session, Interrupt(s) \/ OtherWriter(s) PROVE ProcessTypeOK'
    BY <1>1, <2>1 DEF Interrupt, OtherWriter, memory, history, Held
  <2>2. ASSUME NEW e \in Event, DeadlinePasses(e) \/ \E s \in Session : ChildCompletes(e, s)
        PROVE  ProcessTypeOK'
    BY <1>1, <2>2 DEF DeadlinePasses, ChildCompletes, memory, history, Submit
  <2>3. CASE CloseInput
    BY <1>1, <2>3 DEF CloseInput, history, Held
  <2>4. CASE Exit \/ Restart
    BY <1>1, <2>4 DEF Exit, Restart, history
  <2>5. CASE Crash
    <3>1. Idle \in Submit /\ NoTask \in [pc : Task, result : Result]
      BY DEF Idle, Submit, NoTask, Task, Result
    <3>2. crashes' \in Nat
      BY <1>1, <2>5 DEF Crash
    <3>3. /\ up' \in BOOLEAN /\ closing' \in BOOLEAN
          /\ submit' = Idle /\ task' = [t \in Turn |-> NoTask]
          /\ busy' = {} /\ controls' = [s \in Session |-> Null]
          /\ minted' = minted /\ asked' = asked /\ told' = told
      BY <2>5 DEF Crash
    <3> QED
      BY <1>1, <3>1, <3>2, <3>3
  <2>6. CASE UNCHANGED vars
    BY <1>1, <2>6 DEF vars, memory, history
  <2> QED
    BY <1>1, SubmitTypes, TaskTypes, <2>1, <2>2, <2>3, <2>4, <2>5, <2>6 DEF Next, Inv
<1>3. \A s \in Session : \A t \in Held(s)' : turn'[t].session = s
  <2>1. \A s \in Session : \A t \in Held(s) : turn'[t].session = s
    BY <1>1, ForegroundNullAssumption
    DEF Inv, StoreInv, AttemptsOK, AttemptShape, NoTurn, RowsKept, TypeOK, ProcessTypeOK, Held,
        SessionOf
  <2>2. CASE SubmitControl
    BY <1>1, <2>1, <2>2 DEF SubmitControl, SubmitOK, ProcessTypeOK, Held, SessionOf, storeVars
  <2>3. CASE ~SubmitControl
    <3>1. \A s \in Session : Held(s)' \subseteq Held(s)
      <4>1. \A s \in Session : controls'[s] \in {controls[s], Null}
        <5> USE <1>1 DEF ProcessTypeOK
        <5>1. CASE SubmitNext
          BY <2>3, <5>1
          DEF SubmitNext, SubmitBegin, SubmitLoad, SubmitList, SubmitClaim, SubmitRelease,
              SubmitPrompt, SubmitStart, SubmitFails, SubmitRefuse, SubmitSpawn, SubmitReplyFails
        <5>2. ASSUME NEW t \in Turn, TaskNext(t)
              PROVE  \A s \in Session : controls'[s] \in {controls[s], Null}
          BY <5>2
          DEF TaskNext, TaskLoad, TaskFinishes, TaskFails, TaskCancelled, TaskCommit, TaskTerminate,
              TaskTerminateError, TaskClearBusy, TaskClearControls, TaskTell
        <5>3. CASE UNCHANGED vars
          BY <5>3 DEF vars, memory
        <5> QED
          BY <5>1, <5>2, <5>3
          DEF Next, Interrupt, OtherWriter, DeadlinePasses, ChildCompletes, CloseInput, Exit, Crash,
              Restart, memory
      <4> QED
        BY <4>1 DEF Held
    <3> QED
      BY <2>1, <3>1
  <2> QED
    BY <2>2, <2>3
<1> QED
  BY <1>2, <1>3 DEF TypeOK, ProcessTypeOK, SessionOf, StoreInv

LEMMA NextSubmitOK ==
  ASSUME Inv, [Next]_vars, ProcessTypeOK, RowsKept
  PROVE  SubmitOK'
<1> DEFINE s == submit.session
           t == submit.turn
<1>1. /\ submit \in Submit
      /\ submit.pc # "idle" => s \in Session /\ t \in Turn
      /\ submit.pc \in {"control", "spawn"} => turn[t].state # "absent" /\ turn[t].session = s
  BY DEF Inv, SubmitOK, SessionOf, ProcessTypeOK
<1>2. CASE submit' = Idle
  BY <1>2 DEF SubmitOK, Idle
<1>3. CASE /\ submit.pc # "idle"
           /\ submit'.session = s /\ submit'.turn = t
           /\ submit'.pc \in {"control", "spawn"} => submit.pc \in {"control", "spawn"}
           /\ submit'.pc # "idle"
  BY <1>1, <1>3 DEF SubmitOK, RowsKept, SessionOf
<1>4. CASE submit' = submit
  BY <1>1, <1>2, <1>3, <1>4 DEF Inv, SubmitOK
<1>5. CASE SubmitNext
  <2> USE <1>1 DEF Submit
  <2>1. ASSUME NEW z \in Session, NEW u \in Turn, SubmitBegin(z, u) PROVE SubmitOK'
    BY <2>1 DEF SubmitBegin, Idle, SubmitOK
  <2>2. CASE SubmitStart
    <3>1. CASE submit'.pc = "release"
      BY <1>3, <2>2, <3>1 DEF SubmitStart
    <3>2. CASE submit'.pc # "release"
      <4>1. submit' = [submit EXCEPT !.pc = "control"] /\ StartTurn(t, s, submit.gen, submit.claimed, submit.newer)
        BY <2>2, <3>2 DEF SubmitStart
      <4>2. turn \in [Turn -> TurnRow] /\ t \in Turn /\ s \in Session
        BY <2>2 DEF SubmitStart, Inv, StoreInv, StoreTypeOK
      <4>3. turn'[t].state = "running" /\ turn'[t].session = s
        BY <4>1, <4>2 DEF StartTurn
      <4> QED
        BY <4>1, <4>2, <4>3 DEF SubmitOK, SessionOf
    <3> QED
      BY <3>1, <3>2
  <2>3. CASE SubmitLoad \/ SubmitList \/ SubmitPrompt \/ SubmitFails
    BY <1>3, <2>3 DEF SubmitLoad, SubmitList, SubmitPrompt, SubmitFails
  <2>4. ASSUME NEW e \in Event, SubmitClaim(e) \/ SubmitRelease(e) PROVE SubmitOK'
    BY <1>3, <2>4 DEF SubmitClaim, SubmitRelease
  <2>5. CASE SubmitControl
    BY <1>3, <2>5 DEF SubmitControl
  <2> QED
    BY <1>2, <1>5, <2>1, <2>2, <2>3, <2>4, <2>5
    DEF SubmitNext, SubmitRefuse, SubmitSpawn, SubmitReplyFails
<1>6. ASSUME NEW e \in Event, NEW z \in Session, ChildCompletes(e, z) PROVE SubmitOK'
  <2>1. CASE UNCHANGED submit
    BY <1>4, <2>1
  <2>2. CASE submit.pc # "idle" /\ submit' = [submit EXCEPT !.newer = @ \cup {e}]
    BY <1>1, <1>3, <2>2 DEF Submit
  <2> QED
    BY <1>6, <2>1, <2>2 DEF ChildCompletes
<1>7. ASSUME NEW u \in Turn, TaskNext(u) PROVE submit' = submit
  BY <1>7
  DEF TaskNext, TaskLoad, TaskFinishes, TaskFails, TaskCancelled, TaskCommit, TaskTerminate,
      TaskTerminateError, TaskClearBusy, TaskClearControls, TaskTell
<1> QED
  BY <1>2, <1>4, <1>5, <1>6, <1>7
  DEF Next, Interrupt, OtherWriter, DeadlinePasses, CloseInput, Exit, Crash, Restart, memory, vars

LEMMA NextTasksOK ==
  ASSUME Inv, [Next]_vars, ProcessTypeOK, RowsKept
  PROVE  TasksOK'
<1>1. /\ task \in [Turn -> [pc : Task, result : Result]]
      /\ turn \in [Turn -> TurnRow]
      /\ \A t \in Turn : TaskOK(t)
  BY DEF Inv, TasksOK, ProcessTypeOK, StoreInv, StoreTypeOK
<1>2. ASSUME NEW t \in Turn, task'[t] = task[t] \/ task'[t] = NoTask PROVE TaskOK(t)'
  <2>1. CASE task'[t] = NoTask
    BY <2>1 DEF TaskOK, NoTask, At, ResultOf, Ended, TurnTerminal
  <2>2. CASE task'[t] = task[t]
    <3>1. "absent" \notin TurnTerminal
      BY DEF TurnTerminal
    <3>2. TaskOK(t)
      BY <1>1
    <3> QED
      BY <2>2, <3>1, <3>2 DEF TaskOK, RowsKept, At, ResultOf
  <2> QED
    BY <1>2, <2>1, <2>2
<1>3. ASSUME task' = task \/ task' = [t \in Turn |-> NoTask] PROVE TasksOK'
  BY <1>2, <1>3 DEF TasksOK
<1>4. CASE SubmitSpawn
  <2>1. PICK u \in Turn : u = submit.turn
    BY <1>4 DEF SubmitSpawn, Inv, SubmitOK
  <2>2. turn[u].state # "absent" /\ task' = [task EXCEPT ![u] = [NoTask EXCEPT !.pc = "load"]]
    BY <1>4, <2>1 DEF SubmitSpawn, Inv, SubmitOK
  <2>3. TaskOK(u)'
    <3>1. task'[u] = [pc |-> "load", result |-> "none"]
      BY <1>1, <2>2 DEF NoTask
    <3>2. turn'[u].state # "absent"
      BY <2>2 DEF RowsKept
    <3> QED
      BY <3>1, <3>2 DEF TaskOK, At, ResultOf, Ended, TurnTerminal
  <2>4. ASSUME NEW t \in Turn, t # u PROVE TaskOK(t)'
    BY <1>1, <1>2, <2>2, <2>4
  <2> QED
    BY <2>3, <2>4 DEF TasksOK
<1>5. ASSUME NEW t \in Turn, TaskNext(t) PROVE TasksOK'
  <2>1. \A u \in Turn \ {t} : task'[u] = task[u]
    BY <1>1, <1>5
    DEF TaskNext, TaskLoad, TaskFinishes, TaskFails, TaskCancelled, TaskCommit, TaskTerminate,
        TaskTerminateError, TaskClearBusy, TaskClearControls, TaskTell, Goto, Report
  <2>2. \A u \in Turn \ {t} : TaskOK(u)'
    BY <1>2, <2>1
  <2>3. ASSUME NEW pc \in Task, Goto(t, pc), ~At(t, "none"), pc \in Ended => task[t].pc \in Ended
        PROVE  TaskOK(t)'
    <3>1. task'[t].pc = pc /\ task'[t].result = task[t].result
      BY <1>1, <2>3 DEF Goto
    <3> QED
      BY <1>1, <2>3, <3>1 DEF TaskOK, RowsKept, At, ResultOf
  <2>4. ASSUME NEW r \in Result \ {"none"}, Report(t, r), ~At(t, "none"),
               r \in TurnTerminal => turn'[t].state = r
        PROVE  TaskOK(t)'
    <3>1. task'[t].pc = "clear busy" /\ task'[t].result = r
      BY <1>1, <2>4 DEF Report
    <3> QED
      BY <1>1, <2>4, <3>1 DEF TaskOK, RowsKept, At, ResultOf
  <2>5. TaskOK(t)'
    <3> USE DEF At, Task, Ended, Result
    <3>1. CASE TaskLoad(t)
      BY <2>3, <3>1 DEF TaskLoad
    <3>2. CASE TaskFinishes(t)
      BY <2>3, <3>2 DEF TaskFinishes
    <3>3. CASE TaskFails(t)
      BY <2>3, <3>3 DEF TaskFails
    <3>4. CASE TaskCancelled(t)
      BY <2>3, <3>4 DEF TaskCancelled
    <3>5. CASE TaskCommit(t)
      <4>1. CompleteTurn(t, turn[t].gen) => turn'[t].state = "completed"
        BY <1>1 DEF CompleteTurn, TurnRow
      <4> QED
        BY <2>3, <2>4, <3>5, <4>1 DEF TaskCommit
    <3>6. CASE TaskTerminate(t)
      <4>1. TerminateTurn(t, turn[t].gen, task[t].pc) => turn'[t].state = task[t].pc
        BY <1>1 DEF TerminateTurn, TurnRow
      <4> QED
        BY <2>4, <3>6, <4>1 DEF TaskTerminate, TurnTerminal
    <3>7. CASE TaskTerminateError(t)
      BY <2>4, <3>7 DEF TaskTerminateError, TurnTerminal
    <3>8. CASE TaskClearBusy(t)
      BY <2>3, <3>8 DEF TaskClearBusy
    <3>9. CASE TaskClearControls(t)
      BY <2>3, <3>9 DEF TaskClearControls
    <3>10. CASE TaskTell(t)
      BY <1>1, <1>2, <3>10 DEF TaskTell
    <3> QED
      BY <1>5, <3>1, <3>2, <3>3, <3>4, <3>5, <3>6, <3>7, <3>8, <3>9, <3>10 DEF TaskNext
  <2> QED
    BY <2>2, <2>5 DEF TasksOK
<1> QED
  BY <1>3, <1>4, <1>5
  DEF Next, SubmitNext, SubmitBegin, SubmitLoad, SubmitList, SubmitClaim, SubmitRelease,
      SubmitPrompt, SubmitStart, SubmitFails, SubmitRefuse, SubmitControl, SubmitReplyFails,
      Interrupt, OtherWriter, DeadlinePasses, ChildCompletes, CloseInput, Exit, Crash, Restart,
      memory, vars

LEMMA NextReported ==
  ASSUME Inv, [Next]_vars, ProcessTypeOK, RowsKept
  PROVE  ReportedIsDurable'
<1>1. /\ told \in [Turn -> Result]
      /\ \A t \in Turn : told[t] \in TurnTerminal => turn[t].state = told[t]
      /\ \A t \in Turn : TaskOK(t)
  BY DEF Inv, TasksOK, ReportedIsDurable, ProcessTypeOK
<1>2. CASE told' = told
  BY <1>1, <1>2 DEF ReportedIsDurable, RowsKept, TurnTerminal
<1>3. ASSUME NEW t \in Turn, TaskTell(t) PROVE ReportedIsDurable'
  <2>1. told' = [told EXCEPT ![t] = ResultOf(t)]
    BY <1>3 DEF TaskTell, ResultOf
  <2> QED
    BY <1>1, <2>1 DEF ReportedIsDurable, RowsKept, TurnTerminal, TaskOK
<1> QED
  BY <1>2, <1>3
  DEF Next, SubmitNext, SubmitBegin, SubmitLoad, SubmitList, SubmitClaim, SubmitRelease,
      SubmitPrompt, SubmitStart, SubmitFails, SubmitRefuse, SubmitControl, SubmitSpawn,
      SubmitReplyFails, TaskNext, TaskLoad, TaskFinishes, TaskFails, TaskCancelled, TaskCommit,
      TaskTerminate, TaskTerminateError, TaskClearBusy, TaskClearControls,
      Interrupt, OtherWriter, DeadlinePasses, ChildCompletes, CloseInput, Exit, Crash, Restart,
      memory, history, vars

-----------------------------------------------------------------------------
(* Who works on a session.                                                 *)

\* A task that serves has a row, and so keeps its session.
LEMMA ServingKeepsSession ==
  ASSUME Inv, RowsKept, NEW t \in Turn, Serving(t)
  PROVE  SessionOf(t)' = SessionOf(t)
BY DEF Inv, TasksOK, TaskOK, At, Serving, RowsKept, SessionOf

LEMMA QuietServed ==
  ASSUME Inv, RowsKept, \A t \in Turn : Serving(t)' <=> Serving(t), busy' = busy,
         submit'.session = submit.session, submit'.pc = "idle" <=> submit.pc = "idle"
  PROVE  OneWorker' /\ BusyIsServed'
<1>1. \A t \in Turn : Serving(t) => SessionOf(t)' = SessionOf(t)
  BY ServingKeepsSession
<1>2. OneWorker /\ BusyIsServed
  BY DEF Inv
<1>3. OneWorker'
  BY <1>1, <1>2 DEF OneWorker
<1>4. BusyIsServed'
  BY <1>1, <1>2 DEF BusyIsServed
<1> QED
  BY <1>3, <1>4

LEMMA ClearedServed ==
  ASSUME task' = [t \in Turn |-> NoTask], submit' = Idle, busy' = {}
  PROVE  OneWorker' /\ BusyIsServed'
<1>1. \A t \in Turn : ~Serving(t)'
  BY DEF Serving, NoTask
<1> QED
  BY <1>1 DEF OneWorker, BusyIsServed, Idle

LEMMA SubmitServed ==
  ASSUME Inv, RowsKept, SubmitNext
  PROVE  OneWorker' /\ BusyIsServed'
<1>1. /\ OneWorker /\ BusyIsServed /\ SubmitOK
      /\ submit \in Submit
      /\ task \in [Turn -> [pc : Task, result : Result]]
      /\ busy \subseteq Session
  BY DEF Inv, TypeOK
<1>2. \A t \in Turn : Serving(t) => SessionOf(t)' = SessionOf(t)
  BY ServingKeepsSession
<1>3. ASSUME NEW s \in Session, NEW t \in Turn, SubmitBegin(s, t)
      PROVE  OneWorker' /\ BusyIsServed'
  <2>1. /\ submit'.session = s /\ submit'.pc = "load"
        /\ busy' = busy \cup {s} /\ s \notin busy
        /\ submit = Idle
    BY <1>1, <1>3 DEF SubmitBegin, Listening, Idle, SubmitOK
  <2>2. \A u \in Turn : Serving(u)' <=> Serving(u)
    BY <1>3 DEF SubmitBegin, Serving
  <2>3. OneWorker'
    BY <1>1, <1>2, <2>1, <2>2 DEF OneWorker, BusyIsServed
  <2>4. \A z \in busy : z # submit.session
    BY <1>1, <2>1, ForegroundNullAssumption DEF Idle
  <2>5. BusyIsServed'
    BY <1>1, <1>2, <2>1, <2>2, <2>4 DEF BusyIsServed
  <2> QED
    BY <2>3, <2>5
<1>4. CASE SubmitSpawn
  <2>1. PICK t \in Turn : t = submit.turn
    BY <1>1, <1>4 DEF SubmitSpawn, SubmitOK
  <2>2. /\ submit' = Idle /\ busy' = busy /\ turn' = turn
        /\ task' = [task EXCEPT ![t] = [NoTask EXCEPT !.pc = "load"]]
        /\ SessionOf(t) = submit.session /\ submit.pc # "idle"
    BY <1>1, <1>4, <2>1 DEF SubmitSpawn, SubmitOK, storeVars
  <2>3. Serving(t)' /\ \A u \in Turn \ {t} : Serving(u)' <=> Serving(u)
    BY <1>1, <2>2 DEF Serving, NoTask, Task
  <2>4. \A u \in Turn : SessionOf(u)' = SessionOf(u)
    BY <2>2 DEF SessionOf
  <2>5. OneWorker'
    BY <1>1, <2>2, <2>3, <2>4 DEF OneWorker, Idle
  <2>6. BusyIsServed'
    BY <1>1, <2>2, <2>3, <2>4 DEF BusyIsServed, Idle
  <2> QED
    BY <2>5, <2>6
<1>5. CASE SubmitRefuse
  <2>1. /\ submit' = Idle /\ busy' = busy \ {submit.session} /\ submit.pc # "idle"
    BY <1>5 DEF SubmitRefuse
  <2>2. \A u \in Turn : Serving(u)' <=> Serving(u)
    BY <1>5 DEF SubmitRefuse, Serving
  <2>3. OneWorker'
    BY <1>1, <1>2, <2>1, <2>2 DEF OneWorker, Idle
  <2>4. BusyIsServed'
    BY <1>1, <1>2, <2>1, <2>2 DEF OneWorker, BusyIsServed, Idle
  <2> QED
    BY <2>3, <2>4
<1>6. CASE SubmitReplyFails
  BY <1>6, ClearedServed DEF SubmitReplyFails
<1>7. ASSUME UNCHANGED <<task, busy>>, submit'.session = submit.session,
             submit.pc # "idle", submit'.pc # "idle"
      PROVE  OneWorker' /\ BusyIsServed'
  <2>1. \A u \in Turn : Serving(u)' <=> Serving(u)
    BY <1>7 DEF Serving
  <2> QED
    BY <1>7, <2>1, QuietServed
<1> USE <1>1 DEF Submit
<1>8. CASE SubmitLoad \/ SubmitList
  BY <1>7, <1>8 DEF SubmitLoad, SubmitList
<1>9. ASSUME NEW e \in Event, SubmitClaim(e) \/ SubmitRelease(e)
      PROVE  OneWorker' /\ BusyIsServed'
  BY <1>7, <1>9 DEF SubmitClaim, SubmitRelease
<1>10. CASE SubmitPrompt \/ SubmitFails \/ SubmitControl
  BY <1>7, <1>10 DEF SubmitPrompt, SubmitFails, SubmitControl
<1>11. CASE SubmitStart
  BY <1>7, <1>11 DEF SubmitStart
<1> QED
  BY <1>3, <1>4, <1>5, <1>6, <1>8, <1>9, <1>10, <1>11 DEF SubmitNext

\* The mark that goes is the one the task stood for, and no other worker needs it.
LEMMA ClearBusyServed ==
  ASSUME Inv, RowsKept, NEW t \in Turn, TaskClearBusy(t)
  PROVE  OneWorker' /\ BusyIsServed'
<1>1. /\ OneWorker /\ BusyIsServed
      /\ task \in [Turn -> [pc : Task, result : Result]]
  BY DEF Inv, TypeOK
<1>2. /\ busy' = busy \ {SessionOf(t)} /\ submit' = submit
      /\ task[t].pc = "clear busy" /\ task'[t].pc = "clear controls"
      /\ \A u \in Turn \ {t} : task'[u] = task[u]
  BY <1>1 DEF TaskClearBusy, Goto, At
<1>3. /\ Serving(t) /\ ~Serving(t)'
      /\ \A u \in Turn \ {t} : Serving(u)' <=> Serving(u)
  BY <1>2 DEF Serving, Task
<1>4. \A u \in Turn : Serving(u) => SessionOf(u)' = SessionOf(u)
  BY ServingKeepsSession
<1>5. OneWorker'
  BY <1>1, <1>2, <1>3, <1>4 DEF OneWorker
<1>6. submit'.pc # "idle" => submit'.session \in busy'
  BY <1>1, <1>2, <1>3 DEF OneWorker, BusyIsServed
<1>7. ASSUME NEW u \in Turn, Serving(u)' PROVE SessionOf(u)' \in busy'
  <2>1. u # t /\ Serving(u)
    BY <1>3, <1>7
  <2>2. SessionOf(u)' = SessionOf(u) /\ SessionOf(u) \in busy /\ SessionOf(u) # SessionOf(t)
    BY <1>1, <1>3, <1>4, <2>1 DEF OneWorker, BusyIsServed
  <2> QED
    BY <1>2, <2>2
<1>8. ASSUME NEW s \in busy'
      PROVE  submit'.session = s \/ \E u \in Turn : SessionOf(u)' = s /\ Serving(u)'
  BY <1>1, <1>2, <1>3, <1>4 DEF BusyIsServed
<1> QED
  BY <1>5, <1>6, <1>7, <1>8 DEF BusyIsServed

LEMMA TaskServed ==
  ASSUME Inv, RowsKept, NEW t \in Turn, TaskNext(t)
  PROVE  OneWorker' /\ BusyIsServed'
<1>1. /\ OneWorker /\ BusyIsServed
      /\ task \in [Turn -> [pc : Task, result : Result]]
      /\ submit' = submit
  BY DEF Inv, TypeOK, TaskNext, TaskLoad, TaskFinishes, TaskFails, TaskCancelled, TaskCommit,
         TaskTerminate, TaskTerminateError, TaskClearBusy, TaskClearControls, TaskTell
<1>2. ASSUME NEW pc \in Task, task'[t].pc = pc, busy' = busy,
             \A u \in Turn \ {t} : task'[u] = task[u],
             Serving(t) <=> pc \notin {"none", "clear controls", "tell"}
      PROVE  OneWorker' /\ BusyIsServed'
  <2>1. \A u \in Turn : Serving(u)' <=> Serving(u)
    BY <1>2 DEF Serving
  <2> QED
    BY <1>1, <1>2, <2>1, QuietServed
<1>0. /\ \A r : Report(t, r) =>
           task'[t].pc = "clear busy" /\ \A u \in Turn \ {t} : task'[u] = task[u]
      /\ \A pc : Goto(t, pc) => task'[t].pc = pc /\ \A u \in Turn \ {t} : task'[u] = task[u]
  <2>1. ASSUME NEW r, Report(t, r)
        PROVE  task'[t].pc = "clear busy" /\ \A u \in Turn \ {t} : task'[u] = task[u]
    BY <1>1, <2>1 DEF Report
  <2>2. ASSUME NEW pc, Goto(t, pc)
        PROVE  task'[t].pc = pc /\ \A u \in Turn \ {t} : task'[u] = task[u]
    BY <1>1, <2>2 DEF Goto
  <2> QED
    BY <2>1, <2>2
<1> USE <1>0, <1>1, <1>2 DEF Serving, At, Task
<1>3. CASE TaskClearBusy(t)
  BY <1>3, ClearBusyServed
<1>4. CASE TaskLoad(t)
  BY <1>4 DEF TaskLoad
<1>5. CASE TaskFinishes(t)
  BY <1>5 DEF TaskFinishes
<1>6. CASE TaskFails(t)
  BY <1>6 DEF TaskFails
<1>7. CASE TaskCancelled(t)
  BY <1>7 DEF TaskCancelled
<1>8. CASE TaskCommit(t)
  <2>1. task[t].pc = "commit" /\ busy' = busy /\ task'[t].pc \in {"clear busy", "failed"}
        /\ \A u \in Turn \ {t} : task'[u] = task[u]
    BY <1>8 DEF TaskCommit
  <2> QED
    BY <2>1
<1>9. CASE TaskTerminate(t)
  <2>1. task[t].pc \in {"interrupted", "failed"} /\ busy' = busy /\ task'[t].pc = "clear busy"
        /\ \A u \in Turn \ {t} : task'[u] = task[u]
    BY <1>9 DEF TaskTerminate
  <2> QED
    BY <2>1
<1>10. CASE TaskTerminateError(t)
  BY <1>10 DEF TaskTerminateError
<1>11. CASE TaskClearControls(t)
  BY <1>11 DEF TaskClearControls
<1>12. CASE TaskTell(t)
  BY <1>12 DEF TaskTell, NoTask
<1> QED
  BY <1>3, <1>4, <1>5, <1>6, <1>7, <1>8, <1>9, <1>10, <1>11, <1>12 DEF TaskNext

LEMMA NextServed ==
  ASSUME Inv, [Next]_vars, RowsKept
  PROVE  OneWorker' /\ BusyIsServed'
<1>1. ASSUME task' = task, busy' = busy, submit'.session = submit.session,
             submit'.pc = "idle" <=> submit.pc = "idle"
      PROVE  OneWorker' /\ BusyIsServed'
  <2>1. \A u \in Turn : Serving(u)' <=> Serving(u)
    BY <1>1 DEF Serving
  <2> QED
    BY <1>1, <2>1, QuietServed
<1>2. ASSUME UNCHANGED <<task, busy, submit>> PROVE OneWorker' /\ BusyIsServed'
  BY <1>1, <1>2
<1>3. ASSUME NEW e \in Event, NEW s \in Session, ChildCompletes(e, s)
      PROVE  OneWorker' /\ BusyIsServed'
  BY <1>1, <1>2, <1>3 DEF ChildCompletes, Inv, TypeOK, Submit
<1>4. CASE Crash
  BY <1>4, ClearedServed DEF Crash
<1> QED
  BY <1>2, <1>3, <1>4, SubmitServed, TaskServed
  DEF Next, Interrupt, OtherWriter, DeadlinePasses, CloseInput, Exit, Restart, memory, vars

-----------------------------------------------------------------------------
(* Running attempts.                                                       *)

Accounted(t) ==
  \/ Serving(t)
  \/ submit.pc \in {"control", "spawn"} /\ submit.turn = t
  \/ Lost(t)

\* Only the start of an attempt makes one run.
LEMMA RunningComesFrom ==
  ASSUME Inv, [Next]_vars, RowsKept, NEW t \in Turn, turn'[t].state = "running"
  PROVE  \/ turn[t].state = "running"
         \/ submit.turn = t /\ submit'.turn = t /\ submit'.pc = "control"
<1>1. /\ turn \in [Turn -> TurnRow] /\ submit \in Submit /\ SubmitOK
      /\ \A u \in Turn : TaskOK(u)
  BY DEF Inv, StoreInv, StoreTypeOK, TypeOK, TasksOK
<1>2. SUFFICES ASSUME turn[t].state = "absent"
               PROVE  submit.turn = t /\ submit'.turn = t /\ submit'.pc = "control"
  BY DEF RowsKept
<1>3. turn' # turn
  BY <1>2
<1>4. CASE SubmitStart
  <2>1. /\ submit.turn \in Turn /\ submit' = [submit EXCEPT !.pc = "control"]
        /\ turn' = [turn EXCEPT ![submit.turn] =
             [state |-> "running", session |-> submit.session, gen |-> submit.gen,
              carries |-> submit.claimed]]
    BY <1>1, <1>3, <1>4 DEF SubmitStart, SubmitOK, StartTurn, storeVars
  <2> QED
    BY <1>1, <1>2, <2>1 DEF Submit
<1>5. CASE SubmitReplyFails
  <2>1. submit.turn \in Turn /\ turn[submit.turn].state # "absent"
    BY <1>1, <1>5 DEF SubmitReplyFails, SubmitOK
  <2>2. turn' = [turn EXCEPT ![submit.turn].state = "failed"]
    BY <1>3, <1>5 DEF SubmitReplyFails, TerminateTurn, storeVars
  <2> QED
    BY <1>1, <1>2, <2>1, <2>2
<1>6. ASSUME NEW u \in Turn, TaskCommit(u) \/ TaskTerminate(u) PROVE FALSE
  <2>1. turn[u].state # "absent"
    BY <1>1, <1>6 DEF TaskCommit, TaskTerminate, TaskOK, At
  <2>2. turn' = [turn EXCEPT ![u].state = "completed"] \/ turn' = [turn EXCEPT ![u].state = task[u].pc]
    BY <1>3, <1>6 DEF TaskCommit, TaskTerminate, CompleteTurn, TerminateTurn, storeVars
  <2> QED
    BY <1>1, <1>2, <2>1, <2>2
<1>7. CASE Restart
  BY <1>1, <1>2, <1>7 DEF Restart, ReconcileTurns, RunningTurns
<1> QED
  BY <1>3, <1>4, <1>5, <1>6, <1>7
  DEF Next, SubmitNext, SubmitBegin, SubmitLoad, SubmitList, SubmitClaim, SubmitRelease,
      SubmitPrompt, SubmitFails, SubmitRefuse, SubmitControl, SubmitSpawn, TaskNext, TaskLoad,
      TaskFinishes, TaskFails, TaskCancelled, TaskTerminateError, TaskClearBusy, TaskClearControls,
      TaskTell, Interrupt, OtherWriter, DeadlinePasses, ChildCompletes, CloseInput, Exit, Crash,
      ClaimEvent, ReleaseEvent, AppendElsewhere, ExpireClaim, Publish, storeVars, vars

LEMMA NextAccounted ==
  ASSUME Inv, [Next]_vars, TasksOK', ProcessTypeOK', NEW t \in Turn, Accounted(t), up',
         turn'[t].state = "running"
  PROVE  Accounted(t)'
<1>1. /\ submit \in Submit /\ SubmitOK /\ TaskOK(t) /\ TaskOK(t)'
      /\ task \in [Turn -> [pc : Task, result : Result]]
      /\ task' \in [Turn -> [pc : Task, result : Result]]
      /\ told \in [Turn -> Result]
  BY DEF Inv, TypeOK, TasksOK, ProcessTypeOK
\* A task at or after its clean-up without a terminal has lost its outcome.
<1>2. task'[t].pc \in Ended => "not persisted" = task'[t].result
  BY <1>1 DEF TaskOK, ResultOf, Result, TurnTerminal
<1>3. CASE task'[t].pc \in Task \ {"none"}
  BY <1>2, <1>3 DEF Accounted, Serving, Lost, Ended
<1>4. CASE task'[t] = task[t] /\ told' = told /\ submit'.turn = submit.turn
           /\ (submit.pc \in {"control", "spawn"} => submit'.pc \in {"control", "spawn"})
  BY <1>4 DEF Accounted, Serving, Lost
<1>5. CASE UNCHANGED <<task, told, submit>>
  BY <1>4, <1>5
<1>6. CASE SubmitNext
  <2>1. CASE SubmitSpawn
    <3>1. CASE submit.turn = t
      BY <1>1, <1>3, <2>1, <3>1 DEF SubmitSpawn, NoTask, Task
    <3>2. CASE submit.turn # t
      BY <1>1, <2>1, <3>2 DEF SubmitSpawn, SubmitOK, Accounted, Serving, Lost, history
    <3> QED
      BY <3>1, <3>2
  <2>2. ASSUME NEW s \in Session, NEW u \in Turn, SubmitBegin(s, u) PROVE Accounted(t)'
    BY <2>2 DEF SubmitBegin, Listening, Accounted, Serving, Lost
  <2>3. CASE SubmitRefuse
    BY <2>3 DEF SubmitRefuse, Accounted, Serving, Lost, history
  <2>4. CASE SubmitReplyFails
    BY <2>4 DEF SubmitReplyFails
  <2> USE <1>1, <1>4 DEF Submit, history
  <2>5. CASE SubmitLoad \/ SubmitList \/ SubmitPrompt
    BY <2>5 DEF SubmitLoad, SubmitList, SubmitPrompt
  <2>6. CASE SubmitFails \/ SubmitControl
    BY <2>6 DEF SubmitFails, SubmitControl
  <2>7. ASSUME NEW e \in Event, SubmitClaim(e) \/ SubmitRelease(e) PROVE Accounted(t)'
    BY <2>7 DEF SubmitClaim, SubmitRelease
  <2>8. CASE SubmitStart
    BY <2>8 DEF SubmitStart
  <2> QED
    BY <1>6, <2>1, <2>2, <2>3, <2>4, <2>5, <2>6, <2>7, <2>8 DEF SubmitNext
<1>7. ASSUME NEW u \in Turn, TaskNext(u) PROVE Accounted(t)'
  <2>1. submit' = submit
    BY <1>7
    DEF TaskNext, TaskLoad, TaskFinishes, TaskFails, TaskCancelled, TaskCommit, TaskTerminate,
        TaskTerminateError, TaskClearBusy, TaskClearControls, TaskTell
  <2>2. CASE TaskTell(u)
    <3>1. CASE u = t
      <4>1. /\ turn'[t].state = turn[t].state /\ task[t].pc = "tell"
            /\ told'[t] = task[t].result
        BY <1>1, <2>2, <3>1 DEF TaskTell, At, storeVars
      <4>2. task[t].result = "not persisted"
        BY <1>1, <4>1 DEF TaskOK, ResultOf, Ended, Result, TurnTerminal
      <4> QED
        BY <4>1, <4>2 DEF Accounted, Lost
    <3>2. CASE u # t
      BY <1>1, <2>1, <2>2, <3>2 DEF TaskTell, Accounted, Serving, Lost
    <3> QED
      BY <3>1, <3>2
  <2>3. CASE ~TaskTell(u)
    <3>1. ASSUME NEW r, Report(u, r)
          PROVE  task'[u].pc = "clear busy" /\ \A v \in Turn \ {u} : task'[v] = task[v]
      BY <1>1, <3>1 DEF Report
    <3>2. ASSUME NEW pc, Goto(u, pc)
          PROVE  task'[u].pc = pc /\ \A v \in Turn \ {u} : task'[v] = task[v]
      BY <1>1, <3>2 DEF Goto
    <3>3. told' = told
      BY <1>7, <2>3
      DEF TaskNext, TaskLoad, TaskFinishes, TaskFails, TaskCancelled, TaskCommit, TaskTerminate,
          TaskTerminateError, TaskClearBusy, TaskClearControls, history
    <3>4. task'[u].pc # "none" /\ \A v \in Turn \ {u} : task'[v] = task[v]
      <4> USE <3>1, <3>2
      <4>1. CASE TaskLoad(u)
        BY <4>1 DEF TaskLoad
      <4>2. CASE TaskFinishes(u)
        BY <4>2 DEF TaskFinishes
      <4>3. CASE TaskFails(u)
        BY <4>3 DEF TaskFails
      <4>4. CASE TaskCancelled(u)
        <5>1. Goto(u, "interrupted")
          BY <4>4 DEF TaskCancelled
        <5> QED
          BY <5>1
      <4>5. CASE TaskCommit(u)
        BY <4>5 DEF TaskCommit
      <4>6. CASE TaskTerminate(u)
        BY <4>6 DEF TaskTerminate
      <4>7. CASE TaskTerminateError(u)
        BY <4>7 DEF TaskTerminateError
      <4>8. CASE TaskClearBusy(u)
        BY <4>8 DEF TaskClearBusy
      <4>9. CASE TaskClearControls(u)
        BY <4>9 DEF TaskClearControls
      <4> QED
        BY <1>7, <2>3, <4>1, <4>2, <4>3, <4>4, <4>5, <4>6, <4>7, <4>8, <4>9 DEF TaskNext
    <3> QED
      BY <1>1, <1>3, <1>4, <2>1, <3>3, <3>4
  <2> QED
    BY <2>2, <2>3
<1>8. ASSUME NEW e \in Event, NEW s \in Session, ChildCompletes(e, s) PROVE Accounted(t)'
  <2>1. CASE UNCHANGED submit
    BY <1>5, <1>8, <2>1 DEF ChildCompletes, history
  <2>2. CASE submit' = [submit EXCEPT !.newer = @ \cup {e}]
    BY <1>1, <1>4, <1>8, <2>2 DEF ChildCompletes, history, Submit
  <2> QED
    BY <1>8, <2>1, <2>2 DEF ChildCompletes
<1> QED
  BY <1>5, <1>6, <1>7, <1>8
  DEF Next, Interrupt, OtherWriter, DeadlinePasses, CloseInput, Exit, Crash, Restart,
      memory, history, vars

LEMMA NextRunning ==
  ASSUME Inv, [Next]_vars, RowsKept, TasksOK', ProcessTypeOK'
  PROVE  RunningIsServed'
<1> SUFFICES ASSUME up', NEW t \in Turn, turn'[t].state = "running"
             PROVE  Accounted(t)'
  BY DEF RunningIsServed, RunningTurns, Accounted
<1>1. CASE up /\ turn[t].state = "running"
  <2>1. Accounted(t)
    BY <1>1 DEF Inv, RunningIsServed, RunningTurns, Accounted
  <2> QED
    BY <2>1, NextAccounted
<1>2. CASE ~up
  <2>1. ~Restart => up' = up
    BY DEF Next, SubmitNext, SubmitBegin, SubmitLoad, SubmitList, SubmitClaim, SubmitRelease,
      SubmitPrompt, SubmitStart, SubmitFails, SubmitRefuse, SubmitControl, SubmitSpawn,
      SubmitReplyFails, TaskNext, TaskLoad, TaskFinishes, TaskFails, TaskCancelled, TaskCommit,
      TaskTerminate, TaskTerminateError, TaskClearBusy, TaskClearControls, TaskTell,
      Interrupt, OtherWriter, DeadlinePasses, ChildCompletes, CloseInput, Exit, Crash,
      memory, vars
  <2>2. Restart
    BY <1>2, <2>1
  <2>3. turn \in [Turn -> TurnRow]
    BY DEF Inv, StoreInv, StoreTypeOK
  <2> QED
    BY <2>2, <2>3 DEF Restart, ReconcileTurns, RunningTurns, TurnRow
<1>3. CASE turn[t].state # "running"
  BY <1>3, RunningComesFrom DEF Accounted
<1> QED
  BY <1>1, <1>2, <1>3

-----------------------------------------------------------------------------
LEMMA NextInv == Inv /\ [Next]_vars => Inv' /\ [StoreNext]_storeVars
<1> SUFFICES ASSUME Inv, [Next]_vars PROVE Inv' /\ [StoreNext]_storeVars
  OBVIOUS
<1>1. [StoreNext]_storeVars
  BY StepIsStoreStep DEF Inv
<1>2. StoreInv' /\ RowsKept
  BY <1>1, NextStoreInv, StoreKeepsRows DEF Inv
<1>3. TypeOK'
  BY <1>2, NextTypeOK
<1>4. ProcessTypeOK /\ ProcessTypeOK'
  BY <1>3 DEF Inv, TypeOK, ProcessTypeOK
<1>5. SubmitOK' /\ TasksOK' /\ ReportedIsDurable'
  BY <1>2, <1>4, NextSubmitOK, NextTasksOK, NextReported
<1>6. OneWorker' /\ BusyIsServed' /\ RunningIsServed'
  BY <1>2, <1>4, <1>5, NextServed, NextRunning
<1> QED
  BY <1>1, <1>2, <1>3, <1>5, <1>6 DEF Inv

LEMMA InvHolds == Spec => []Inv
  BY InitInv, NextInv, PTL DEF Spec

\* The process state keeps its types, and an interrupt sender is only ever
\* registered for an accepted attempt of its session (submit).
THEOREM GatewayTypeCorrect == Spec => []TypeOK
<1>1. Inv => TypeOK
  BY DEF Inv
<1> QED
  BY <1>1, InvHolds, PTL

\* Every step of the gateway is a step of the foreground store or leaves its
\* tables alone (submit, execute_turn, terminate_turn, run_gateway).
THEOREM GatewayUsesStore == Spec => ImplementsStore
<1>1. Init => StoreInit
  BY DEF Init
<1> QED
  BY <1>1, InitInv, NextInv, PTL DEF Spec, ImplementsStore, StoreSpec

\* What message.complete said of an attempt stays what the database says, over
\* any interleaving, conflict, crash and restart (submit's spawned task).
THEOREM ToldIsDurable == Spec => []ReportedIsDurable
<1>1. Inv => ReportedIsDurable
  BY DEF Inv
<1> QED
  BY <1>1, InvHolds, PTL

\* No session stays busy with nobody left to clear it, and no attempt runs in a
\* session that takes another prompt (submit, clear_busy).
THEOREM BusyIsExact == Spec => []BusyMatchesWork
<1>1. Inv => BusyMatchesWork
  <2> SUFFICES ASSUME Inv PROVE BusyMatchesWork
    OBVIOUS
  <2>1. ASSUME NEW s \in busy
        PROVE  submit.session = s \/ \E t \in Turn : SessionOf(t) = s /\ ~At(t, "none")
    BY DEF Inv, BusyIsServed, Serving, At
  <2>2. ASSUME up, NEW t \in RunningTurns
        PROVE  SessionOf(t) \in busy \/ "not persisted" \in {task[t].result, told[t]}
    <3>1. t \in Turn
      BY DEF RunningTurns
    <3>2. Serving(t) => SessionOf(t) \in busy
      BY <3>1 DEF Inv, BusyIsServed
    <3>3. submit.pc \in {"control", "spawn"} /\ submit.turn = t => SessionOf(t) \in busy
      BY DEF Inv, SubmitOK, BusyIsServed
    <3> QED
      BY <2>2, <3>2, <3>3 DEF Inv, RunningIsServed, Lost
  <2> QED
    BY <2>1, <2>2 DEF BusyMatchesWork
<1> QED
  BY <1>1, InvHolds, PTL

\* Everything shown of the store under arbitrary callers holds under the gateway.
THEOREM GatewayTranscript == Spec => [](TranscriptMatchesTurns /\ DeliveredInOnePrompt)
<1>1. Inv => TranscriptMatchesTurns /\ DeliveredInOnePrompt
  BY DEF Inv, StoreInv
<1> QED
  BY <1>1, InvHolds, PTL
=============================================================================

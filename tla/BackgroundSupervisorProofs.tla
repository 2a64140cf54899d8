----------------------- MODULE BackgroundSupervisorProofs -----------------------
(***************************************************************************)
(* Proofs about the background supervisor, for any number of delegations   *)
(* that share its loop and the gateway task, any lease, and any number of  *)
(* crashes.                                                                *)
(*                                                                         *)
(* The argument has two halves. Rows only advance: a row that left the     *)
(* queue never returns to it, and a promised cancellation is never broken, *)
(* whoever writes the row. And a job loads its delegation only between a   *)
(* claim, which takes the row off the queue, and its one start.            *)
(* What rows may do in a step is also all that DelegationLifecycle allows, *)
(* so the process implements it, and its child holds a turn exactly when   *)
(* the delegation completed.                                               *)
(***************************************************************************)
EXTENDS BackgroundSupervisor, TLAPS

Queued(r) == r.state \in {"absent", "pending"}

\* What a client is told when its cancellation is accepted.
Promised(r) == r.state = "cancelled" \/ (r.state = "running" /\ r.intent)

IntentOfRunning(r) == r.intent => r.state = "running"

IntentOK == \A d \in Delegation : IntentOfRunning(row[d])

\* The gateway task signals only what it found or wrote on record.
RequestOK ==
  /\ request.pc # "idle" => request.id \in Delegation
  /\ request.pc = "signal" => Promised(row[request.id])

\* Where a delegation is before its only start.
StartOK(d) ==
  /\ started[d] <= 1
  /\ Queued(row[d]) =>
       started[d] = 0 /\ d \notin loop.registering /\ job[d].pc = "none"
  /\ d \in loop.registering => started[d] = 0 /\ job[d].pc = "none"
  /\ job[d].pc = "load" => started[d] = 0

StartsOK == \A d \in Delegation : StartOK(d)

Inv ==
  /\ TypeOK
  /\ IntentOK
  /\ RequestOK
  /\ AgreedCancelHonoured
  /\ StartsOK

LEMMA InitInv == Init => Inv
<1> SUFFICES ASSUME Init PROVE Inv
  OBVIOUS
<1> USE LeaseAssumption, TriesAssumption DEF LeaseAssumption, TriesAssumption
<1>1. TypeOK
  BY DEF Init, TypeOK, NoRow, Row, Awake, Down, Loop, NoJob, Job, NoRequest, Request
<1>2. IntentOK /\ RequestOK /\ AgreedCancelHonoured
  BY DEF Init, IntentOK, IntentOfRunning, RequestOK, AgreedCancelHonoured, NoRow, NoRequest
<1>3. StartsOK
  BY DEF Init, StartsOK, StartOK, NoJob, Awake, Down
<1> QED
  BY <1>1, <1>2, <1>3 DEF Inv

-----------------------------------------------------------------------------
(* Types.                                                                  *)

(* A record with fields changed within their types is of its type.         *)

State == {"absent", "pending", "running"} \cup Terminal

LEMMA RowEdits ==
  ASSUME NEW r \in Row
  PROVE  /\ \A s \in State, g \in Nat : [r EXCEPT !.state = s, !.gen = g] \in Row
         /\ \A s \in State, g \in Nat, l \in 0 .. LeaseTicks :
              [r EXCEPT !.state = s, !.gen = g, !.left = l] \in Row
         /\ \A s \in State, g \in Nat, i \in BOOLEAN, l \in 0 .. LeaseTicks :
              [r EXCEPT !.state = s, !.gen = g, !.intent = i, !.left = l] \in Row
         /\ \A g \in Nat, l \in 0 .. LeaseTicks :
              [r EXCEPT !.gen = g, !.left = l] \in Row
         /\ \A i \in BOOLEAN : [r EXCEPT !.intent = i] \in Row
         /\ \A l \in 0 .. LeaseTicks : [r EXCEPT !.left = l] \in Row
BY DEF Row, State

JobPC == {"none", "load", "run", "decide", "commit", "reload", "cancel"}
JobExit == {"none", "ok", "error", "cancel"}

LEMMA JobEdits ==
  ASSUME NEW j \in Job
  PROVE  /\ \A p \in JobPC : [j EXCEPT !.pc = p] \in Job
         /\ \A p \in JobPC, g \in Nat : [j EXCEPT !.pc = p, !.gen = g] \in Job
         /\ \A p \in JobPC, e \in JobExit : [j EXCEPT !.exit = e, !.pc = p] \in Job
         /\ \A p \in JobPC, g \in Nat, e \in JobExit :
              [j EXCEPT !.gen = g, !.exit = e, !.pc = p] \in Job
         /\ \A p \in JobPC, g \in Nat, l \in BOOLEAN :
              [j EXCEPT !.pc = p, !.gen = g, !.late = l] \in Job
         /\ \A l \in BOOLEAN : [j EXCEPT !.late = l] \in Job
         /\ \A g \in Nat : [j EXCEPT !.gen = g] \in Job
BY DEF Job, JobPC, JobExit

RequestPC == {"idle", "load", "cancel", "signal"}

LEMMA RequestEdits ==
  ASSUME NEW r \in Request
  PROVE  /\ \A p \in RequestPC, d \in Delegation :
              [r EXCEPT !.pc = p, !.id = d] \in Request
         /\ \A g \in Nat, p \in RequestPC : [r EXCEPT !.gen = g, !.pc = p] \in Request
         /\ \A p \in RequestPC, t \in 0 .. CancelTries - 1 :
              [r EXCEPT !.pc = p, !.tries = t] \in Request
         /\ \A p \in RequestPC : [r EXCEPT !.pc = p] \in Request
BY DEF Request, RequestPC

LEMMA EmptyRecords ==
  NoJob \in Job /\ NoRequest \in Request /\ Down \in Loop /\ Awake \in Loop
BY TriesAssumption DEF TriesAssumption, NoJob, Job, NoRequest, Request, Down, Awake, Loop

LEMMA SettledType ==
  ASSUME NEW r \in Row, NEW o \in Terminal
  PROVE  /\ Settled(r, o) \in Row
         /\ Settled(r, o).state = o
         /\ Settled(r, o).intent = FALSE
<1>1. r.gen + 1 \in Nat /\ 0 \in 0 .. LeaseTicks /\ FALSE \in BOOLEAN
  BY LeaseAssumption DEF LeaseAssumption, Row
<1>2. Settled(r, o) \in Row
  BY <1>1, RowEdits DEF Settled, State
<1>3. Settled(r, o).state = o /\ Settled(r, o).intent = FALSE
  BY DEF Settled, Row
<1> QED
  BY <1>2, <1>3

LEMMA ClaimedType ==
  ASSUME NEW r \in Row
  PROVE  /\ Claimed(r) \in Row /\ Claimed(r).state = "running"
         /\ Renewed(r) \in Row /\ Renewed(r).state = r.state
         /\ Claimed(r).intent = r.intent /\ Renewed(r).intent = r.intent
<1>1. r.gen + 1 \in Nat /\ LeaseTicks \in 0 .. LeaseTicks
  BY LeaseAssumption DEF LeaseAssumption, Row
<1>2. Claimed(r) \in Row /\ Renewed(r) \in Row
  BY <1>1, RowEdits DEF Claimed, Renewed, State
<1>3. /\ Claimed(r).state = "running" /\ Claimed(r).intent = r.intent
      /\ Renewed(r).state = r.state /\ Renewed(r).intent = r.intent
  BY DEF Claimed, Renewed, Row
<1> QED
  BY <1>2, <1>3

LEMMA ReconciledType ==
  ASSUME TypeOK, NEW abandoned, NEW d \in Delegation
  PROVE  Reconciled(d, abandoned) \in Row
<1>1. row[d] \in Row
  BY DEF TypeOK
<1>2. ReconciliationOutcome(row[d]) \in Terminal
  BY DEF ReconciliationOutcome, Terminal
<1> QED
  BY <1>1, <1>2, SettledType DEF Reconciled

LEMMA EnvironmentTypes ==
  ASSUME TypeOK,
         \/ \E d \in Delegation : Accept(d) \/ ForeignTurn(d)
         \/ Tick
         \/ Crash
         \/ Restart
  PROVE  TypeOK'
<1> USE LeaseAssumption, TriesAssumption DEF LeaseAssumption, TriesAssumption, TypeOK, database, process
<1>1. ASSUME NEW d \in Delegation, Accept(d) PROVE TypeOK'
  <2>1. [row[d] EXCEPT !.state = "pending", !.gen = 1] \in Row
    BY RowEdits DEF State
  <2> QED
    BY <1>1, <2>1 DEF Accept
<1>2. ASSUME NEW d \in Delegation, ForeignTurn(d) PROVE TypeOK'
  BY <1>2 DEF ForeignTurn
<1>3. CASE Tick
  <2>1. ASSUME NEW d \in Delegation PROVE row'[d] \in Row
    <3>1. row[d].left \in 0 .. LeaseTicks
      BY DEF Row
    <3>2. CASE row[d].left > 0
      <4>1. row[d].left - 1 \in 0 .. LeaseTicks
        BY <3>1, <3>2
      <4>2. row'[d] = [row[d] EXCEPT !.left = row[d].left - 1]
        BY <1>3, <3>2 DEF Tick
      <4>3. [row[d] EXCEPT !.left = row[d].left - 1] \in Row
        BY <4>1, RowEdits
      <4> QED
        BY <4>2, <4>3
    <3> QED
      BY <1>3, <3>2 DEF Tick
  <2>2. row' \in [Delegation -> Row]
    BY <1>3, <2>1 DEF Tick
  <2> QED
    BY <1>3, <2>2 DEF Tick
<1>4. CASE Crash
  <2>1. job' \in [Delegation -> Job] /\ loop' \in Loop /\ request' \in Request
    BY <1>4, EmptyRecords DEF Crash
  <2>2. up' \in BOOLEAN
    BY <1>4 DEF Crash
  <2> QED
    BY <1>4, <2>1, <2>2 DEF Crash
<1>5. CASE Restart
  <2>1. row' \in [Delegation -> Row]
    BY <1>5, ReconciledType DEF Restart, RestartedRow
  <2> QED
    BY <1>5, <2>1, EmptyRecords DEF Restart
<1> QED
  BY <1>1, <1>2, <1>3, <1>4, <1>5

LEMMA LoopTypes ==
  ASSUME TypeOK, LoopNext
  PROVE  TypeOK'
<1> USE LeaseAssumption DEF LeaseAssumption, TypeOK, database, process
<1>1. CASE ReconcileExpired
  <2>1. row' \in [Delegation -> Row]
    BY <1>1, ReconciledType DEF ReconcileExpired
  <2> QED
    BY <1>1, <2>1 DEF ReconcileExpired, Loop
<1>2. CASE Scan
  <2>1. \A d \in Delegation : row[d].gen \in Nat
    BY DEF Row
  <2>2. {[id |-> d, gen |-> row[d].gen] : d \in Pending}
          \subseteq [id : Delegation, gen : Nat]
    BY <2>1 DEF Pending
  <2>3. loop' \in Loop
    BY <1>2, <2>2 DEF Scan, Loop
  <2> QED
    BY <1>2, <2>3 DEF Scan
<1>3. CASE LoopStoreError
  BY <1>3, EmptyRecords DEF LoopStoreError
<1>4. ASSUME NEW p \in loop.todo, ClaimDelegation(p) PROVE TypeOK'
  <2>1. p.id \in Delegation
    BY DEF Loop
  <2>2. row' \in [Delegation -> Row]
    BY <1>4, <2>1, ClaimedType DEF ClaimDelegation
  <2>3. loop' \in Loop
    BY <1>4, <2>1 DEF ClaimDelegation, Loop
  <2> QED
    BY <1>4, <2>2, <2>3 DEF ClaimDelegation
<1>5. ASSUME NEW p \in loop.todo, ClaimFails(p) PROVE TypeOK'
  BY <1>5 DEF ClaimFails, Loop
<1>6. ASSUME NEW d \in Delegation, Register(d) PROVE TypeOK'
  <2>1. row[d].gen \in Nat
    BY DEF Row
  <2>2. [NoJob EXCEPT !.pc = "load", !.gen = row[d].gen] \in Job
    BY <2>1, EmptyRecords, JobEdits DEF JobPC
  <2>3. loop' \in Loop
    BY <1>6 DEF Register, Loop
  <2> QED
    BY <1>6, <2>2, <2>3 DEF Register
<1>7. CASE Sleep
  BY <1>7, EmptyRecords DEF Sleep
<1> QED
  BY <1>1, <1>2, <1>3, <1>4, <1>5, <1>6, <1>7 DEF LoopNext

LEMMA JobTypes ==
  ASSUME TypeOK, NEW d \in Delegation, JobNext(d)
  PROVE  TypeOK'
<1> USE LeaseAssumption DEF LeaseAssumption, TypeOK, database, process
<1>1. ASSUME Abandon(d)
      PROVE  row' \in [Delegation -> Row] /\ job' \in [Delegation -> Job]
             /\ channels' \subseteq Delegation /\ sent' \subseteq Delegation
  BY <1>1, EmptyRecords DEF Abandon
<1>2. ASSUME NEW o \in Terminal, EndWith(d, o)
      PROVE  row' \in [Delegation -> Row] /\ job' \in [Delegation -> Job]
             /\ channels' \subseteq Delegation /\ sent' \subseteq Delegation
  BY <1>2, SettledType, EmptyRecords DEF EndWith
<1>3. ASSUME NEW how \in {"ok", "error", "cancel"}, Exit(d, how)
      PROVE  job' \in [Delegation -> Job]
  <2>1. \A p \in {"cancel", "decide"} : [job[d] EXCEPT !.exit = how, !.pc = p] \in Job
    BY JobEdits DEF JobPC, JobExit
  <2> QED
    BY <1>3, <2>1 DEF Exit
<1>4. CASE JobLoad(d)
  <2>1. [job[d] EXCEPT !.pc = "run"] \in Job
    BY JobEdits DEF JobPC
  <2>2. CASE foreign[d]
    BY <1>1, <1>4, <2>2 DEF JobLoad
  <2>3. CASE ~foreign[d]
    BY <1>4, <2>1, <2>3 DEF JobLoad
  <2> QED
    BY <2>2, <2>3
<1>5. ASSUME NEW how \in {"ok", "error"}, ExecutionEnds(d, how) PROVE TypeOK'
  BY <1>3, <1>5 DEF ExecutionEnds
<1>6. CASE ReceiveSignal(d)
  BY <1>3, <1>6 DEF ReceiveSignal
<1>7. CASE Poll(d)
  BY <1>3, <1>7 DEF Poll
<1>8. CASE Heartbeat(d)
  <2>1. CASE Fenced(d)
    <3>1. row[d].gen + 1 \in Nat
      BY DEF Row
    <3>2. [job[d] EXCEPT !.gen = row[d].gen + 1] \in Job
      BY <3>1, JobEdits
    <3>3. [job[d] EXCEPT !.gen = row[d].gen + 1, !.exit = "cancel", !.pc = "cancel"] \in Job
      BY <3>1, JobEdits DEF JobExit, JobPC
    <3> QED
      BY <1>8, <2>1, <3>2, <3>3, ClaimedType DEF Heartbeat
  <2>2. CASE ~Fenced(d)
    BY <1>1, <1>8, <2>2 DEF Heartbeat
  <2> QED
    BY <2>1, <2>2
<1>9. CASE JobStoreError(d)
  BY <1>1, <1>9 DEF JobStoreError
<1>10. CASE Decide(d)
  BY <1>10 DEF Decide, Job
<1>11. CASE Commit(d)
  <2>1. CASE Committable(d)
    BY <1>2, <1>11, <2>1 DEF Commit, Terminal
  <2>2. CASE ~Committable(d)
    <3>1. [job[d] EXCEPT !.pc = "reload"] \in Job
      BY JobEdits DEF JobPC
    <3> QED
      BY <1>11, <2>2, <3>1 DEF Commit
  <2> QED
    BY <2>1, <2>2
<1>12. CASE CommitStoreError(d)
  BY <1>12 DEF CommitStoreError, Job
<1>13. CASE Reload(d)
  <2>1. row[d].gen \in Nat
    BY DEF Row
  <2>2. [job[d] EXCEPT !.pc = "cancel", !.gen = row[d].gen, !.late = FALSE] \in Job
    BY <2>1, JobEdits DEF JobPC
  <2> QED
    BY <1>1, <1>13, <2>2 DEF Reload
<1>14. CASE FinishCancelled(d)
  BY <1>1, <1>2, <1>14 DEF FinishCancelled, Terminal
<1> QED
  BY <1>4, <1>5, <1>6, <1>7, <1>8, <1>9, <1>10, <1>11, <1>12, <1>13, <1>14 DEF JobNext

LEMMA OperatorTypes ==
  ASSUME TypeOK, RequestOK, OperatorNext
  PROVE  TypeOK'
<1> USE LeaseAssumption, TriesAssumption DEF LeaseAssumption, TriesAssumption, TypeOK, database, process
<1>1. NoRequest \in Request
  BY EmptyRecords
<1>2. ASSUME NEW d \in Delegation, OpStart(d) PROVE TypeOK'
  <2>1. [NoRequest EXCEPT !.pc = "load", !.id = d] \in Request
    BY <1>1, RequestEdits DEF RequestPC
  <2> QED
    BY <1>2, <2>1 DEF OpStart
<1>3. CASE OpLoad
  <2>1. row[request.id].gen \in Nat
    BY <1>3 DEF OpLoad, RequestOK, Row
  <2>2. \A q \in {"signal", "cancel"} :
          [request EXCEPT !.gen = row[request.id].gen, !.pc = q] \in Request
    BY <1>3, <2>1, RequestEdits DEF RequestPC, OpLoad, RequestOK
  <2> QED
    BY <1>1, <1>3, <2>2 DEF OpLoad, Reply
<1>4. CASE OpConflict
  <2>1. request.tries + 1 < CancelTries => request.tries + 1 \in 0 .. CancelTries - 1
    BY DEF Request
  <2>2. request.tries + 1 < CancelTries =>
          [request EXCEPT !.pc = "load", !.tries = request.tries + 1] \in Request
    BY <1>4, <2>1, RequestEdits DEF RequestPC, OpConflict, RequestOK
  <2> QED
    BY <1>1, <1>4, <2>2 DEF OpConflict
<1>5. ASSUME request.pc = "cancel"
      PROVE  [request EXCEPT !.pc = "signal"] \in Request /\ request.id \in Delegation
  BY <1>5, RequestEdits DEF RequestPC, RequestOK
<1>6. CASE OpCancelPending
  BY <1>5, <1>6, SettledType DEF OpCancelPending, Terminal
<1>7. CASE OpCancelRunning
  <2> DEFINE d == request.id
  <2>1. d \in Delegation /\ [request EXCEPT !.pc = "signal"] \in Request
    BY <1>5, <1>7 DEF OpCancelRunning
  <2>2. [row[d] EXCEPT !.intent = TRUE] \in Row
    BY <2>1, RowEdits
  <2>3. \A late \in BOOLEAN : [job[d] EXCEPT !.late = late] \in Job
    BY <2>1, JobEdits
  <2>4. row' \in [Delegation -> Row]
    BY <1>7, <2>1, <2>2 DEF OpCancelRunning
  <2>5. job' \in [Delegation -> Job]
    <3>1. CASE row[d].left > 0
      <4>1. PICK late \in BOOLEAN : job' = [job EXCEPT ![d].late = late]
        BY <1>7, <3>1 DEF OpCancelRunning
      <4> QED
        BY <2>1, <2>3, <4>1
    <3> QED
      BY <1>7, <3>1 DEF OpCancelRunning
  <2>6. request' \in Request
    BY <1>1, <1>7, <2>1 DEF OpCancelRunning, Reply
  <2> QED
    BY <1>7, <2>4, <2>5, <2>6 DEF OpCancelRunning
<1>8. CASE OpSignal
  BY <1>1, <1>8 DEF OpSignal, Reply, RequestOK
<1>9. CASE OpStoreError
  BY <1>1, <1>9 DEF OpStoreError, Reply
<1> QED
  BY <1>2, <1>3, <1>4, <1>6, <1>7, <1>8, <1>9 DEF OperatorNext

LEMMA TypesKept ==
  ASSUME TypeOK, RequestOK, [Next]_vars
  PROVE  TypeOK'
<1>1. CASE UNCHANGED vars
  BY <1>1 DEF vars, database, process, TypeOK
<1> QED
  BY <1>1, EnvironmentTypes, LoopTypes, JobTypes, OperatorTypes DEF Next
-----------------------------------------------------------------------------
(* Rows only advance.                                                      *)

\* What every write of a row keeps.
Advances(r, q) ==
  /\ ~Queued(r) => ~Queued(q)
  /\ Promised(r) => Promised(q)
  /\ IntentOfRunning(q)

RowsAdvance == \A d \in Delegation : Advances(row[d], row'[d])

LEMMA OneRowAdvances ==
  ASSUME TypeOK, IntentOK, NEW d \in Delegation, NEW q, Advances(row[d], q),
         row' = [row EXCEPT ![d] = q]
  PROVE  RowsAdvance
BY DEF RowsAdvance, Advances, IntentOK, TypeOK

LEMMA UnchangedRowsAdvance ==
  ASSUME IntentOK, UNCHANGED row
  PROVE  RowsAdvance
BY DEF RowsAdvance, Advances, IntentOK

\* A terminal breaks no promise unless it is another than "cancelled".
LEMMA SettledAdvances ==
  ASSUME NEW r \in Row, NEW o \in Terminal, Promised(r) => o = "cancelled"
  PROVE  Advances(r, Settled(r, o))
BY SettledType DEF Advances, Queued, Promised, IntentOfRunning, Terminal

LEMMA ReconciledAdvances ==
  ASSUME TypeOK, IntentOK, NEW abandoned \in SUBSET Running, NEW d \in Delegation
  PROVE  Advances(row[d], Reconciled(d, abandoned))
<1>1. row[d] \in Row /\ IntentOfRunning(row[d])
  BY DEF TypeOK, IntentOK
<1>2. CASE d \in abandoned
  <2>1. /\ ReconciliationOutcome(row[d]) \in Terminal
        /\ Promised(row[d]) => ReconciliationOutcome(row[d]) = "cancelled"
    BY <1>2 DEF ReconciliationOutcome, Terminal, Promised, Running
  <2> QED
    BY <1>1, <1>2, <2>1, SettledAdvances DEF Reconciled
<1>3. CASE d \notin abandoned
  BY <1>1, <1>3 DEF Reconciled, Advances
<1> QED
  BY <1>2, <1>3

LEMMA LoopRowsAdvance ==
  ASSUME TypeOK, IntentOK, LoopNext
  PROVE  RowsAdvance
<1>1. CASE ReconcileExpired
  BY <1>1, ReconciledAdvances DEF ReconcileExpired, RowsAdvance
<1>2. ASSUME NEW p \in loop.todo, ClaimDelegation(p) PROVE RowsAdvance
  <2>1. p.id \in Delegation /\ row[p.id] \in Row /\ row[p.id].state = "pending"
    BY <1>2 DEF TypeOK, Loop, ClaimDelegation, Claimable
  <2>2. Advances(row[p.id], Claimed(row[p.id]))
    BY <2>1, ClaimedType DEF Advances, Queued, Promised, IntentOfRunning
  <2> QED
    BY <1>2, <2>1, <2>2, OneRowAdvances DEF ClaimDelegation
<1>3. CASE UNCHANGED row
  BY <1>3, UnchangedRowsAdvance
<1> QED
  BY <1>1, <1>2, <1>3
  DEF LoopNext, Scan, LoopStoreError, ClaimFails, Register, Sleep, database

LEMMA JobRowsAdvance ==
  ASSUME TypeOK, IntentOK, NEW d \in Delegation, JobNext(d)
  PROVE  RowsAdvance
<1>1. row[d] \in Row /\ IntentOfRunning(row[d])
  BY DEF TypeOK, IntentOK
<1>2. CASE UNCHANGED row
  BY <1>2, UnchangedRowsAdvance
<1>3. ASSUME NEW o \in Terminal, EndWith(d, o), Promised(row[d]) => o = "cancelled"
      PROVE  RowsAdvance
  BY <1>1, <1>3, SettledAdvances, OneRowAdvances DEF EndWith
<1>4. CASE Heartbeat(d) /\ Fenced(d)
  <2>1. Advances(row[d], Renewed(row[d]))
    BY <1>1, ClaimedType DEF Advances, Queued, Promised, IntentOfRunning
  <2> QED
    BY <1>4, <2>1, OneRowAdvances DEF Heartbeat
<1>5. CASE Commit(d) /\ Committable(d)
  <2>1. ~Promised(row[d])
    BY <1>5 DEF Committable, Fenced, Promised
  <2> QED
    BY <1>3, <1>5, <2>1 DEF Commit, Terminal
<1>6. CASE FinishCancelled(d) /\ row' # row
  BY <1>3, <1>6 DEF FinishCancelled, Abandon, Terminal
<1> QED
  BY <1>2, <1>4, <1>5, <1>6
  DEF JobNext, JobLoad, ExecutionEnds, ReceiveSignal, Poll, Heartbeat, JobStoreError,
      Decide, Commit, CommitStoreError, Reload, FinishCancelled, Abandon, database

LEMMA OperatorRowsAdvance ==
  ASSUME TypeOK, IntentOK, RequestOK, OperatorNext
  PROVE  RowsAdvance
<1>1. CASE UNCHANGED row
  BY <1>1, UnchangedRowsAdvance
<1>2. request.pc = "cancel" => request.id \in Delegation /\ row[request.id] \in Row
  BY DEF RequestOK, TypeOK
<1>3. CASE OpCancelPending
  <2>1. "cancelled" \in Terminal /\ request.pc = "cancel"
    BY <1>3 DEF OpCancelPending, Terminal
  <2>2. Advances(row[request.id], Settled(row[request.id], "cancelled"))
    BY <1>2, <2>1, SettledAdvances
  <2> QED
    BY <1>2, <1>3, <2>1, <2>2, OneRowAdvances DEF OpCancelPending
<1>4. CASE OpCancelRunning /\ row' # row
  <2> DEFINE d == request.id
             q == [row[d] EXCEPT !.intent = TRUE]
  <2>1. d \in Delegation /\ row[d] \in Row /\ row[d].state = "running"
    BY <1>2, <1>4 DEF OpCancelRunning, Running
  <2>2. q.state = "running" /\ q.intent
    BY <2>1 DEF Row
  <2>3. row' = [row EXCEPT ![d] = q]
    BY <1>4 DEF OpCancelRunning
  <2>4. Advances(row[d], q)
    BY <2>2 DEF Advances, Queued, Promised, IntentOfRunning
  <2> HIDE DEF q, d
  <2> QED
    BY <2>1, <2>3, <2>4, OneRowAdvances
<1> QED
  BY <1>1, <1>3, <1>4
  DEF OperatorNext, OpStart, OpLoad, OpConflict, OpCancelRunning, OpSignal, OpStoreError, database

LEMMA NextRowsAdvance ==
  ASSUME TypeOK, IntentOK, RequestOK, [Next]_vars
  PROVE  RowsAdvance
<1>1. CASE UNCHANGED row
  BY <1>1, UnchangedRowsAdvance
<1>2. ASSUME NEW d \in Delegation, Accept(d) PROVE RowsAdvance
  <2> DEFINE q == [row[d] EXCEPT !.state = "pending", !.gen = 1]
  <2>1. row[d] \in Row /\ row[d].state = "absent" /\ ~row[d].intent
    BY <1>2 DEF Accept, TypeOK, IntentOK, IntentOfRunning
  <2>2. q.state = "pending" /\ ~q.intent
    BY <2>1 DEF Row
  <2>3. row' = [row EXCEPT ![d] = q]
    BY <1>2 DEF Accept
  <2>4. Advances(row[d], q)
    BY <2>1, <2>2 DEF Advances, Queued, Promised, IntentOfRunning
  <2> HIDE DEF q
  <2> QED
    BY <2>3, <2>4, OneRowAdvances
<1>3. CASE Tick
  <2>1. ASSUME NEW d \in Delegation
        PROVE  row'[d].state = row[d].state /\ row'[d].intent = row[d].intent
    BY <1>3 DEF Tick, TypeOK, Row
  <2> QED
    BY <2>1 DEF RowsAdvance, Advances, Queued, Promised, IntentOfRunning, IntentOK
<1>4. CASE Restart
  BY <1>4, ReconciledAdvances DEF Restart, RestartedRow, RowsAdvance
<1> QED
  BY <1>1, <1>2, <1>3, <1>4, LoopRowsAdvance, JobRowsAdvance, OperatorRowsAdvance
  DEF Next, ForeignTurn, Crash, vars, database
-----------------------------------------------------------------------------
(* What follows from it.                                                   *)

LEMMA PromisesKept ==
  ASSUME Inv, [Next]_vars
  PROVE  IntentOK' /\ RequestOK' /\ AgreedCancelHonoured'
<1>1. RowsAdvance
  BY NextRowsAdvance DEF Inv
<1>2. IntentOK'
  BY <1>1 DEF RowsAdvance, Advances, IntentOK
<1>3. ASSUME NEW d \in Delegation, Promised(row[d]) PROVE Promised(row[d])'
  BY <1>1, <1>3 DEF RowsAdvance, Advances, Promised
<1>4. \A d \in Delegation : Promised(row[d]) <=>
         (row[d].state = "cancelled" \/ (d \in Running /\ row[d].intent))
  BY DEF Promised, Running
<1>5. \A d \in Delegation : Promised(row[d])' <=>
         (row'[d].state = "cancelled" \/ (d \in Running' /\ row'[d].intent))
  BY DEF Promised, Running
<1>6. RequestOK'
  <2>1. request.pc # "idle" => request.id \in Delegation
    BY DEF Inv, RequestOK
  <2>2. request.pc = "signal" => Promised(row[request.id])
    BY DEF Inv, RequestOK
  <2>3. CASE UNCHANGED request
    <3>1. request.pc = "signal" => Promised(row[request.id])'
      BY <1>3, <2>1, <2>2, <2>3
    <3> QED
      BY <2>1, <2>3, <3>1 DEF RequestOK, Promised
  <2>4. CASE request' = NoRequest
    BY <2>4 DEF RequestOK, NoRequest
  <2>5. ASSUME NEW d \in Delegation, OpStart(d) PROVE RequestOK'
    BY <2>5 DEF OpStart, RequestOK, NoRequest
  <2>6. CASE OpLoad /\ request' # NoRequest
    <3>1. /\ request.id \in Delegation /\ request'.id = request.id
          /\ request'.pc = "signal" => row[request.id].intent
      BY <2>1, <2>6 DEF OpLoad, Reply, Inv, TypeOK, Request
    <3>2. row[request.id].intent => Promised(row[request.id])
      BY <3>1 DEF Inv, IntentOK, IntentOfRunning, Promised
    <3>3. request'.pc = "signal" => Promised(row[request.id])'
      BY <1>3, <3>1, <3>2
    <3> QED
      BY <3>1, <3>3 DEF RequestOK, Promised
  <2>7. CASE OpConflict /\ request' # NoRequest
    <3>1. request'.pc = "load" /\ request'.id = request.id /\ request.id \in Delegation
      BY <2>1, <2>7 DEF OpConflict, Inv, TypeOK, Request
    <3> QED
      BY <3>1 DEF RequestOK
  <2>8. CASE (OpCancelPending \/ OpCancelRunning) /\ request' # NoRequest
    <3>1. /\ request.id \in Delegation /\ request'.id = request.id
          /\ request'.pc = "signal"
      BY <2>1, <2>8 DEF OpCancelPending, OpCancelRunning, Reply, Inv, TypeOK, Request
    <3>2. row[request.id] \in Row
      BY <3>1 DEF Inv, TypeOK
    <3>3. CASE OpCancelPending
      BY <3>1, <3>2, <3>3, SettledType
      DEF OpCancelPending, Promised, RequestOK, Terminal, Inv, TypeOK
    <3>4. CASE OpCancelRunning
      <4>1. row' = [row EXCEPT ![request.id].intent = TRUE]
            /\ row[request.id].state = "running"
        BY <2>8, <3>4 DEF OpCancelRunning, Reply, Running
      <4>2. row'[request.id].state = "running" /\ row'[request.id].intent
        BY <3>1, <3>2, <4>1 DEF Inv, TypeOK, Row
      <4> QED
        BY <3>1, <4>2 DEF RequestOK, Promised
    <3> QED
      BY <2>8, <3>3, <3>4
  <2> QED
    BY <2>3, <2>4, <2>5, <2>6, <2>7, <2>8
    DEF Next, vars, process, Accept, ForeignTurn, Tick, LoopNext, ReconcileExpired, Scan,
        LoopStoreError, ClaimDelegation, ClaimFails, Register, Sleep, JobNext, JobLoad,
        ExecutionEnds, ReceiveSignal, Poll, Heartbeat, JobStoreError, Decide, Commit,
        CommitStoreError, Reload, FinishCancelled, OperatorNext, OpSignal, OpStoreError,
        Reply, Crash, Restart
<1>7. AgreedCancelHonoured'
  <2>1. agreed' = agreed
        \/ (request.pc = "signal" /\ agreed' = agreed \cup {request.id})
    BY DEF Next, vars, Accept, ForeignTurn, Tick, LoopNext, ReconcileExpired, Scan,
        LoopStoreError, ClaimDelegation, ClaimFails, Register, Sleep, JobNext, JobLoad,
        ExecutionEnds, ReceiveSignal, Poll, Heartbeat, JobStoreError, Decide, Commit,
        CommitStoreError, Reload, FinishCancelled, OperatorNext, OpStart, OpLoad,
        OpConflict, OpCancelPending, OpCancelRunning, OpSignal, OpStoreError, Crash, Restart
  <2>2. ASSUME NEW d \in agreed PROVE d \in Delegation /\ Promised(row[d])
    BY <1>4 DEF Inv, AgreedCancelHonoured, TypeOK
  <2>3. request.pc = "signal" => request.id \in Delegation /\ Promised(row[request.id])
    BY DEF Inv, RequestOK
  <2>4. ASSUME NEW d \in agreed' PROVE d \in Delegation /\ Promised(row[d])'
    BY <1>3, <2>1, <2>2, <2>3
  <2> QED
    BY <1>5, <2>4 DEF AgreedCancelHonoured
<1> QED
  BY <1>2, <1>6, <1>7

LEMMA StartsKept ==
  ASSUME Inv, [Next]_vars
  PROVE  StartsOK'
<1>1. \A d \in Delegation : ~Queued(row[d]) => ~Queued(row'[d])
  BY NextRowsAdvance DEF Inv, RowsAdvance, Advances
<1>2. ASSUME NEW d \in Delegation PROVE StartOK(d)
  BY DEF Inv, StartsOK
<1> USE DEF Inv, TypeOK
<1>3. CASE UNCHANGED <<loop, job, started>>
  BY <1>1, <1>2, <1>3 DEF StartsOK, StartOK, Queued
<1>4. CASE job' = job /\ started' = started /\ loop'.registering = loop.registering
  BY <1>1, <1>2, <1>4 DEF StartsOK, StartOK, Queued
<1>5. CASE job' = job /\ started' = started /\ loop'.registering = {}
  BY <1>1, <1>2, <1>5 DEF StartsOK, StartOK, Queued
<1>6. ASSUME NEW p \in loop.todo, ClaimDelegation(p) PROVE StartsOK'
  <2>1. p.id \in Delegation /\ row[p.id] \in Row /\ Queued(row[p.id])
    BY <1>6 DEF Loop, ClaimDelegation, Claimable, Queued
  <2>2. ~Queued(row'[p.id])
    BY <1>6, <2>1, ClaimedType DEF ClaimDelegation, Queued
  <2>3. job' = job /\ started' = started /\ loop'.registering = {p.id}
    BY <1>6 DEF ClaimDelegation, Loop
  <2>4. ASSUME NEW d \in Delegation PROVE StartOK(d)'
    BY <1>1, <1>2, <2>1, <2>2, <2>3 DEF StartOK, Queued
  <2> QED
    BY <2>4 DEF StartsOK
<1>7. ASSUME NEW e \in Delegation, Register(e) PROVE StartsOK'
  <2>1. /\ loop'.registering = {} /\ started' = started /\ row' = row
        /\ job' = [job EXCEPT ![e] = [NoJob EXCEPT !.pc = "load", !.gen = row[e].gen]]
    BY <1>7 DEF Register, Loop, database
  <2>2. job'[e].pc = "load"
    BY <2>1 DEF NoJob
  <2>3. ASSUME NEW d \in Delegation PROVE StartOK(d)'
    BY <1>2, <1>7, <2>1, <2>2 DEF Register, StartOK, Queued
  <2> QED
    BY <2>3 DEF StartsOK
<1>8. CASE Crash
  <2>1. ASSUME NEW d \in Delegation PROVE StartOK(d)'
    BY <1>2, <1>8 DEF Crash, Down, NoJob, StartOK, Queued, database
  <2> QED
    BY <2>1 DEF StartsOK
<1>9. ASSUME NEW e \in Delegation, JobNext(e) PROVE StartsOK'
  <2>1. /\ UNCHANGED loop
        /\ \A d \in Delegation \ {e} : job'[d] = job[d] /\ started'[d] = started[d]
        /\ job[e].pc # "none"
    BY <1>9 DEF JobNext, JobLoad, ExecutionEnds, ReceiveSignal, Poll, Heartbeat, JobStoreError,
        Decide, Commit, CommitStoreError, Reload, FinishCancelled, Abandon, Exit, EndWith, At
  <2>2. ~Queued(row[e]) /\ e \notin loop.registering
    BY <1>2, <2>1 DEF StartOK
  <2>3. CASE JobLoad(e)
    <3>1. job'[e].pc # "load"
      BY <2>3 DEF JobLoad, Abandon, NoJob, At, Job
    <3>2. started'[e] <= 1
      BY <1>2, <2>3 DEF JobLoad, StartOK, At
    <3> QED
      BY <1>1, <1>2, <2>1, <2>2, <3>1, <3>2 DEF StartsOK, StartOK, Queued
  <2>4. CASE ~JobLoad(e)
    <3>1. started' = started
      BY <1>9, <2>4 DEF JobNext, ExecutionEnds, ReceiveSignal, Poll, Heartbeat, JobStoreError,
          Decide, Commit, CommitStoreError, Reload, FinishCancelled
    <3>2. job'[e].pc # "load" \/ job[e].pc = "load"
      <4>1. job[e] \in Job
        BY DEF Job
      <4>2. job' = [job EXCEPT ![e] = NoJob] => job'[e].pc = "none"
        BY DEF NoJob
      <4>3. \A how \in {"ok", "error", "cancel"} :
              Exit(e, how) => job'[e].pc \in {"decide", "cancel"}
        BY <4>1 DEF Exit, Job
      <4>4. CASE ExecutionEnds(e, "ok") \/ ExecutionEnds(e, "error")
                 \/ ReceiveSignal(e) \/ Poll(e)
        BY <4>3, <4>4 DEF ExecutionEnds, ReceiveSignal, Poll
      <4>5. CASE Heartbeat(e)
        <5>1. CASE Fenced(e)
          <6>1. job[e].pc = "run"
            BY <4>5 DEF Heartbeat, At
          <6>2. \/ job' = [job EXCEPT ![e] = [@ EXCEPT !.gen = row[e].gen + 1, !.exit = "cancel",
                                                       !.pc = "cancel"]]
                \/ job' = [job EXCEPT ![e] = [@ EXCEPT !.gen = row[e].gen + 1]]
            BY <4>5, <5>1 DEF Heartbeat
          <6> QED
            BY <4>1, <6>1, <6>2 DEF Job
        <5>2. CASE ~Fenced(e)
          BY <4>2, <4>5, <5>2 DEF Heartbeat, Abandon
        <5> QED
          BY <5>1, <5>2
      <4>6. CASE JobStoreError(e)
        BY <4>2, <4>6 DEF JobStoreError, Abandon
      <4>7. CASE Decide(e) \/ CommitStoreError(e)
        BY <4>1, <4>7 DEF Decide, CommitStoreError, Job
      <4>8. CASE Commit(e) \/ Reload(e) \/ FinishCancelled(e)
        <5>1. \/ job' = [job EXCEPT ![e] = NoJob]
              \/ job' = [job EXCEPT ![e].pc = "reload"]
              \/ job' = [job EXCEPT ![e] = [@ EXCEPT !.pc = "cancel", !.gen = row[e].gen,
                                                     !.late = FALSE]]
          BY <4>8 DEF Commit, Reload, FinishCancelled, Abandon, EndWith
        <5> QED
          BY <4>1, <4>2, <5>1 DEF Job
      <4> QED
        BY <1>9, <2>4, <4>4, <4>5, <4>6, <4>7, <4>8 DEF JobNext
    <3> QED
      BY <1>1, <1>2, <2>1, <2>2, <3>1, <3>2 DEF StartsOK, StartOK, Queued
  <2> QED
    BY <2>3, <2>4
<1>10. CASE OpCancelRunning
  <2>1. /\ UNCHANGED <<loop, started>>
        /\ \A d \in Delegation : job'[d].pc = job[d].pc
    <3>1. CASE row[request.id].left > 0
      <4>1. PICK late \in BOOLEAN : job' = [job EXCEPT ![request.id].late = late]
        BY <1>10, <3>1 DEF OpCancelRunning
      <4>2. \A d \in Delegation : job'[d].pc = job[d].pc
        BY <4>1 DEF Job
      <4> QED
        BY <1>10, <4>2 DEF OpCancelRunning
    <3> QED
      BY <1>10, <3>1 DEF OpCancelRunning
  <2> QED
    BY <1>1, <1>2, <2>1 DEF StartsOK, StartOK, Queued
<1>11. CASE Scan
  BY <1>4, <1>11 DEF Scan, Loop
<1>12. CASE ReconcileExpired
  BY <1>4, <1>12 DEF ReconcileExpired, Loop
<1>13. ASSUME NEW p \in loop.todo, ClaimFails(p) PROVE StartsOK'
  BY <1>4, <1>13 DEF ClaimFails, Loop
<1>14. CASE LoopStoreError \/ Sleep \/ Restart
  BY <1>5, <1>14 DEF LoopStoreError, Sleep, Restart, Awake, Down
<1> QED
  BY <1>3, <1>6, <1>7, <1>8, <1>9, <1>10, <1>11, <1>12, <1>13, <1>14
  DEF Next, vars, process, Accept, ForeignTurn, Tick, LoopNext, OperatorNext, OpStart, OpLoad,
      OpConflict, OpCancelPending, OpSignal, OpStoreError, Reply

-----------------------------------------------------------------------------
(* Theorems.                                                               *)

LEMMA SpecInv == Spec => []Inv
<1>1. Inv /\ [Next]_vars => Inv'
  BY TypesKept, PromisesKept, StartsKept DEF Inv
<1> QED
  BY InitInv, <1>1, PTL DEF Spec

(* Every table, task and channel keeps its type whatever the loop, the     *)
(* jobs, the gateway task, the clock and the crashes do.                   *)
THEOREM SupervisorTypeCorrect == Spec => []TypeOK
<1>1. Inv => TypeOK
  BY DEF Inv
<1> QED
  BY SpecInv, <1>1, PTL

(* A delegation is executed at most once in its life, and never while it   *)
(* is pending, through expired leases, stale scans, zombie jobs, crashes   *)
(* and restarts.                                                           *)
THEOREM AtMostOneExecution == Spec => []ExecutedAtMostOnce
<1>1. Inv => ExecutedAtMostOnce
  BY DEF Inv, StartsOK, StartOK, Queued, ExecutedAtMostOnce, Pending
<1> QED
  BY SpecInv, <1>1, PTL

(* A cancellation the client was promised is never overtaken: the row is   *)
(* cancelled, or still running with the request on record.                 *)
THEOREM PromisedCancelKept == Spec => []AgreedCancelHonoured
<1>1. Inv => AgreedCancelHonoured
  BY DEF Inv
<1> QED
  BY SpecInv, <1>1, PTL
-----------------------------------------------------------------------------
(* Refinement of DelegationLifecycle.                                      *)

\* What a step may do to a row r and its n turns, one disjunct per promise.
Accepts(r, n, q, m)    == r.state = "absent" /\ q.state = "pending" /\ ~r.intent /\ ~q.intent /\ m = n
Dispatches(r, n, q, m) == r.state = "pending" /\ q.state = "running" /\ q.intent = r.intent /\ m = n
Requests(r, n, q, m)   == r.state = "running" /\ q.state = "running" /\ ~r.intent /\ q.intent /\ m = n
Succeeds(r, n, q, m)   ==
  r.state = "running" /\ q.state = "completed" /\ ~r.intent /\ ~q.intent /\ m = n + 1
GivesUp(r, n, q, m)    ==
  r.state = "running" /\ q.state \in {"failed", "outcome_unknown"} /\ ~r.intent /\ ~q.intent /\ m = n
Cancels(r, n, q, m)    ==
  /\ \/ r.state = "pending" /\ ~r.intent
     \/ r.state = "running" /\ r.intent
  /\ q.state = "cancelled" /\ ~q.intent /\ m = n
Rests(r, n, q, m)      == q.state = r.state /\ q.intent = r.intent /\ m = n

Moves(r, n, q, m) ==
  \/ Accepts(r, n, q, m) \/ Dispatches(r, n, q, m) \/ Requests(r, n, q, m)
  \/ Succeeds(r, n, q, m) \/ GivesUp(r, n, q, m) \/ Cancels(r, n, q, m) \/ Rests(r, n, q, m)

RowsMove == \A d \in Delegation : Moves(row[d], turns[d], row'[d], turns'[d])

LEMMA MovesAdvance ==
  ASSUME NEW r \in Row, NEW q \in Row, NEW n \in Nat, NEW m,
         r.state # "completed" => n = 0, Moves(r, n, q, m)
  PROVE  \/ PromiseOf(q, m) = PromiseOf(r, n)
         \/ Lifecycle!Advance(PromiseOf(r, n), PromiseOf(q, m))
<1> DEFINE p == PromiseOf(r, n)
           s == PromiseOf(q, m)
<1> USE DEF PromiseOf, Terminal
<1>1. CASE Accepts(r, n, q, m)
  <2>1. Lifecycle!Accept(p, s)
    BY <1>1 DEF Accepts, Lifecycle!Accept
  <2> QED
    BY <2>1 DEF Lifecycle!Advance
<1>2. CASE Dispatches(r, n, q, m)
  <2>1. Lifecycle!Dispatch(p, s)
    BY <1>2 DEF Dispatches, Lifecycle!Dispatch
  <2> QED
    BY <2>1 DEF Lifecycle!Advance
<1>3. CASE Requests(r, n, q, m)
  <2>1. Lifecycle!RequestCancel(p, s)
    BY <1>3 DEF Requests, Lifecycle!RequestCancel
  <2> QED
    BY <2>1 DEF Lifecycle!Advance
<1>4. CASE Succeeds(r, n, q, m)
  <2>1. /\ p.life = "running" /\ p.intent = "none" /\ p.reason = "none" /\ n = 0
        /\ s.life = "completed" /\ s.intent = "none" /\ s.reason = "none" /\ s.turns = 1
        /\ s.notice = "published"
        /\ p \in Lifecycle!Promise /\ s \in Lifecycle!Promise
    BY <1>4 DEF Succeeds, Lifecycle!Promise, Lifecycle!Outcome
  <2> HIDE DEF p, s
  <2>2. Lifecycle!Succeed(p, s)
    BY <2>1 DEF Lifecycle!Succeed, Lifecycle!Promise, Lifecycle!Outcome
  <2> QED
    BY <2>2 DEF p, s, Lifecycle!Advance
<1>5. CASE GivesUp(r, n, q, m)
  <2>1. /\ p.life = "running" /\ p.intent = "none" /\ p.reason = "none"
        /\ s.life \in {"failed", "outcome_unknown"} /\ s.intent = "none" /\ s.reason = "none"
        /\ s.turns = p.turns /\ s.notice = "published"
        /\ p \in Lifecycle!Promise /\ s \in Lifecycle!Promise
    BY <1>5 DEF GivesUp, Lifecycle!Promise, Lifecycle!Outcome
  <2> HIDE DEF p, s
  <2>2. s = [p EXCEPT !.life = s.life, !.notice = "published"]
    BY <2>1 DEF Lifecycle!Promise, Lifecycle!Outcome
  <2>3. Lifecycle!GiveUp(p, s)
    BY <2>1, <2>2 DEF Lifecycle!GiveUp
  <2> QED
    BY <2>3 DEF p, s, Lifecycle!Advance
<1>6. CASE Cancels(r, n, q, m)
  <2>1. /\ p.life = "pending" \/ (p.life = "running" /\ p.intent = "requested")
        /\ s.life = "cancelled" /\ s.intent = "none" /\ s.reason = "requested"
        /\ s.turns = p.turns /\ s.notice = "published"
        /\ p \in Lifecycle!Promise /\ s \in Lifecycle!Promise
    BY <1>6 DEF Cancels, Lifecycle!Promise, Lifecycle!Outcome
  <2> HIDE DEF p, s
  <2>2. s = [p EXCEPT !.life = "cancelled", !.intent = "none", !.reason = "requested",
                      !.notice = "published"]
    BY <2>1 DEF Lifecycle!Promise, Lifecycle!Outcome
  <2>3. Lifecycle!Cancel(p, s)
    BY <2>1, <2>2 DEF Lifecycle!Cancel
  <2> QED
    BY <2>3 DEF p, s, Lifecycle!Advance
<1>7. CASE Rests(r, n, q, m)
  BY <1>7 DEF Rests
<1> QED
  BY <1>1, <1>2, <1>3, <1>4, <1>5, <1>6, <1>7 DEF Moves

LEMMA OneRowMoves ==
  ASSUME TypeOK, NEW d \in Delegation, NEW q, Moves(row[d], turns[d], q, turns'[d]),
         row' = [row EXCEPT ![d] = q],
         turns' = turns \/ turns' = [turns EXCEPT ![d] = @ + 1]
  PROVE  RowsMove
BY DEF RowsMove, Moves, Rests, TypeOK

LEMMA UnchangedRowsMove ==
  ASSUME UNCHANGED <<row, turns>>
  PROVE  RowsMove
BY DEF RowsMove, Moves, Rests

LEMMA ReconciledMoves ==
  ASSUME TypeOK, NEW abandoned \in SUBSET Running, turns' = turns,
         row' = [d \in Delegation |-> Reconciled(d, abandoned)]
  PROVE  RowsMove
<1> SUFFICES ASSUME NEW d \in Delegation
             PROVE  Moves(row[d], turns[d], Reconciled(d, abandoned), turns[d])
  BY DEF RowsMove
<1>1. row[d] \in Row
  BY DEF TypeOK
<1>2. CASE d \in abandoned
  <2>1. row[d].state = "running" /\ row[d].intent \in BOOLEAN
    BY <1>1, <1>2 DEF Running, Row
  <2>2. ASSUME NEW o \in Terminal
        PROVE  Settled(row[d], o).state = o /\ ~Settled(row[d], o).intent
    BY <1>1 DEF Settled, Row
  <2>3. CASE row[d].intent
    BY <1>2, <2>1, <2>2, <2>3 DEF Reconciled, ReconciliationOutcome, Terminal, Moves, Cancels
  <2>4. CASE ~row[d].intent
    BY <1>2, <2>1, <2>2, <2>4 DEF Reconciled, ReconciliationOutcome, Terminal, Moves, GivesUp
  <2> QED
    BY <2>3, <2>4
<1>3. CASE d \notin abandoned
  BY <1>3 DEF Reconciled, Moves, Rests
<1> QED
  BY <1>2, <1>3

LEMMA LoopRowsMove ==
  ASSUME TypeOK, LoopNext
  PROVE  RowsMove
<1>1. CASE ReconcileExpired
  BY <1>1, ReconciledMoves DEF ReconcileExpired
<1>2. ASSUME NEW p \in loop.todo, ClaimDelegation(p) PROVE RowsMove
  <2>1. p.id \in Delegation /\ row[p.id] \in Row /\ row[p.id].state = "pending"
    BY <1>2 DEF TypeOK, Loop, ClaimDelegation, Claimable
  <2>2. Claimed(row[p.id]).state = "running" /\ Claimed(row[p.id]).intent = row[p.id].intent
    BY <2>1 DEF Claimed, Row
  <2>3. turns' = turns
    BY <1>2 DEF ClaimDelegation
  <2>4. Moves(row[p.id], turns[p.id], Claimed(row[p.id]), turns'[p.id])
    BY <2>1, <2>2, <2>3 DEF Moves, Dispatches
  <2> QED
    BY <1>2, <2>1, <2>3, <2>4, OneRowMoves DEF ClaimDelegation
<1>3. CASE UNCHANGED <<row, turns>>
  BY <1>3, UnchangedRowsMove
<1> QED
  BY <1>1, <1>2, <1>3
  DEF LoopNext, Scan, LoopStoreError, ClaimFails, Register, Sleep, database

LEMMA JobRowsMove ==
  ASSUME TypeOK, NEW d \in Delegation, JobNext(d)
  PROVE  RowsMove
<1>1. row[d] \in Row /\ turns \in [Delegation -> Nat]
  BY DEF TypeOK
<1>2. CASE UNCHANGED <<row, turns>>
  BY <1>2, UnchangedRowsMove
<1>3. ASSUME NEW o \in Terminal
      PROVE  Settled(row[d], o).state = o /\ ~Settled(row[d], o).intent
  BY <1>1 DEF Settled, Row
<1>4. CASE Heartbeat(d) /\ Fenced(d)
  <2>1. Renewed(row[d]).state = row[d].state /\ Renewed(row[d]).intent = row[d].intent
    BY <1>1 DEF Renewed, Row
  <2>2. turns' = turns /\ row' = [row EXCEPT ![d] = Renewed(row[d])]
    BY <1>4 DEF Heartbeat
  <2> QED
    BY <2>1, <2>2, OneRowMoves DEF Moves, Rests
<1>5. CASE Commit(d) /\ Committable(d)
  <2>1. row[d].state = "running" /\ ~row[d].intent
    BY <1>5 DEF Committable, Fenced
  <2>2. CASE job[d].exit = "ok"
    <3>1. row' = [row EXCEPT ![d] = Settled(row[d], "completed")]
          /\ turns' = [turns EXCEPT ![d] = @ + 1]
      BY <1>5, <2>2 DEF Commit, EndWith
    <3>2. turns'[d] = turns[d] + 1
      BY <1>1, <3>1
    <3>3. Moves(row[d], turns[d], Settled(row[d], "completed"), turns'[d])
      BY <1>3, <2>1, <3>2 DEF Moves, Succeeds, Terminal
    <3> QED
      BY <3>1, <3>3, OneRowMoves
  <2>3. CASE job[d].exit # "ok"
    <3>1. row' = [row EXCEPT ![d] = Settled(row[d], "failed")] /\ turns' = turns
      BY <1>5, <2>3 DEF Commit, EndWith
    <3>2. Moves(row[d], turns[d], Settled(row[d], "failed"), turns'[d])
      BY <1>3, <2>1, <3>1 DEF Moves, GivesUp, Terminal
    <3> QED
      BY <3>1, <3>2, OneRowMoves
  <2> QED
    BY <2>2, <2>3
<1>6. CASE FinishCancelled(d) /\ row' # row
  <2>1. row' = [row EXCEPT ![d] = Settled(row[d], "cancelled")] /\ turns' = turns
        /\ row[d].state = "running" /\ row[d].intent
    BY <1>6 DEF FinishCancelled, Abandon, EndWith, Fenced
  <2>2. Moves(row[d], turns[d], Settled(row[d], "cancelled"), turns'[d])
    BY <1>3, <2>1 DEF Moves, Cancels, Terminal
  <2> QED
    BY <2>1, <2>2, OneRowMoves
<1> QED
  BY <1>2, <1>4, <1>5, <1>6
  DEF JobNext, JobLoad, ExecutionEnds, ReceiveSignal, Poll, Heartbeat, JobStoreError,
      Decide, Commit, CommitStoreError, Reload, FinishCancelled, Abandon, database

LEMMA OperatorRowsMove ==
  ASSUME TypeOK, IntentOK, RequestOK, OperatorNext
  PROVE  RowsMove
<1>1. CASE UNCHANGED <<row, turns>>
  BY <1>1, UnchangedRowsMove
<1> DEFINE d == request.id
<1>2. request.pc = "cancel" =>
        d \in Delegation /\ row[d] \in Row /\ IntentOfRunning(row[d]) /\ row[d].intent \in BOOLEAN
  BY DEF RequestOK, IntentOK, TypeOK, Row
<1>3. CASE OpCancelPending
  <2> DEFINE q == Settled(row[d], "cancelled")
  <2>1. d \in Delegation /\ row[d] \in Row /\ row[d].state = "pending" /\ ~row[d].intent
    BY <1>2, <1>3 DEF OpCancelPending, Pending, IntentOfRunning
  <2>2. q.state = "cancelled" /\ ~q.intent
    BY <2>1 DEF Settled, Row
  <2>3. row' = [row EXCEPT ![d] = q] /\ turns' = turns
    BY <1>3 DEF OpCancelPending
  <2> HIDE DEF q, d
  <2>4. Moves(row[d], turns[d], q, turns'[d])
    BY <2>1, <2>2, <2>3 DEF Moves, Cancels
  <2> QED
    BY <2>1, <2>3, <2>4, OneRowMoves
<1>4. CASE OpCancelRunning /\ row' # row
  <2> DEFINE q == [row[d] EXCEPT !.intent = TRUE]
  <2>1. d \in Delegation /\ row[d] \in Row /\ row[d].state = "running" /\ row[d].intent \in BOOLEAN
    BY <1>2, <1>4 DEF OpCancelRunning, Running
  <2>2. q.state = "running" /\ q.intent /\ q.intent \in BOOLEAN
    BY <2>1 DEF Row
  <2>3. row' = [row EXCEPT ![d] = q] /\ turns' = turns
    BY <1>4 DEF OpCancelRunning
  <2> HIDE DEF q, d
  <2>4. CASE ~row[d].intent
    BY <2>1, <2>2, <2>3, <2>4, OneRowMoves DEF Moves, Requests
  <2>5. CASE row[d].intent
    <3>1. q.intent = row[d].intent
      BY <2>1, <2>2, <2>5
    <3> QED
      BY <2>1, <2>2, <2>3, <3>1, OneRowMoves DEF Moves, Rests
  <2> QED
    BY <2>4, <2>5
<1> QED
  BY <1>1, <1>3, <1>4
  DEF OperatorNext, OpStart, OpLoad, OpConflict, OpCancelRunning, OpSignal, OpStoreError, database

LEMMA NextRowsMove ==
  ASSUME TypeOK, IntentOK, RequestOK, [Next]_vars
  PROVE  RowsMove
<1>1. CASE UNCHANGED <<row, turns>>
  BY <1>1, UnchangedRowsMove
<1>2. ASSUME NEW d \in Delegation, Accept(d) PROVE RowsMove
  <2> DEFINE q == [row[d] EXCEPT !.state = "pending", !.gen = 1]
  <2>1. row[d] \in Row /\ row[d].state = "absent" /\ ~row[d].intent
    BY <1>2 DEF Accept, TypeOK, IntentOK, IntentOfRunning
  <2>2. q.state = "pending" /\ ~q.intent
    BY <2>1 DEF Row
  <2>3. row' = [row EXCEPT ![d] = q] /\ turns' = turns
    BY <1>2 DEF Accept
  <2> HIDE DEF q
  <2> QED
    BY <2>1, <2>2, <2>3, OneRowMoves DEF Moves, Accepts
<1>3. CASE Tick
  <2>1. turns' = turns
    BY <1>3 DEF Tick
  <2>2. ASSUME NEW d \in Delegation
        PROVE  row'[d].state = row[d].state /\ row'[d].intent = row[d].intent
    BY <1>3 DEF Tick, TypeOK, Row
  <2> QED
    BY <2>1, <2>2 DEF RowsMove, Moves, Rests
<1>4. CASE Restart
  <2>1. row' = [d \in Delegation |-> Reconciled(d, Running)] /\ turns' = turns
    BY <1>4 DEF Restart, RestartedRow
  <2> QED
    BY <2>1, ReconciledMoves
<1> QED
  BY <1>1, <1>2, <1>3, <1>4, LoopRowsMove, JobRowsMove, OperatorRowsMove
  DEF Next, ForeignTurn, Crash, vars, database

\* The turn comes with the success, and nothing else brings one.
LEMMA TurnsKept ==
  ASSUME TypeOK, TypeOK', ChildTurnIffCompleted, RowsMove
  PROVE  ChildTurnIffCompleted'
<1> SUFFICES ASSUME NEW d \in Delegation
             PROVE  turns'[d] = IF row'[d].state = "completed" THEN 1 ELSE 0
  BY DEF ChildTurnIffCompleted
<1>1. turns[d] = IF row[d].state = "completed" THEN 1 ELSE 0
  BY DEF ChildTurnIffCompleted
<1>2. Moves(row[d], turns[d], row'[d], turns'[d])
  BY DEF RowsMove
<1> QED
  BY <1>1, <1>2
  DEF Moves, Accepts, Dispatches, Requests, Succeeds, GivesUp, Cancels, Rests

LEMMA InitRefines == Init => Lifecycle!Init /\ ChildTurnIffCompleted
<1> SUFFICES ASSUME Init PROVE Lifecycle!Init /\ ChildTurnIffCompleted
  OBVIOUS
<1>1. ChildTurnIffCompleted
  BY DEF Init, NoRow, ChildTurnIffCompleted
<1>2. ASSUME NEW d \in Delegation PROVE PromiseOf(row[d], turns[d]) = Lifecycle!Unaccepted
  BY DEF Init, NoRow, PromiseOf, Terminal, Lifecycle!Unaccepted
<1> QED
  BY <1>1, <1>2 DEF Lifecycle!Init

LEMMA StepRefines ==
  ASSUME Inv, ChildTurnIffCompleted, Inv', [Next]_vars
  PROVE  /\ ChildTurnIffCompleted'
         /\ [Lifecycle!Next]_([d \in Delegation |-> PromiseOf(row[d], turns[d])])
<1>1. RowsMove
  BY NextRowsMove DEF Inv
<1>2. ChildTurnIffCompleted'
  BY <1>1, TurnsKept DEF Inv
<1>3. ASSUME NEW d \in Delegation
      PROVE  \/ PromiseOf(row'[d], turns'[d]) = PromiseOf(row[d], turns[d])
             \/ Lifecycle!Advance(PromiseOf(row[d], turns[d]), PromiseOf(row'[d], turns'[d]))
  <2>1. row[d] \in Row /\ row'[d] \in Row /\ turns[d] \in Nat
    BY DEF Inv, TypeOK
  <2>2. row[d].state # "completed" => turns[d] = 0
    BY DEF ChildTurnIffCompleted
  <2>3. Moves(row[d], turns[d], row'[d], turns'[d])
    BY <1>1 DEF RowsMove
  <2> QED
    BY <2>1, <2>2, <2>3, MovesAdvance
<1>4. Lifecycle!Next
  BY <1>3 DEF Lifecycle!Next
<1> QED
  BY <1>2, <1>4

(* The child of a delegation holds the delegated turn exactly when the     *)
(* delegation completed, whatever the process does and whenever it dies:   *)
(* it completes work through complete_child alone.                         *)
THEOREM ChildTurnExact == Spec => []ChildTurnIffCompleted
<1>1. Inv /\ ChildTurnIffCompleted /\ Inv' /\ [Next]_vars => ChildTurnIffCompleted'
  BY StepRefines
<1> QED
  BY InitRefines, SpecInv, <1>1, PTL DEF Spec

(* The whole process, with its loop, jobs, cancellations, crashes and      *)
(* restarts, does to each delegation only what DelegationLifecycle         *)
(* promises: one dispatch, one outcome, a turn of the child only with      *)
(* success, and running work cancelled only on request.                    *)
THEOREM SupervisorImplementsLifecycle == Spec => ImplementsLifecycle
<1>1. Inv /\ ChildTurnIffCompleted /\ Inv' /\ [Next]_vars
        => ChildTurnIffCompleted' /\ [Lifecycle!Next]_([d \in Delegation |-> PromiseOf(row[d], turns[d])])
  BY StepRefines
<1> QED
  BY InitRefines, SpecInv, <1>1, PTL DEF Spec, ImplementsLifecycle, Lifecycle!Spec
=============================================================================

------------------------- MODULE BackgroundSupervisor -------------------------
(***************************************************************************)
(* The gateway process that runs background delegations: the supervisor    *)
(* loop, one job per claimed delegation, the gateway task that cancels on  *)
(* request, and the live signal between the two.  Jobs, loop and gateway   *)
(* task run in parallel and share only the database and a locked map of    *)
(* signal channels; a crash loses everything but the database.             *)
(*                                                                         *)
(* DelegationStore models the store's methods one by one under arbitrary   *)
(* caller clocks.  Here there is one clock, so a lease is the number of    *)
(* ticks it has left, and a row shows only what these callers test.        *)
(***************************************************************************)
EXTENDS Naturals, FiniteSets

CONSTANTS
  Delegation,
  LeaseTicks,   \* lease duration over heartbeat interval, 3 in the code
  CancelTries,  \* attempts of one cancellation request, 3 in the code
  GenBound,     \* bound: no heartbeat moves a generation past this
  CrashBound    \* bound: how often the process may die

ASSUME LeaseAssumption == LeaseTicks \in Nat \ {0}
ASSUME TriesAssumption == CancelTries \in Nat \ {0}
ASSUME BoundAssumption == GenBound \in Nat /\ CrashBound \in Nat

VARIABLES
  row,       \* database: what the delegations table says
  foreign,   \* database: another writer appended to the child session
  turns,     \* database: turns complete_child appended to the child session
  up,        \* a gateway process holds the exclusive lease
  loop,      \* the supervisor loop: where it is, what its scan left to claim
  job,       \* the task executing each claimed delegation
  channels,  \* registered signal channels, BackgroundControl.cancellations
  sent,      \* channels whose signal was sent and not yet received
  request,   \* the cancellation the gateway task is working on
  agreed,    \* history: delegations whose cancellation a client was promised
  started,   \* history: how often a job began executing the delegation
  crashes

database == <<row, foreign, turns>>
process  == <<up, loop, job, channels, sent, request>>
vars     == <<database, process, agreed, started, crashes>>

Terminal == {"completed", "failed", "cancelled", "outcome_unknown"}

Row == [state : {"absent", "pending", "running"} \cup Terminal, gen : Nat,
        intent : BOOLEAN, left : 0 .. LeaseTicks]

\* "registering" names the delegation claimed but not yet given to a job.
Loop == [pc : {"down", "reconcile", "scan", "claim"},
         todo : SUBSET [id : Delegation, gen : Nat],
         registering : SUBSET Delegation]

Job == [pc : {"none", "load", "run", "decide", "commit", "reload", "cancel"},
        gen : Nat, exit : {"none", "ok", "error", "cancel"}, late : BOOLEAN]

Request == [pc : {"idle", "load", "cancel", "signal"}, id : Delegation \cup {"none"},
            gen : Nat, tries : 0 .. CancelTries - 1]

NoRow     == [state |-> "absent", gen |-> 0, intent |-> FALSE, left |-> 0]
Down      == [pc |-> "down", todo |-> {}, registering |-> {}]
Awake     == [Down EXCEPT !.pc = "reconcile"]
NoJob     == [pc |-> "none", gen |-> 0, exit |-> "none", late |-> FALSE]
NoRequest == [pc |-> "idle", id |-> "none", gen |-> 0, tries |-> 0]

Init ==
  /\ row = [d \in Delegation |-> NoRow]
  /\ foreign = [d \in Delegation |-> FALSE]
  /\ turns = [d \in Delegation |-> 0]
  /\ up = TRUE
  /\ loop = Awake
  /\ job = [d \in Delegation |-> NoJob]
  /\ channels = {} /\ sent = {}
  /\ request = NoRequest
  /\ agreed = {}
  /\ started = [d \in Delegation |-> 0]
  /\ crashes = 0

-----------------------------------------------------------------------------
(* The rows the store's methods leave behind (see DelegationStore).        *)

Settled(r, o) == [r EXCEPT !.state = o, !.gen = @ + 1, !.intent = FALSE, !.left = 0]

Claimed(r) == [r EXCEPT !.state = "running", !.gen = @ + 1, !.left = LeaseTicks]
Renewed(r) == [r EXCEPT !.gen = @ + 1, !.left = LeaseTicks]

\* Seeded fault: an abandoned run never honours a persisted cancellation.
UnknownOutcome(r) == "outcome_unknown"

ReconciliationOutcome(r) == IF r.intent THEN "cancelled" ELSE "outcome_unknown"

Reconciled(d, abandoned) ==
  IF d \in abandoned THEN Settled(row[d], ReconciliationOutcome(row[d])) ELSE row[d]

\* A worker's write is accepted while its generation and its lease hold.
Fenced(d) ==
  row[d].state = "running" /\ row[d].gen = job[d].gen /\ row[d].left > 0

Pending == {d \in Delegation : row[d].state = "pending"}
Running == {d \in Delegation : row[d].state = "running"}

-----------------------------------------------------------------------------
(* A parent turn delegates; another client writes to the child session;    *)
(* time passes.                                                            *)

Accept(d) ==
  /\ up
  /\ row[d].state = "absent"
  /\ row' = [row EXCEPT ![d] = [@ EXCEPT !.state = "pending", !.gen = 1]]
  /\ UNCHANGED <<foreign, turns, process, agreed, started, crashes>>

ForeignTurn(d) ==
  /\ row[d].state \in {"pending", "running"}
  /\ ~foreign[d]
  /\ foreign' = [foreign EXCEPT ![d] = TRUE]
  /\ UNCHANGED <<row, turns, process, agreed, started, crashes>>

Tick ==
  /\ \E d \in Running : row[d].left > 0
  /\ row' = [d \in Delegation |->
       IF row[d].left > 0 THEN [row[d] EXCEPT !.left = @ - 1] ELSE row[d]]
  /\ UNCHANGED <<foreign, turns, process, agreed, started, crashes>>

-----------------------------------------------------------------------------
(* The supervisor loop.                                                    *)

\* Seeded fault: the loop only looks for pending work.
SkipReconcile ==
  /\ loop.pc = "reconcile"
  /\ loop' = [loop EXCEPT !.pc = "scan"]
  /\ UNCHANGED <<database, up, job, channels, sent, request, agreed, started, crashes>>

ReconcileExpired ==
  /\ loop.pc = "reconcile"
  /\ row' = [d \in Delegation |-> Reconciled(d, {e \in Running : row[e].left = 0})]
  /\ loop' = [loop EXCEPT !.pc = "scan"]
  /\ UNCHANGED <<foreign, turns, up, job, channels, sent, request, agreed, started, crashes>>

Scan ==
  /\ loop.pc = "scan"
  /\ loop' = [loop EXCEPT !.pc = "claim",
       !.todo = {[id |-> d, gen |-> row[d].gen] : d \in Pending}]
  /\ UNCHANGED <<database, up, job, channels, sent, request, agreed, started, crashes>>

\* Any store error sends the loop back to sleep with nothing claimed.
LoopStoreError ==
  /\ loop.pc \in {"reconcile", "scan"}
  /\ loop' = Awake
  /\ UNCHANGED <<database, up, job, channels, sent, request, agreed, started, crashes>>

\* Seeded fault: the claim trusts the scan and does not look at the row.
ClaimableBlindly(p) == row[p.id].state # "absent"

Claimable(p) == row[p.id].state = "pending" /\ row[p.id].gen = p.gen

ClaimDelegation(p) ==
  /\ loop.pc = "claim" /\ loop.registering = {} /\ p \in loop.todo
  /\ Claimable(p)
  /\ row' = [row EXCEPT ![p.id] = Claimed(@)]
  /\ loop' = [loop EXCEPT !.todo = @ \ {p}, !.registering = {p.id}]
  /\ UNCHANGED <<foreign, turns, up, job, channels, sent, request, agreed, started, crashes>>

\* A refused or failed claim is skipped until some later scan.
ClaimFails(p) ==
  /\ loop.pc = "claim" /\ loop.registering = {} /\ p \in loop.todo
  /\ loop' = [loop EXCEPT !.todo = @ \ {p}]
  /\ UNCHANGED <<database, up, job, channels, sent, request, agreed, started, crashes>>

\* The channel exists only some time after the claim has committed.
Register(d) ==
  /\ d \in loop.registering
  /\ channels' = channels \cup {d}
  /\ job' = [job EXCEPT ![d] = [NoJob EXCEPT !.pc = "load", !.gen = row[d].gen]]
  /\ loop' = [loop EXCEPT !.registering = {}]
  /\ UNCHANGED <<database, up, sent, request, agreed, started, crashes>>

Sleep ==
  /\ loop.pc = "claim" /\ loop.todo = {} /\ loop.registering = {}
  /\ loop' = Awake
  /\ UNCHANGED <<database, up, job, channels, sent, request, agreed, started, crashes>>

-----------------------------------------------------------------------------
(* One job: execute_claim, then finish_execution.                          *)

At(d, pc) == job[d].pc = pc

\* The task ends without a terminal; reconciliation will have to settle it.
Abandon(d) ==
  /\ job' = [job EXCEPT ![d] = NoJob]
  /\ channels' = channels \ {d}
  /\ sent' = sent \ {d}
  /\ UNCHANGED row

Exit(d, how) ==
  job' = [job EXCEPT ![d] = [@ EXCEPT !.exit = how,
            !.pc = IF how = "cancel" THEN "cancel" ELSE "decide"]]

\* The task ends having settled its row.
EndWith(d, outcome) ==
  /\ row' = [row EXCEPT ![d] = Settled(@, outcome)]
  /\ job' = [job EXCEPT ![d] = NoJob]
  /\ channels' = channels \ {d}
  /\ sent' = sent \ {d}

JobLoad(d) ==
  /\ At(d, "load")
  /\ IF foreign[d]
     THEN Abandon(d) /\ UNCHANGED started
     ELSE /\ job' = [job EXCEPT ![d].pc = "run"]
          /\ started' = [started EXCEPT ![d] = @ + 1]
          /\ UNCHANGED <<row, channels, sent>>
  /\ UNCHANGED <<foreign, turns, up, loop, request, agreed, crashes>>

ExecutionEnds(d, how) ==
  /\ At(d, "run")
  /\ Exit(d, how)
  /\ UNCHANGED <<database, up, loop, channels, sent, request, agreed, started, crashes>>

ReceiveSignal(d) ==
  /\ At(d, "run") /\ d \in sent
  /\ sent' = sent \ {d}
  /\ Exit(d, "cancel")
  /\ UNCHANGED <<database, up, loop, channels, request, agreed, started, crashes>>

Poll(d) ==
  /\ At(d, "run") /\ d \in Running /\ row[d].intent
  /\ Exit(d, "cancel")
  /\ UNCHANGED <<database, up, loop, channels, sent, request, agreed, started, crashes>>

Heartbeat(d) ==
  /\ At(d, "run") /\ row[d].left < LeaseTicks
  /\ IF Fenced(d)
     THEN /\ row[d].gen < GenBound
          /\ row' = [row EXCEPT ![d] = Renewed(@)]
          /\ job' = [job EXCEPT ![d] =
               IF row[d].intent
               THEN [@ EXCEPT !.gen = row[d].gen + 1, !.exit = "cancel", !.pc = "cancel"]
               ELSE [@ EXCEPT !.gen = row[d].gen + 1]]
          /\ UNCHANGED <<channels, sent>>
     ELSE Abandon(d)
  /\ UNCHANGED <<foreign, turns, up, loop, request, agreed, started, crashes>>

\* Opening, reading or writing the database fails, or the loop aborts it.
JobStoreError(d) ==
  /\ job[d].pc # "none"
  /\ Abandon(d)
  /\ UNCHANGED <<foreign, turns, up, loop, request, agreed, started, crashes>>

\* The result is known; a cancellation recorded meanwhile takes precedence.
Decide(d) ==
  /\ At(d, "decide")
  /\ job' = [job EXCEPT ![d].pc =
       IF d \in Running /\ row[d].intent THEN "cancel" ELSE "commit"]
  /\ UNCHANGED <<database, up, loop, channels, sent, request, agreed, started, crashes>>

Committable(d) ==
  Fenced(d) /\ ~row[d].intent /\ (job[d].exit = "ok" => ~foreign[d])

Commit(d) ==
  /\ At(d, "commit")
  /\ IF Committable(d)
     THEN IF job[d].exit = "ok"
          THEN /\ EndWith(d, "completed")
               /\ turns' = [turns EXCEPT ![d] = @ + 1]
          ELSE EndWith(d, "failed") /\ UNCHANGED turns
     ELSE /\ job' = [job EXCEPT ![d].pc = "reload"]
          /\ UNCHANGED <<row, turns, channels, sent>>
  /\ UNCHANGED <<foreign, up, loop, request, agreed, started, crashes>>

CommitStoreError(d) ==
  /\ At(d, "commit")
  /\ job' = [job EXCEPT ![d].pc = "reload"]
  /\ UNCHANGED <<database, up, loop, channels, sent, request, agreed, started, crashes>>

\* A refused commit may have lost to a cancellation: then cancel, under the
\* authority the row shows now and with a fresh timestamp.
Reload(d) ==
  /\ At(d, "reload")
  /\ IF d \in Running /\ row[d].intent
     THEN /\ job' = [job EXCEPT ![d] =
               [@ EXCEPT !.pc = "cancel", !.gen = row[d].gen, !.late = FALSE]]
          /\ UNCHANGED <<row, channels, sent>>
     ELSE Abandon(d)
  /\ UNCHANGED <<foreign, turns, up, loop, request, agreed, started, crashes>>

FinishCancelled(d) ==
  /\ At(d, "cancel")
  /\ IF Fenced(d) /\ row[d].intent /\ ~job[d].late
     THEN EndWith(d, "cancelled")
     ELSE Abandon(d)
  /\ UNCHANGED <<foreign, turns, up, loop, request, agreed, started, crashes>>

-----------------------------------------------------------------------------
(* The gateway task serving delegation.cancel.                             *)

Reply == request' = NoRequest

OpStart(d) ==
  /\ up /\ request.pc = "idle"
  /\ row[d].state # "absent"
  /\ request' = [NoRequest EXCEPT !.pc = "load", !.id = d]
  /\ UNCHANGED <<database, up, loop, job, channels, sent, agreed, started, crashes>>

OpLoad ==
  LET d == request.id
  IN /\ request.pc = "load"
     /\ IF row[d].state \in Terminal
        THEN Reply
        ELSE request' = [request EXCEPT !.gen = row[d].gen,
               !.pc = IF row[d].intent THEN "signal" ELSE "cancel"]
     /\ UNCHANGED <<database, up, loop, job, channels, sent, agreed, started, crashes>>

\* Seeded fault: one attempt too many.
OpConflictOnceMore ==
  /\ request.pc = "cancel" /\ row[request.id].gen # request.gen
  /\ request' = IF request.tries < CancelTries
                THEN [request EXCEPT !.pc = "load", !.tries = @ + 1]
                ELSE NoRequest
  /\ UNCHANGED <<database, up, loop, job, channels, sent, agreed, started, crashes>>

\* After a generation conflict the request starts over, a few times.
OpConflict ==
  /\ request.pc = "cancel" /\ row[request.id].gen # request.gen
  /\ request' = IF request.tries + 1 < CancelTries
                THEN [request EXCEPT !.pc = "load", !.tries = @ + 1]
                ELSE NoRequest
  /\ UNCHANGED <<database, up, loop, job, channels, sent, agreed, started, crashes>>

OpCancelPending ==
  LET d == request.id
  IN /\ request.pc = "cancel" /\ row[d].gen = request.gen /\ d \in Pending
     /\ row' = [row EXCEPT ![d] = Settled(@, "cancelled")]
     /\ request' = [request EXCEPT !.pc = "signal"]
     /\ UNCHANGED <<foreign, turns, up, loop, job, channels, sent, agreed, started, crashes>>

\* A job that has taken its completion timestamp but not yet looked at the
\* row may find the request later than that timestamp.
OpCancelRunning ==
  LET d == request.id
  IN /\ request.pc = "cancel" /\ row[d].gen = request.gen /\ d \in Running
     /\ IF row[d].left > 0
        THEN /\ row' = [row EXCEPT ![d].intent = TRUE]
             /\ request' = [request EXCEPT !.pc = "signal"]
             /\ \E late \in IF At(d, "decide") THEN BOOLEAN ELSE {FALSE} :
                  job' = [job EXCEPT ![d].late = late]
        ELSE Reply /\ UNCHANGED <<row, job>>
     /\ UNCHANGED <<foreign, turns, up, loop, channels, sent, agreed, started, crashes>>

\* The channel is consumed; the client is told the request was accepted.
OpSignal ==
  LET d == request.id
  IN /\ request.pc = "signal"
     /\ sent' = sent \cup ({d} \cap channels)
     /\ channels' = channels \ {d}
     /\ agreed' = agreed \cup {d}
     /\ Reply
     /\ UNCHANGED <<database, up, loop, job, started, crashes>>

OpStoreError ==
  /\ request.pc \in {"load", "cancel"}
  /\ Reply
  /\ UNCHANGED <<database, up, loop, job, channels, sent, agreed, started, crashes>>

-----------------------------------------------------------------------------
(* Process death and restart.                                              *)

Crash ==
  /\ up /\ crashes < CrashBound
  /\ up' = FALSE
  /\ loop' = Down
  /\ job' = [d \in Delegation |-> NoJob]
  /\ channels' = {} /\ sent' = {}
  /\ request' = NoRequest
  /\ crashes' = crashes + 1
  /\ UNCHANGED <<database, agreed, started>>

\* Seeded fault: work abandoned by the previous process is queued again.
Requeued(d) ==
  IF d \in Running
  THEN [row[d] EXCEPT !.state = "pending", !.gen = @ + 1, !.intent = FALSE, !.left = 0]
  ELSE row[d]

RestartedRow(d) == Reconciled(d, Running)

\* The new owner settles everything its predecessor left running before it
\* serves a request.
Restart ==
  /\ ~up
  /\ up' = TRUE
  /\ row' = [d \in Delegation |-> RestartedRow(d)]
  /\ loop' = Awake
  /\ UNCHANGED <<foreign, turns, job, channels, sent, request, agreed, started, crashes>>

-----------------------------------------------------------------------------
LoopNext ==
  \/ ReconcileExpired
  \/ Scan
  \/ LoopStoreError
  \/ \E p \in loop.todo : ClaimDelegation(p) \/ ClaimFails(p)
  \/ \E d \in Delegation : Register(d)
  \/ Sleep

JobNext(d) ==
  \/ JobLoad(d)
  \/ \E how \in {"ok", "error"} : ExecutionEnds(d, how)
  \/ ReceiveSignal(d)
  \/ Poll(d)
  \/ Heartbeat(d)
  \/ JobStoreError(d)
  \/ Decide(d)
  \/ Commit(d)
  \/ CommitStoreError(d)
  \/ Reload(d)
  \/ FinishCancelled(d)

OperatorNext ==
  \/ \E d \in Delegation : OpStart(d)
  \/ OpLoad
  \/ OpConflict
  \/ OpCancelPending
  \/ OpCancelRunning
  \/ OpSignal
  \/ OpStoreError

Next ==
  \/ \E d \in Delegation : Accept(d) \/ ForeignTurn(d) \/ JobNext(d)
  \/ Tick
  \/ LoopNext
  \/ OperatorNext
  \/ Crash
  \/ Restart

Spec == Init /\ [][Next]_vars

\* The loop and its store calls keep being retried and do not fail for ever,
\* time passes, a task that can move moves, a dead gateway is started again.
\* Nothing is assumed of the model provider: an execution may never end.
Fairness ==
  /\ SF_vars(ReconcileExpired) /\ SF_vars(Scan) /\ WF_vars(Sleep)
  /\ WF_vars(\E p \in loop.todo : ClaimDelegation(p) \/ ClaimFails(p))
  /\ \A d \in Delegation :
       /\ SF_vars(\E p \in loop.todo : p.id = d /\ ClaimDelegation(p))
       /\ WF_vars(Register(d)) /\ WF_vars(JobLoad(d)) /\ WF_vars(Poll(d))
       /\ WF_vars(Decide(d)) /\ WF_vars(Commit(d)) /\ WF_vars(Reload(d))
       /\ WF_vars(FinishCancelled(d))
  /\ WF_vars(Tick) /\ WF_vars(Restart)

FairSpec == Spec /\ Fairness

-----------------------------------------------------------------------------
(* Properties.                                                             *)

\* Types; a cancellation request makes no more attempts than it may
\* (cancel_delegation's loop).
TypeOK ==
  /\ row \in [Delegation -> Row]
  /\ foreign \in [Delegation -> BOOLEAN]
  /\ turns \in [Delegation -> Nat]
  /\ up \in BOOLEAN
  /\ loop \in Loop
  /\ job \in [Delegation -> Job]
  /\ channels \subseteq Delegation /\ sent \subseteq Delegation
  /\ request \in Request
  /\ agreed \subseteq Delegation
  /\ started \in [Delegation -> Nat]
  /\ crashes \in Nat

\* A child is executed at most once, across crashes, restarts, expired leases
\* and retried scans; work still pending was never executed (supervise,
\* run_gateway's reconciliation, execute_claim).
ExecutedAtMostOnce ==
  \A d \in Delegation :
    /\ started[d] <= 1
    /\ d \in Pending => started[d] = 0

\* Once a client has been told its cancellation was accepted, the delegation
\* is cancelled, or is still running with the request on record: it can no
\* longer complete, fail, be queued again or be dispatched
\* (cancel_delegation racing supervise and finish_execution).
AgreedCancelHonoured ==
  \A d \in agreed :
    \/ row[d].state = "cancelled"
    \/ d \in Running /\ row[d].intent

\* Accepted work is claimed or settled in the end, through crashes, failed
\* scans and lost claims (supervise).
PendingIsClaimed ==
  \A d \in Delegation : d \in Pending ~> d \notin Pending

\* A recorded cancellation ends in a cancelled delegation, also when the
\* signal finds no channel, the task is lost or the process dies (Poll,
\* reconcile_expired, reconcile_running).
CancellationTakesEffect ==
  \A d \in Delegation :
    (d \in Running /\ row[d].intent) ~> row[d].state = "cancelled"

\* A running delegation that no task works on is settled in the end
\* (reconcile_expired in supervise's loop, reconcile_running at start).
AbandonedIsSettled ==
  \A d \in Delegation :
    (d \in Running /\ job[d].pc = "none" /\ d \notin loop.registering)
      ~> row[d].state \in Terminal

\* No accepted work is forgotten: pending work is claimed or cancelled, and
\* running work without a task is settled, through failed scans, lost claims,
\* lost tasks and crashes (supervise's loop, reconcile_running at start).
WorkIsSettled == PendingIsClaimed /\ AbandonedIsSettled

\* What the parent was promised of a delegation, read from its row.  A row is
\* terminal exactly when its completion is published (OutboxMatchesTerminal);
\* the model keeps no reason of a cancellation but that there is one.
PromiseOf(r, n) ==
  [life |-> r.state,
   intent |-> IF r.intent THEN "requested" ELSE "none",
   reason |-> IF r.state = "cancelled" THEN "requested" ELSE "none",
   turns |-> n,
   notice |-> IF r.state \in Terminal THEN "published" ELSE "none"]

Lifecycle == INSTANCE DelegationLifecycle
  WITH Reason <- {"requested"}, Null <- "none", TurnsOfSuccess <- {1},
       promise <- [d \in Delegation |-> PromiseOf(row[d], turns[d])]

\* The process completes a delegation through complete_child alone, so its child
\* holds the delegated turn exactly when the delegation completed, although the
\* store would also take a success without a turn (finish_execution).
ChildTurnIffCompleted ==
  \A d \in Delegation : turns[d] = IF row[d].state = "completed" THEN 1 ELSE 0

\* Through all its races, crashes and restarts the process does to each
\* delegation only what its lifecycle allows: one dispatch, one outcome, success
\* alone adds a turn, running work is cancelled only on request and, once
\* requested, not otherwise settled (supervise, finish_execution,
\* cancel_delegation, reconcile_running).
ImplementsLifecycle == Lifecycle!Spec

\* "Known failures ... atomically write the terminal and completion": a task
\* that refuses to execute because the child already has a transcript has
\* failed for a known reason, and says so in the row (execute_claim, whose
\* result supervise drops).
KnownFailureIsRecorded ==
  [][\A d \in Delegation :
       JobLoad(d) /\ job'[d].pc = "none" => row'[d].state \in Terminal]_vars

=============================================================================

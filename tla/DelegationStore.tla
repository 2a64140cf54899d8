--------------------------- MODULE DelegationStore ---------------------------
(***************************************************************************)
(* The SQLite repository of background delegations: one row per            *)
(* delegation, one outbox row per terminal delegation, the generation of   *)
(* the dedicated child session, and the authority each worker believes it  *)
(* holds.                                                                  *)
(*                                                                         *)
(* Every store method runs in one IMMEDIATE transaction, so each is one    *)
(* atomic step; a method whose checks fail rolls back and is no step.      *)
(* Callers hand in their own wall-clock reading, which may be stale or run *)
(* backwards: every action takes an arbitrary element of Timestamp.        *)
(***************************************************************************)
EXTENDS Naturals, FiniteSets

CONSTANTS
  Delegation,   \* delegation identities; each fixes its event and child ids
  Session,      \* parent sessions that already exist
  Worker,       \* supervisor processes that may claim a delegation
  Reason,       \* cancellation reasons
  Claim,        \* delivery claim ids, minted fresh for one attempt each
  Timestamp,    \* Unix milliseconds a caller may pass
  ChildTurnBound, \* bound: last child generation another writer may append at
  Null          \* SQL NULL in a column that is not a number

ASSUME TimestampAssumption == Timestamp \subseteq Nat
ASSUME ChildTurnBoundAssumption == ChildTurnBound \in Nat
ASSUME NullAssumption == Null \notin Session \cup Worker \cup Reason \cup Claim

VARIABLES
  delegations,  \* table delegations: one row per identity, "absent" if none
  completions,  \* table delegation_completions, the outbox
  childGen,     \* sessions.owner_generation of the child, 0 if no such row
  childTurns,   \* turns the delegation machinery appended to the child
  turnless,     \* history: delegations finish recorded as completed, with no turn
  dispatches,   \* history: how often the delegation was handed to a worker
  authority,    \* generation and fence each worker last read for its claim
  issued,       \* history: delivery claims handed out for the event
  accepted      \* history: delivery claims whose acknowledgement succeeded

rows    == <<delegations, childGen, childTurns>>
workers == <<turnless, dispatches, authority>>
outbox  == <<completions, issued, accepted>>
vars    == <<rows, workers, outbox>>

Terminal == {"completed", "failed", "cancelled", "outcome_unknown"}
State    == {"absent", "pending", "running"} \cup Terminal

\* A number column that SQL holds as NULL is 0: deadlines are later than
\* some timestamp, and 1 is the only fencing token a row can ever carry.
Row ==
  [state : State, gen : Nat, fence : {0, 1}, worker : Worker \cup {Null},
   lease : Nat, intent : Reason \cup {Null}, intentAt : Nat,
   reason : Reason \cup {Null}, parent : Session \cup {Null},
   created : Nat, updated : Nat]

Completion ==
  [state : {"absent", "pending", "delivered"},
   outcome : Terminal \cup {Null}, reason : Reason \cup {Null},
   created : Nat, claim : Claim \cup {Null}, expires : Nat]

Authority == [gen : Nat, fence : Nat]

NoRow ==
  [state |-> "absent", gen |-> 0, fence |-> 0, worker |-> Null, lease |-> 0,
   intent |-> Null, intentAt |-> 0, reason |-> Null, parent |-> Null,
   created |-> 0, updated |-> 0]

NoCompletion ==
  [state |-> "absent", outcome |-> Null, reason |-> Null, created |-> 0,
   claim |-> Null, expires |-> 0]

NoAuthority == [gen |-> 0, fence |-> 0]

Init ==
  /\ delegations = [d \in Delegation |-> NoRow]
  /\ completions = [d \in Delegation |-> NoCompletion]
  /\ childGen    = [d \in Delegation |-> 0]
  /\ childTurns  = [d \in Delegation |-> 0]
  /\ turnless    = {}
  /\ dispatches  = [d \in Delegation |-> 0]
  /\ authority   = [d \in Delegation |-> [w \in Worker |-> NoAuthority]]
  /\ issued      = [d \in Delegation |-> {}]
  /\ accepted    = [d \in Delegation |-> {}]

-----------------------------------------------------------------------------
(* The checks a method makes before it writes.                             *)

EnsureGeneration(d, g) == delegations[d].gen = g

EnsureRunningFence(d, f) ==
  /\ delegations[d].state = "running"
  /\ f > 0
  /\ delegations[d].fence = f

EnsureMonotonic(d, t)   == t >= delegations[d].updated
EnsureActiveLease(d, t) == t < delegations[d].lease
EnsureNoCancellation(d) == delegations[d].intent = Null

\* A stored cancellation request must lie within the row's lifetime; a row
\* that fails this can neither finish nor be reconciled.
CancellationReadable(d) ==
  LET row == delegations[d]
  IN row.intent = Null \/ (row.created <= row.intentAt /\ row.intentAt <= row.updated)

\* Seeded fault: the worker's terminal is not checked against the intent.
AnyTerminal(d, o, r) == o \in Terminal

\* A worker may cancel only what an operator asked to cancel, with that
\* reason, and once asked may do nothing else.
EnsureLegalTerminal(d, o, r) ==
  /\ CancellationReadable(d)
  /\ IF delegations[d].intent = Null
     THEN o # "cancelled"
     ELSE o = "cancelled" /\ r = delegations[d].intent

\* The four checks every fenced worker write shares.
OwnsLive(d, a, t) ==
  /\ EnsureGeneration(d, a.gen)
  /\ EnsureRunningFence(d, a.fence)
  /\ EnsureMonotonic(d, t)
  /\ EnsureActiveLease(d, t)

ReconciliationOutcome(d) ==
  IF delegations[d].intent # Null THEN "cancelled" ELSE "outcome_unknown"

-----------------------------------------------------------------------------
(* The row and outbox record a terminal write leaves behind.               *)

\* Every write but a cancellation request takes the next owner generation.
Touched(row, t) == [row EXCEPT !.gen = @ + 1, !.updated = t]

\* Seeded fault: a terminal write leaves the owner generation alone.
SettledSameGeneration(row, o, r, t) ==
  [row EXCEPT !.updated = t, !.state = o, !.lease = 0, !.intent = Null,
              !.intentAt = 0, !.reason = IF o = "cancelled" THEN r ELSE Null]

Settled(row, o, r, t) ==
  [Touched(row, t) EXCEPT
     !.state = o, !.lease = 0, !.intent = Null, !.intentAt = 0,
     !.reason = IF o = "cancelled" THEN r ELSE Null]

Published(o, r, t) ==
  [state |-> "pending", outcome |-> o,
   reason |-> IF o = "cancelled" THEN r ELSE Null,
   created |-> t, claim |-> Null, expires |-> 0]

\* Inserting an event a second time violates the outbox's primary key.
Unpublished(d) == completions[d].state = "absent"

\* Seeded fault: the terminal commits before, and without, its outbox row.
SettleWithoutOutbox(d, o, r, t) ==
  /\ Unpublished(d)
  /\ delegations' = [delegations EXCEPT ![d] = Settled(@, o, r, t)]
  /\ UNCHANGED completions

\* Terminal row and outbox row, in one transaction.
Settle(d, o, r, t) ==
  /\ Unpublished(d)
  /\ delegations' = [delegations EXCEPT ![d] = Settled(@, o, r, t)]
  /\ completions' = [completions EXCEPT ![d] = Published(o, r, t)]

-----------------------------------------------------------------------------
(* Acceptance.                                                             *)

Accepted(p, t) ==
  [NoRow EXCEPT !.state = "pending", !.gen = 1, !.parent = p,
                !.created = t, !.updated = t]

\* SessionStore::create for the identity of a future child.
CreateChildSession(d) ==
  /\ childGen[d] = 0
  /\ childGen' = [childGen EXCEPT ![d] = 1]
  /\ UNCHANGED <<delegations, childTurns, workers, outbox>>

Create(d, p, t) ==
  /\ delegations[d].state = "absent"
  /\ childGen[d] > 0
  /\ delegations' = [delegations EXCEPT ![d] = Accepted(p, t)]
  /\ UNCHANGED <<childGen, childTurns, workers, outbox>>

CreateWithChild(d, p, t) ==
  /\ delegations[d].state = "absent"
  /\ childGen[d] = 0
  /\ childGen' = [childGen EXCEPT ![d] = 1]
  /\ delegations' = [delegations EXCEPT ![d] = Accepted(p, t)]
  /\ UNCHANGED <<childTurns, workers, outbox>>

-----------------------------------------------------------------------------
(* Ownership by a worker.                                                  *)

\* Seeded fault: a running row may be claimed again by another worker.
Reclaimable(d) == delegations[d].state \in {"pending", "running"}

Claimable(d) == delegations[d].state = "pending"

Claimed(row, w, t, lease) ==
  [Touched(row, t) EXCEPT !.state = "running", !.fence = @ + 1, !.worker = w,
                          !.lease = lease]

ClaimDelegation(w, d, g, t, lease) ==
  /\ lease > t
  /\ EnsureGeneration(d, g)
  /\ EnsureMonotonic(d, t)
  /\ EnsureNoCancellation(d)
  /\ Claimable(d)
  /\ delegations' = [delegations EXCEPT ![d] = Claimed(@, w, t, lease)]
  /\ dispatches' = [dispatches EXCEPT ![d] = @ + 1]
  /\ authority' = [authority EXCEPT ![d][w] =
       [gen |-> delegations[d].gen + 1, fence |-> delegations[d].fence + 1]]
  /\ UNCHANGED <<childGen, childTurns, turnless, outbox>>

Renewed(row, t, lease) ==
  [Touched(row, t) EXCEPT !.lease = lease]

Heartbeat(w, d, t, lease) ==
  LET row == delegations[d]
      a   == authority[d][w]
  IN /\ lease > t
     /\ OwnsLive(d, a, t)
     /\ lease > row.lease
     /\ delegations' = [delegations EXCEPT ![d] = Renewed(@, t, lease)]
     /\ authority' = [authority EXCEPT ![d][w] =
          [gen |-> row.gen + 1, fence |-> a.fence]]
     /\ UNCHANGED <<childGen, childTurns, turnless, dispatches, outbox>>

\* After a lost race the claiming task reloads the row and, if it still
\* runs, continues under the generation and fence it finds there.
ReloadAuthority(w, d) ==
  /\ authority[d][w] # NoAuthority
  /\ delegations[d].state = "running"
  /\ authority' = [authority EXCEPT ![d][w] =
       [gen |-> delegations[d].gen, fence |-> delegations[d].fence]]
  /\ UNCHANGED <<rows, turnless, dispatches, outbox>>

-----------------------------------------------------------------------------
(* Terminals.                                                              *)

\* Cancelling pending work settles it; a fence of one keeps the row from
\* ever looking undispatched.
CancelledPending(row, r, t) ==
  [Touched(row, t) EXCEPT !.state = "cancelled", !.fence = 1, !.reason = r]

CancelPending(d, g, r, t) ==
  /\ EnsureGeneration(d, g)
  /\ EnsureMonotonic(d, t)
  /\ delegations[d].state = "pending"
  /\ Unpublished(d)
  /\ delegations' = [delegations EXCEPT ![d] = CancelledPending(@, r, t)]
  /\ completions' = [completions EXCEPT ![d] = Published("cancelled", r, t)]
  /\ UNCHANGED <<childGen, childTurns, workers, issued, accepted>>

\* Cancelling running work only records the intent; repeating the same
\* reason succeeds without a write, another reason is refused.
CancelRequested(row, r, t) ==
  [row EXCEPT !.intent = r, !.intentAt = t, !.updated = t]

\* Seeded fault: the request is recorded although the lease has run out.
CancelRunningLate(d, g, r, t) ==
  /\ EnsureGeneration(d, g)
  /\ EnsureMonotonic(d, t)
  /\ delegations[d].state = "running"
  /\ EnsureNoCancellation(d)
  /\ delegations' = [delegations EXCEPT ![d] = CancelRequested(@, r, t)]
  /\ UNCHANGED <<childGen, childTurns, workers, outbox>>

CancelRunning(d, g, r, t) ==
  /\ EnsureGeneration(d, g)
  /\ EnsureMonotonic(d, t)
  /\ delegations[d].state = "running"
  /\ EnsureActiveLease(d, t)
  /\ EnsureNoCancellation(d)
  /\ delegations' = [delegations EXCEPT ![d] = CancelRequested(@, r, t)]
  /\ UNCHANGED <<childGen, childTurns, workers, outbox>>

Cancel(d, g, r, t) == CancelPending(d, g, r, t) \/ CancelRunning(d, g, r, t)

\* The store takes every terminal from a worker, completed and unknown too; it
\* is CompleteChild that brings the turn of a success.
Finish(w, d, o, r, t) ==
  /\ OwnsLive(d, authority[d][w], t)
  /\ EnsureLegalTerminal(d, o, r)
  /\ Settle(d, o, r, t)
  /\ turnless' = turnless \cup (IF o = "completed" THEN {d} ELSE {})
  /\ UNCHANGED <<childGen, childTurns, dispatches, authority, issued, accepted>>

\* Seeded fault: the child turn is appended in a transaction of its own,
\* before the fenced terminal is attempted.
AppendChildFirst(w, d, cg, t) ==
  /\ EnsureRunningFence(d, authority[d][w].fence)
  /\ childGen[d] = cg
  /\ childGen' = [childGen EXCEPT ![d] = @ + 1]
  /\ childTurns' = [childTurns EXCEPT ![d] = @ + 1]
  /\ UNCHANGED <<delegations, workers, outbox>>

\* The child turn is appended at the generation the worker loaded, together
\* with the terminal and the outbox row.
CompleteChild(w, d, cg, t) ==
  /\ OwnsLive(d, authority[d][w], t)
  /\ EnsureLegalTerminal(d, "completed", Null)
  /\ childGen[d] = cg
  /\ childGen' = [childGen EXCEPT ![d] = @ + 1]
  /\ childTurns' = [childTurns EXCEPT ![d] = @ + 1]
  /\ Settle(d, "completed", Null, t)
  /\ UNCHANGED <<workers, issued, accepted>>

\* Another writer (a client that resumed the child session) appends a turn.
AppendForeignTurn(d) ==
  /\ childGen[d] \in 1 .. ChildTurnBound
  /\ childGen' = [childGen EXCEPT ![d] = @ + 1]
  /\ UNCHANGED <<delegations, childTurns, workers, outbox>>

\* Settle every member of S at once: one transaction, all or nothing, so a
\* single row that fails its checks keeps all the others running.
Reconcilable(d, t) ==
  EnsureMonotonic(d, t) /\ CancellationReadable(d) /\ Unpublished(d)

SettleAll(S, t) ==
  /\ \A d \in S : Reconcilable(d, t)
  /\ delegations' = [d \in Delegation |->
       IF d \in S
       THEN Settled(delegations[d], ReconciliationOutcome(d),
                    delegations[d].intent, t)
       ELSE delegations[d]]
  /\ completions' = [d \in Delegation |->
       IF d \in S
       THEN Published(ReconciliationOutcome(d), delegations[d].intent, t)
       ELSE completions[d]]
  /\ UNCHANGED <<childGen, childTurns, workers, issued, accepted>>

Running    == {d \in Delegation : delegations[d].state = "running"}
Expired(t) == {d \in Running : delegations[d].lease <= t}

ReconcileExpired(t) == Expired(t) # {} /\ SettleAll(Expired(t), t)
ReconcileRunning(t) == Running # {} /\ SettleAll(Running, t)

-----------------------------------------------------------------------------
(* Delivery of completions to the parent session.                          *)

\* Seeded fault: delivery does not look at who holds the claim, or whether
\* the event was delivered before.
DeliverableToAnyone(d, k, t) ==
  k \in issued[d] /\ completions[d].created <= t

Available(d, t) ==
  /\ completions[d].state = "pending"
  /\ completions[d].claim = Null \/ completions[d].expires <= t

ClaimCompletion(k, d, t, expires) ==
  /\ expires > t
  /\ \A e \in Delegation : k \notin issued[e]
  /\ Available(d, t)
  /\ completions' = [completions EXCEPT ![d] =
       [@ EXCEPT !.claim = k, !.expires = expires]]
  /\ issued' = [issued EXCEPT ![d] = @ \cup {k}]
  /\ UNCHANGED <<rows, workers, accepted>>

\* Only the current claim is honoured; its deadline is not looked at again.
Deliverable(d, k, t) ==
  /\ completions[d].state = "pending"
  /\ completions[d].claim = k
  /\ completions[d].created <= t

AcknowledgeCompletion(k, d, t) ==
  /\ k \in issued[d]
  /\ Deliverable(d, k, t)
  /\ completions' = [completions EXCEPT ![d] =
       [@ EXCEPT !.state = "delivered", !.claim = Null, !.expires = 0]]
  /\ accepted' = [accepted EXCEPT ![d] = @ \cup {k}]
  /\ UNCHANGED <<rows, workers, issued>>

ReleaseCompletion(k, d) ==
  /\ k \in issued[d]
  /\ completions[d].state = "pending"
  /\ completions[d].claim = k
  /\ completions' = [completions EXCEPT ![d] =
       [@ EXCEPT !.claim = Null, !.expires = 0]]
  /\ UNCHANGED <<rows, workers, issued, accepted>>

-----------------------------------------------------------------------------
\* A caller names the generation of some snapshot it loaded earlier.
SnapshotGeneration(d) == 1 .. delegations[d].gen

AcceptNext ==
  \E d \in Delegation :
    \/ CreateChildSession(d)
    \/ \E p \in Session, t \in Timestamp :
         Create(d, p, t) \/ CreateWithChild(d, p, t)

WorkerNext ==
  \E w \in Worker, d \in Delegation :
    \/ ReloadAuthority(w, d)
    \/ \E t \in Timestamp, lease \in Timestamp :
         \/ \E g \in SnapshotGeneration(d) : ClaimDelegation(w, d, g, t, lease)
         \/ Heartbeat(w, d, t, lease)
    \/ \E t \in Timestamp, o \in Terminal, r \in Reason :
         Finish(w, d, o, r, t)
    \/ \E t \in Timestamp, cg \in 1 .. childGen[d] : CompleteChild(w, d, cg, t)

OperatorNext ==
  \E d \in Delegation, r \in Reason, t \in Timestamp :
    \E g \in SnapshotGeneration(d) : Cancel(d, g, r, t)

ReconcileNext ==
  \E t \in Timestamp : ReconcileExpired(t) \/ ReconcileRunning(t)

DeliveryNext ==
  \E d \in Delegation, k \in Claim :
    \/ ReleaseCompletion(k, d)
    \/ \E t \in Timestamp :
         \/ AcknowledgeCompletion(k, d, t)
         \/ \E expires \in Timestamp : ClaimCompletion(k, d, t, expires)

ForeignNext == \E d \in Delegation : AppendForeignTurn(d)

Next ==
  \/ AcceptNext
  \/ WorkerNext
  \/ OperatorNext
  \/ ReconcileNext
  \/ DeliveryNext
  \/ ForeignNext

Spec == Init /\ [][Next]_vars

-----------------------------------------------------------------------------
(* Properties.                                                             *)

\* Every table and history has its type; in particular no row ever carries a
\* second fencing token (src/apps/hermesd/src/adapters/sqlite_delegation.rs, claim).
TypeOK ==
  /\ delegations \in [Delegation -> Row]
  /\ completions \in [Delegation -> Completion]
  /\ childGen    \in [Delegation -> Nat]
  /\ childTurns  \in [Delegation -> Nat]
  /\ turnless    \subseteq Delegation
  /\ dispatches  \in [Delegation -> Nat]
  /\ authority   \in [Delegation -> [Worker -> Authority]]
  /\ issued      \in [Delegation -> SUBSET Claim]
  /\ accepted    \in [Delegation -> SUBSET Claim]

\* Terminal and outbox commit together: a delegation is terminal exactly when
\* its completion event exists, and the event tells the parent the same
\* outcome, reason and time as the row (finish, complete_child, cancel and the
\* two reconciliations all write both tables).
OutboxMatchesTerminal ==
  \A d \in Delegation :
    /\ delegations[d].state \in Terminal <=> completions[d].state # "absent"
    /\ completions[d].state # "absent" =>
         /\ completions[d].outcome = delegations[d].state
         /\ completions[d].reason = delegations[d].reason
         /\ completions[d].created = delegations[d].updated

\* Reconciliation settles a whole batch in one transaction, so one row it
\* cannot settle would keep every other abandoned delegation running for ever.
\* No expired row can be such a row: its deadline is later than its last
\* update, and its cancellation request lies within its lifetime
\* (reconcile_expired, which propagates the first row's error).
ExpiryBatchNeverAborts ==
  \A t \in Timestamp : \A d \in Expired(t) : Reconcilable(d, t)

\* The child's transcript holds the delegated turn exactly when the delegation
\* completed through complete_child: no failed, cancelled, unknown or late run
\* leaves a turn behind, and none of them, no other writer to the child session
\* and no success that finish records without a turn, is counted for one.
ChildTurnMatchesCompletion ==
  \A d \in Delegation :
    /\ childTurns[d] =
         IF delegations[d].state = "completed" /\ d \notin turnless THEN 1 ELSE 0
    /\ d \in turnless => delegations[d].state = "completed"

\* Work that may have had effects is never handed out again: a delegation was
\* dispatched once if a worker is recorded in its row and never otherwise, so
\* in particular work cancelled while pending never ran (claim, cancel).
DispatchedOnce ==
  \A d \in Delegation :
    /\ dispatches[d] = IF delegations[d].worker = Null THEN 0 ELSE 1
    /\ delegations[d].state = "pending" => delegations[d].worker = Null

\* An event is delivered under at most one of the claims ever handed out for
\* it, whatever the order in which claims expire, are released and are
\* acknowledged (claim_completion, acknowledge_completion).
DeliveredToOneHolder ==
  \A d \in Delegation :
    /\ Cardinality(accepted[d]) <= 1
    /\ accepted[d] # {} <=> completions[d].state = "delivered"

\* The generation fences zombies: a worker whose remembered generation is the
\* row's own is the worker recorded in a row that still runs (ensure_generation
\* with ensure_running_fence, over the generation every terminal bumps).
CurrentAuthorityIsOwner ==
  \A d \in Delegation, w \in Worker :
    authority[d][w].fence > 0 /\ authority[d][w].gen = delegations[d].gen =>
      /\ delegations[d].state = "running"
      /\ delegations[d].worker = w

\* What the rows say to someone who cannot see generations, fences, leases or
\* claims.
Notice(c) ==
  IF c.state = "absent" THEN "none"
  ELSE IF c.state = "pending" THEN "published" ELSE "delivered"

PromiseOf(d) ==
  [life |-> delegations[d].state, intent |-> delegations[d].intent,
   reason |-> delegations[d].reason, turns |-> childTurns[d],
   notice |-> Notice(completions[d])]

\* finish accepts a success without its turn, so the store promises only that
\* nothing but a success adds one; its caller promises more, see
\* BackgroundSupervisor.
Lifecycle == INSTANCE DelegationLifecycle
               WITH promise <- [d \in Delegation |-> PromiseOf(d)],
                    TurnsOfSuccess <- {0, 1}

\* The store implements the abstract lifecycle under any callers: terminals are
\* final, running work is cancelled only on and as requested and then settled as
\* nothing else, success alone extends the child, and once, and a notice is
\* published with the terminal and delivered once.
ImplementsLifecycle == Lifecycle!Spec
=============================================================================

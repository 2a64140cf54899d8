------------------------ MODULE DelegationStoreProofs ------------------------
(***************************************************************************)
(* Proofs about the delegation store, for any number of delegations,       *)
(* workers, reasons, claims and timestamps.                                *)
(*                                                                         *)
(* The inductive invariant Inv is TypeOK, three of the checked invariants  *)
(* (DispatchedOnce, OutboxMatchesTerminal, ChildTurnMatchesCompletion) and *)
(* three strengthenings: what a row looks like in each of its states, what *)
(* a worker may remember of it, and which claims were accepted.            *)
(***************************************************************************)
EXTENDS DelegationStore, FiniteSetTheorems, TLAPS

\* What a row looks like in each state.
RowShape(row) ==
  /\ row.state \in {"absent", "pending"} =>
       row.fence = 0 /\ row.worker = Null /\ row.reason = Null
  /\ row.state = "running" =>
       /\ row.fence = 1 /\ row.worker # Null /\ row.reason = Null
       /\ row.updated < row.lease
       /\ row.intent # Null =>
            row.created <= row.intentAt /\ row.intentAt <= row.updated
  /\ row.state # "running" => row.intent = Null
  /\ row.created <= row.updated

RowsOK == \A d \in Delegation : RowShape(delegations[d])

\* What worker w remembers of a row is never ahead of it; only the recorded
\* worker remembers a fence, and its generation is the row's only while it runs.
AuthorityShape(row, a, w) ==
  /\ a.gen <= row.gen
  /\ a.fence = 0 => a.gen = 0
  /\ a.fence > 0 =>
       /\ row.worker = w
       /\ a.gen = row.gen => row.state = "running"

AuthoritiesOK ==
  \A d \in Delegation, w \in Worker :
    AuthorityShape(delegations[d], authority[d][w], w)

\* Exactly one acknowledged claim once delivered, none before.
DeliveriesOK ==
  \A d \in Delegation :
    IF completions[d].state = "delivered"
    THEN \E k \in Claim : accepted[d] = {k}
    ELSE accepted[d] = {}

Inv ==
  /\ TypeOK
  /\ RowsOK
  /\ AuthoritiesOK
  /\ DispatchedOnce
  /\ OutboxMatchesTerminal
  /\ ChildTurnMatchesCompletion
  /\ DeliveriesOK

-----------------------------------------------------------------------------
(* The rows the operators build.                                           *)

LEMMA TouchedRow ==
  ASSUME NEW row \in Row, NEW t \in Nat
  PROVE  /\ Touched(row, t) \in Row
         /\ Touched(row, t).gen = row.gen + 1
         /\ Touched(row, t).updated = t
         /\ \A f \in {"state", "fence", "worker", "lease", "intent", "intentAt",
                      "reason", "parent", "created"} : Touched(row, t)[f] = row[f]
<1>1. ASSUME NEW g \in Nat
      PROVE  [row EXCEPT !.gen = g, !.updated = t] \in Row
  BY DEF Row
<1>2. row.gen + 1 \in Nat
  BY DEF Row
<1>3. Touched(row, t) \in Row
  BY <1>1, <1>2 DEF Touched
<1> QED
  BY <1>3 DEF Touched, Row

\* A terminal write yields a row of the right type that no worker owns.
LEMMA SettledRow ==
  ASSUME NEW row \in Row, NEW o \in Terminal, NEW r \in Reason \cup {Null},
         NEW t \in Nat
  PROVE  /\ Settled(row, o, r, t) \in Row
         /\ Settled(row, o, r, t).state = o
         /\ Settled(row, o, r, t).intent = Null
         /\ Settled(row, o, r, t).reason = (IF o = "cancelled" THEN r ELSE Null)
         /\ Settled(row, o, r, t).gen = row.gen + 1
         /\ Settled(row, o, r, t).updated = t
         /\ \A f \in {"fence", "worker", "parent", "created"} :
              Settled(row, o, r, t)[f] = row[f]
<1> DEFINE mid == Touched(row, t)
<1>1. /\ mid \in Row /\ mid.gen = row.gen + 1 /\ mid.updated = t
      /\ \A f \in {"fence", "worker", "parent", "created"} : mid[f] = row[f]
  BY TouchedRow
<1>2. Settled(row, o, r, t) =
        [mid EXCEPT !.state = o, !.lease = 0, !.intent = Null, !.intentAt = 0,
                    !.reason = IF o = "cancelled" THEN r ELSE Null]
  BY DEF Settled
<1> HIDE DEF mid
<1>3. ASSUME NEW s \in State, NEW q \in Reason \cup {Null}
      PROVE  [mid EXCEPT !.state = s, !.lease = 0, !.intent = Null, !.intentAt = 0,
                         !.reason = q] \in Row
  BY <1>1 DEF Row
<1>4. Settled(row, o, r, t) \in Row
  <2>1. o \in State /\ (IF o = "cancelled" THEN r ELSE Null) \in Reason \cup {Null}
    BY DEF State
  <2> QED
    BY <1>2, <1>3, <2>1
<1>5. /\ Settled(row, o, r, t).state = o
      /\ Settled(row, o, r, t).intent = Null
      /\ Settled(row, o, r, t).reason = (IF o = "cancelled" THEN r ELSE Null)
      /\ \A f \in {"gen", "updated", "fence", "worker", "parent", "created"} :
           Settled(row, o, r, t)[f] = mid[f]
  BY <1>1, <1>2 DEF Row
<1> QED
  BY <1>1, <1>4, <1>5

LEMMA PublishedCompletion ==
  ASSUME NEW o \in Terminal, NEW r \in Reason \cup {Null}, NEW t \in Nat
  PROVE  /\ Published(o, r, t) \in Completion
         /\ Published(o, r, t).state = "pending"
         /\ Published(o, r, t).outcome = o
         /\ Published(o, r, t).reason = (IF o = "cancelled" THEN r ELSE Null)
         /\ Published(o, r, t).created = t
  BY DEF Published, Completion

LEMMA EmptyRow ==
  /\ NoRow \in Row
  /\ NoCompletion \in Completion
  /\ NoAuthority \in Authority
  /\ RowShape(NoRow)
  BY DEF NoRow, Row, State, NoCompletion, Completion, NoAuthority, Authority,
         RowShape

LEMMA AcceptedRow ==
  ASSUME NEW p \in Session, NEW t \in Nat
  PROVE  /\ Accepted(p, t) \in Row
         /\ RowShape(Accepted(p, t))
         /\ Accepted(p, t).state = "pending"
         /\ Accepted(p, t).gen = 1
         /\ Accepted(p, t).worker = Null
<1>1. Accepted(p, t) \in Row
  BY EmptyRow DEF Accepted, Row, State
<1>2. /\ Accepted(p, t).state = "pending" /\ Accepted(p, t).gen = 1
      /\ Accepted(p, t).created = t /\ Accepted(p, t).updated = t
  BY EmptyRow DEF Accepted, Row
<1>3. \A f \in {"fence", "worker", "reason", "intent"} : Accepted(p, t)[f] = NoRow[f]
  BY EmptyRow DEF Accepted, Row
<1> QED
  BY <1>1, <1>2, <1>3 DEF NoRow, RowShape

LEMMA ClaimedRow ==
  ASSUME NEW row \in Row, NEW w \in Worker, NEW t \in Nat, NEW lease \in Nat,
         RowShape(row), row.state = "pending", row.updated <= t, t < lease
  PROVE  /\ Claimed(row, w, t, lease) \in Row
         /\ RowShape(Claimed(row, w, t, lease))
         /\ Claimed(row, w, t, lease).state = "running"
         /\ Claimed(row, w, t, lease).gen = row.gen + 1
         /\ Claimed(row, w, t, lease).fence = 1
         /\ Claimed(row, w, t, lease).worker = w
         /\ Claimed(row, w, t, lease).intent = Null
         /\ Claimed(row, w, t, lease).reason = Null
<1> DEFINE mid == Touched(row, t)
<1>1. /\ mid \in Row /\ mid.gen = row.gen + 1 /\ mid.updated = t
      /\ mid.fence = 0 /\ mid.intent = Null /\ mid.reason = Null
      /\ mid.created = row.created
  BY TouchedRow DEF RowShape
<1>2. Claimed(row, w, t, lease) =
        [mid EXCEPT !.state = "running", !.fence = @ + 1, !.worker = w,
                    !.lease = lease]
  BY DEF Claimed
<1> HIDE DEF mid
<1>3. Claimed(row, w, t, lease) \in Row
  <2>1. ASSUME NEW s \in State, NEW f \in {0, 1}
        PROVE  [mid EXCEPT !.state = s, !.fence = f, !.worker = w, !.lease = lease]
                 \in Row
    BY <1>1 DEF Row
  <2>2. "running" \in State /\ mid.fence + 1 = 1
    BY <1>1 DEF State
  <2> QED
    BY <1>2, <2>1, <2>2
<1>4. /\ Claimed(row, w, t, lease).state = "running"
      /\ Claimed(row, w, t, lease).fence = 1
      /\ Claimed(row, w, t, lease).worker = w
      /\ Claimed(row, w, t, lease).lease = lease
      /\ \A f \in {"gen", "updated", "intent", "reason", "created"} :
           Claimed(row, w, t, lease)[f] = mid[f]
  BY <1>1, <1>2 DEF Row
<1> QED
  BY <1>1, <1>3, <1>4, NullAssumption DEF RowShape, Row

-----------------------------------------------------------------------------
(* The initial state and the steps that leave the rows alone.              *)

LEMMA InitInv == Init => Inv
<1> SUFFICES ASSUME Init PROVE Inv
  OBVIOUS
<1> USE EmptyRow DEF Init
<1>1. TypeOK
  BY DEF TypeOK
<1>2. RowsOK
  BY DEF RowsOK
<1>3. AuthoritiesOK
  BY DEF AuthoritiesOK, AuthorityShape, NoAuthority, NoRow
<1>4. DispatchedOnce
  BY DEF DispatchedOnce, NoRow
<1>5. OutboxMatchesTerminal
  BY DEF OutboxMatchesTerminal, NoRow, NoCompletion, Terminal
<1>6. ChildTurnMatchesCompletion
  BY DEF ChildTurnMatchesCompletion, NoRow
<1>7. DeliveriesOK
  BY DEF DeliveriesOK, NoCompletion
<1> QED
  BY <1>1, <1>2, <1>3, <1>4, <1>5, <1>6, <1>7 DEF Inv

LEMMA ClaimInv ==
  ASSUME Inv, NEW w \in Worker, NEW d \in Delegation, NEW g \in Nat,
         NEW t \in Timestamp, NEW lease \in Timestamp,
         ClaimDelegation(w, d, g, t, lease)
  PROVE  Inv'
<1> DEFINE row == delegations[d]
           new == Claimed(row, w, t, lease)
<1>1. delegations' = [delegations EXCEPT ![d] = new]
  BY DEF ClaimDelegation
<1>2. /\ row \in Row /\ RowShape(row) /\ row.state = "pending"
      /\ lease > t /\ t >= row.updated /\ t \in Nat /\ lease \in Nat
  BY TimestampAssumption
  DEF Inv, TypeOK, RowsOK, ClaimDelegation, Claimable, EnsureMonotonic
<1>3. /\ new \in Row /\ RowShape(new) /\ new.state = "running"
      /\ new.gen = row.gen + 1 /\ new.fence = 1 /\ new.worker = w
      /\ new.intent = Null /\ new.reason = Null
  BY <1>2, ClaimedRow DEF Row
<1>4. row.fence = 0 /\ row.worker = Null
  BY <1>2 DEF RowShape
<1> HIDE DEF new
<1>7. TypeOK'
  BY <1>1, <1>2, <1>4, <1>3 DEF Inv, TypeOK, ClaimDelegation, outbox, Row, Authority
<1>8. RowsOK'
  BY <1>1, <1>3 DEF Inv, TypeOK, RowsOK
<1>9. AuthoritiesOK'
  <2> SUFFICES ASSUME NEW e \in Delegation, NEW v \in Worker
               PROVE  AuthorityShape(delegations'[e], authority'[e][v], v)
    BY DEF AuthoritiesOK
  <2>1. AuthorityShape(delegations[e], authority[e][v], v)
    BY DEF Inv, AuthoritiesOK
  <2>2. CASE e # d
    BY <2>1, <2>2, <1>1 DEF Inv, TypeOK, ClaimDelegation
  <2>3. CASE e = d /\ v # w
    BY <2>1, <2>3, <1>1, <1>2, <1>4, <1>3, NullAssumption
    DEF Inv, TypeOK, ClaimDelegation, AuthorityShape, Authority, Row
  <2>4. CASE e = d /\ v = w
    <3>1. authority'[e][v] = [gen |-> row.gen + 1, fence |-> 1]
      BY <2>4, <1>4 DEF Inv, TypeOK, ClaimDelegation
    <3> QED
      BY <2>4, <3>1, <1>1, <1>2, <1>3 DEF Inv, TypeOK, AuthorityShape, Row
  <2> QED
    BY <2>2, <2>3, <2>4
<1>10. DispatchedOnce'
  BY <1>1, <1>4, <1>3, NullAssumption
  DEF Inv, TypeOK, DispatchedOnce, ClaimDelegation, RowShape
<1>11. OutboxMatchesTerminal'
  BY <1>1, <1>2, <1>3
  DEF Inv, TypeOK, OutboxMatchesTerminal, ClaimDelegation, outbox, Terminal
<1>12. ChildTurnMatchesCompletion'
  BY <1>1, <1>2, <1>3 DEF Inv, TypeOK, ChildTurnMatchesCompletion, ClaimDelegation
<1>13. DeliveriesOK'
  BY DEF Inv, DeliveriesOK, ClaimDelegation, outbox
<1> QED
  BY <1>7, <1>8, <1>9, <1>10, <1>11, <1>12, <1>13 DEF Inv

\* Heartbeats and cancellation requests keep a running row well-formed.
LEMMA RenewedRow ==
  ASSUME NEW row \in Row, NEW t \in Nat, NEW lease \in Nat,
         RowShape(row), row.state = "running", row.updated <= t, t < lease
  PROVE  /\ Renewed(row, t, lease) \in Row
         /\ RowShape(Renewed(row, t, lease))
         /\ Renewed(row, t, lease).gen = row.gen + 1
         /\ \A f \in {"state", "fence", "worker"} : Renewed(row, t, lease)[f] = row[f]
<1> DEFINE mid == Touched(row, t)
<1>1. /\ mid \in Row /\ mid.gen = row.gen + 1 /\ mid.updated = t
      /\ \A f \in {"state", "fence", "worker", "intent", "intentAt", "reason", "created"} :
           mid[f] = row[f]
  BY TouchedRow
<1>2. Renewed(row, t, lease) = [mid EXCEPT !.lease = lease]
  BY DEF Renewed
<1> HIDE DEF mid
<1>3. /\ Renewed(row, t, lease) \in Row
      /\ Renewed(row, t, lease).lease = lease
      /\ \A f \in {"state", "gen", "updated", "fence", "worker", "intent",
                   "intentAt", "reason", "created"} :
           Renewed(row, t, lease)[f] = mid[f]
  BY <1>1, <1>2 DEF Row
<1> QED
  BY <1>1, <1>3 DEF RowShape, Row

LEMMA CancelRequestedRow ==
  ASSUME NEW row \in Row, NEW r \in Reason, NEW t \in Nat,
         RowShape(row), row.state = "running", row.updated <= t, t < row.lease
  PROVE  /\ CancelRequested(row, r, t) \in Row
         /\ RowShape(CancelRequested(row, r, t))
         /\ \A f \in {"state", "gen", "fence", "worker"} :
              CancelRequested(row, r, t)[f] = row[f]
<1>1. CancelRequested(row, r, t) \in Row
  BY DEF CancelRequested, Row
<1>2. /\ CancelRequested(row, r, t).intent = r
      /\ CancelRequested(row, r, t).intentAt = t
      /\ CancelRequested(row, r, t).updated = t
      /\ \A f \in {"state", "gen", "fence", "worker", "lease", "reason", "created"} :
           CancelRequested(row, r, t)[f] = row[f]
  BY DEF CancelRequested, Row
<1> QED
  BY <1>1, <1>2 DEF RowShape, Row

LEMMA CancelledPendingRow ==
  ASSUME NEW row \in Row, NEW r \in Reason, NEW t \in Nat,
         RowShape(row), row.state = "pending", row.updated <= t
  PROVE  /\ CancelledPending(row, r, t) \in Row
         /\ RowShape(CancelledPending(row, r, t))
         /\ CancelledPending(row, r, t).state = "cancelled"
         /\ CancelledPending(row, r, t).gen = row.gen + 1
         /\ CancelledPending(row, r, t).worker = Null
         /\ CancelledPending(row, r, t).intent = Null
         /\ CancelledPending(row, r, t).reason = r
         /\ CancelledPending(row, r, t).updated = t
<1> DEFINE mid == Touched(row, t)
<1>1. /\ mid \in Row /\ mid.gen = row.gen + 1 /\ mid.updated = t
      /\ mid.worker = Null /\ mid.intent = Null /\ mid.created = row.created
  BY TouchedRow DEF RowShape
<1>2. CancelledPending(row, r, t) =
        [mid EXCEPT !.state = "cancelled", !.fence = 1, !.reason = r]
  BY DEF CancelledPending
<1> HIDE DEF mid
<1>3. ASSUME NEW s \in State
      PROVE  [mid EXCEPT !.state = s, !.fence = 1, !.reason = r] \in Row
  BY <1>1 DEF Row
<1>4. CancelledPending(row, r, t) \in Row
  BY <1>2, <1>3 DEF State, Terminal
<1>5. /\ CancelledPending(row, r, t).state = "cancelled"
      /\ CancelledPending(row, r, t).reason = r
      /\ \A f \in {"gen", "updated", "worker", "intent", "created"} :
           CancelledPending(row, r, t)[f] = mid[f]
  BY <1>1, <1>2 DEF Row
<1> QED
  BY <1>1, <1>4, <1>5 DEF RowShape, Row

LEMMA AcceptInv ==
  ASSUME Inv, NEW d \in Delegation, NEW p \in Session, NEW t \in Timestamp,
         delegations[d].state = "absent",
         delegations' = [delegations EXCEPT ![d] = Accepted(p, t)],
         childGen' \in [Delegation -> Nat],
         UNCHANGED <<childTurns, workers, outbox>>
  PROVE  Inv'
<1> DEFINE new == Accepted(p, t)
<1>1. t \in Nat
  BY TimestampAssumption
<1>2. /\ new \in Row /\ RowShape(new)
      /\ new.state = "pending" /\ new.gen = 1 /\ new.worker = Null
  BY <1>1, AcceptedRow
<1>3. delegations[d].worker = Null
  BY DEF Inv, RowsOK, RowShape
<1> HIDE DEF new
<1>4. delegations' = [delegations EXCEPT ![d] = new]
  BY DEF new
<1>5. TypeOK'
  BY <1>2, <1>4 DEF Inv, TypeOK, workers, outbox
<1>6. RowsOK'
  BY <1>2, <1>4 DEF Inv, TypeOK, RowsOK
<1>7. AuthoritiesOK'
  BY <1>2, <1>3, <1>4, NullAssumption
  DEF Inv, TypeOK, AuthoritiesOK, AuthorityShape, Row, Authority, workers
<1>8. DispatchedOnce'
  BY <1>2, <1>3, <1>4 DEF Inv, TypeOK, DispatchedOnce, workers
<1>9. OutboxMatchesTerminal'
  BY <1>2, <1>4 DEF Inv, TypeOK, OutboxMatchesTerminal, outbox, Terminal
<1>10. ChildTurnMatchesCompletion'
  BY <1>2, <1>4 DEF Inv, TypeOK, ChildTurnMatchesCompletion, workers
<1>11. DeliveriesOK'
  BY DEF Inv, DeliveriesOK, outbox
<1> QED
  BY <1>5, <1>6, <1>7, <1>8, <1>9, <1>10, <1>11 DEF Inv

LEMMA CreateInv ==
  ASSUME Inv, NEW d \in Delegation, NEW p \in Session, NEW t \in Timestamp,
         Create(d, p, t) \/ CreateWithChild(d, p, t)
  PROVE  Inv'
<1>1. childGen' \in [Delegation -> Nat]
  BY DEF Inv, TypeOK, Create, CreateWithChild
<1> QED
  BY <1>1, AcceptInv DEF Create, CreateWithChild

\* Steps that touch only the child session's generation.
LEMMA ChildSessionInv ==
  ASSUME Inv, NEW d \in Delegation, CreateChildSession(d) \/ AppendForeignTurn(d)
  PROVE  Inv'
<1>1. /\ childGen' \in [Delegation -> Nat]
      /\ UNCHANGED <<delegations, childTurns, workers, outbox>>
  BY DEF Inv, TypeOK, CreateChildSession, AppendForeignTurn
<1> QED
  BY <1>1
  DEF Inv, TypeOK, RowsOK, AuthoritiesOK, DispatchedOnce, OutboxMatchesTerminal,
      ChildTurnMatchesCompletion, DeliveriesOK, workers, outbox

LEMMA HeartbeatInv ==
  ASSUME Inv, NEW w \in Worker, NEW d \in Delegation, NEW t \in Timestamp,
         NEW lease \in Timestamp, Heartbeat(w, d, t, lease)
  PROVE  Inv'
<1> DEFINE row == delegations[d]
           a   == authority[d][w]
           new == Renewed(row, t, lease)
<1>1. /\ row \in Row /\ RowShape(row) /\ row.state = "running"
      /\ row.updated <= t /\ t < lease /\ t \in Nat /\ lease \in Nat
      /\ a.fence > 0
  BY TimestampAssumption
  DEF Inv, TypeOK, RowsOK, Heartbeat, OwnsLive, EnsureRunningFence, EnsureMonotonic
<1>2. /\ new \in Row /\ RowShape(new) /\ new.gen = row.gen + 1
      /\ new.state = "running" /\ new.fence = row.fence /\ new.worker = row.worker
  BY <1>1, RenewedRow
<1>3. row.worker = w
  BY <1>1 DEF Inv, AuthoritiesOK, AuthorityShape
<1> HIDE DEF new
<1>4. /\ delegations' = [delegations EXCEPT ![d] = new]
      /\ authority' = [authority EXCEPT ![d][w] =
           [gen |-> row.gen + 1, fence |-> a.fence]]
      /\ UNCHANGED <<childGen, childTurns, turnless, dispatches, outbox>>
  BY DEF new, Heartbeat
<1>5. TypeOK'
  <2>1. row.gen + 1 \in Nat
    BY <1>1 DEF Row
  <2>2. a.fence \in Nat
    BY DEF Inv, TypeOK, Authority
  <2> QED
    BY <1>2, <1>4, <2>1, <2>2 DEF Inv, TypeOK, outbox, Authority
<1>6. RowsOK'
  BY <1>2, <1>4 DEF Inv, TypeOK, RowsOK
<1>7. AuthoritiesOK'
  <2> SUFFICES ASSUME NEW e \in Delegation, NEW v \in Worker
               PROVE  AuthorityShape(delegations'[e], authority'[e][v], v)
    BY DEF AuthoritiesOK
  <2>1. AuthorityShape(delegations[e], authority[e][v], v)
    BY DEF Inv, AuthoritiesOK
  <2>2. CASE e # d
    BY <2>1, <2>2, <1>4 DEF Inv, TypeOK
  <2>3. CASE e = d /\ v # w
    BY <2>1, <2>3, <1>1, <1>2, <1>3, <1>4
    DEF Inv, TypeOK, AuthorityShape, Authority, Row
  <2>4. CASE e = d /\ v = w
    <3>1. authority'[e][v] = [gen |-> row.gen + 1, fence |-> a.fence]
      BY <2>4, <1>4 DEF Inv, TypeOK
    <3> QED
      BY <2>4, <3>1, <1>1, <1>2, <1>3, <1>4 DEF Inv, TypeOK, AuthorityShape, Row
  <2> QED
    BY <2>2, <2>3, <2>4
<1>8. DispatchedOnce'
  BY <1>2, <1>4 DEF Inv, TypeOK, DispatchedOnce
<1>9. OutboxMatchesTerminal'
  BY <1>1, <1>2, <1>4 DEF Inv, TypeOK, OutboxMatchesTerminal, outbox, Terminal
<1>10. ChildTurnMatchesCompletion'
  BY <1>1, <1>2, <1>4 DEF Inv, TypeOK, ChildTurnMatchesCompletion, workers
<1>11. DeliveriesOK'
  BY <1>4 DEF Inv, DeliveriesOK, outbox
<1> QED
  BY <1>5, <1>6, <1>7, <1>8, <1>9, <1>10, <1>11 DEF Inv

LEMMA ReloadAuthorityInv ==
  ASSUME Inv, NEW w \in Worker, NEW d \in Delegation, ReloadAuthority(w, d)
  PROVE  Inv'
<1> DEFINE row == delegations[d]
<1>1. row \in Row /\ row.state = "running" /\ row.fence = 1
  BY DEF Inv, TypeOK, RowsOK, RowShape, ReloadAuthority
<1>2. row.worker = w
  BY DEF Inv, TypeOK, AuthoritiesOK, AuthorityShape, ReloadAuthority, NoAuthority,
         Authority
<1>3. /\ authority' = [authority EXCEPT ![d][w] = [gen |-> row.gen, fence |-> 1]]
      /\ UNCHANGED <<rows, turnless, dispatches, outbox>>
  BY <1>1 DEF ReloadAuthority
<1>4. TypeOK'
  BY <1>1, <1>3 DEF Inv, TypeOK, rows, outbox, Authority, Row
<1>5. AuthoritiesOK'
  <2> SUFFICES ASSUME NEW e \in Delegation, NEW v \in Worker
               PROVE  AuthorityShape(delegations[e], authority'[e][v], v)
    BY <1>3 DEF AuthoritiesOK, rows
  <2>1. AuthorityShape(delegations[e], authority[e][v], v)
    BY DEF Inv, AuthoritiesOK
  <2>2. CASE e # d \/ v # w
    BY <2>1, <2>2, <1>3 DEF Inv, TypeOK
  <2>3. CASE e = d /\ v = w
    <3>1. authority'[e][v] = [gen |-> row.gen, fence |-> 1]
      BY <2>3, <1>3 DEF Inv, TypeOK
    <3> QED
      BY <2>3, <3>1, <1>1, <1>2 DEF AuthorityShape, Row
  <2> QED
    BY <2>2, <2>3
<1> QED
  BY <1>3, <1>4, <1>5
  DEF Inv, RowsOK, DispatchedOnce, OutboxMatchesTerminal, ChildTurnMatchesCompletion,
      DeliveriesOK, rows, outbox

LEMMA CancelRunningInv ==
  ASSUME Inv, NEW d \in Delegation, NEW g \in Nat, NEW r \in Reason,
         NEW t \in Timestamp, CancelRunning(d, g, r, t)
  PROVE  Inv'
<1> DEFINE row == delegations[d]
           new == CancelRequested(row, r, t)
<1>1. /\ row \in Row /\ RowShape(row) /\ row.state = "running"
      /\ row.updated <= t /\ t < row.lease /\ t \in Nat
  BY TimestampAssumption
  DEF Inv, TypeOK, RowsOK, CancelRunning, EnsureMonotonic, EnsureActiveLease
<1>2. /\ new \in Row /\ RowShape(new) /\ new.gen = row.gen
      /\ new.state = "running" /\ new.fence = row.fence /\ new.worker = row.worker
  BY <1>1, CancelRequestedRow
<1> HIDE DEF new
<1>3. /\ delegations' = [delegations EXCEPT ![d] = new]
      /\ UNCHANGED <<childGen, childTurns, workers, outbox>>
  BY DEF new, CancelRunning
<1>4. TypeOK'
  BY <1>2, <1>3 DEF Inv, TypeOK, workers, outbox
<1>5. RowsOK'
  BY <1>2, <1>3 DEF Inv, TypeOK, RowsOK
<1>6. AuthoritiesOK'
  BY <1>1, <1>2, <1>3 DEF Inv, TypeOK, AuthoritiesOK, AuthorityShape, workers
<1>7. DispatchedOnce'
  BY <1>2, <1>3 DEF Inv, TypeOK, DispatchedOnce, workers
<1>8. OutboxMatchesTerminal'
  BY <1>1, <1>2, <1>3 DEF Inv, TypeOK, OutboxMatchesTerminal, outbox, Terminal
<1>9. ChildTurnMatchesCompletion'
  BY <1>1, <1>2, <1>3 DEF Inv, TypeOK, ChildTurnMatchesCompletion, workers
<1>10. DeliveriesOK'
  BY <1>3 DEF Inv, DeliveriesOK, outbox
<1> QED
  BY <1>4, <1>5, <1>6, <1>7, <1>8, <1>9, <1>10 DEF Inv

LEMMA CancelPendingInv ==
  ASSUME Inv, NEW d \in Delegation, NEW g \in Nat, NEW r \in Reason,
         NEW t \in Timestamp, CancelPending(d, g, r, t)
  PROVE  Inv'
<1> DEFINE row == delegations[d]
           new == CancelledPending(row, r, t)
           event == Published("cancelled", r, t)
<1>1. /\ row \in Row /\ RowShape(row) /\ row.state = "pending"
      /\ row.updated <= t /\ t \in Nat
  BY TimestampAssumption
  DEF Inv, TypeOK, RowsOK, CancelPending, EnsureMonotonic
<1>2. /\ new \in Row /\ RowShape(new) /\ new.state = "cancelled"
      /\ new.gen = row.gen + 1 /\ new.worker = Null /\ new.reason = r
      /\ new.updated = t
  BY <1>1, CancelledPendingRow
<1>3. /\ event \in Completion /\ event.state = "pending"
      /\ event.outcome = "cancelled" /\ event.reason = r /\ event.created = t
  BY <1>1, PublishedCompletion DEF Terminal
<1>4. row.worker = Null
  BY <1>1 DEF RowShape
<1> HIDE DEF new, event
<1>5. /\ delegations' = [delegations EXCEPT ![d] = new]
      /\ completions' = [completions EXCEPT ![d] = event]
      /\ completions[d].state = "absent"
      /\ UNCHANGED <<childGen, childTurns, workers, issued, accepted>>
  BY DEF new, event, CancelPending, Unpublished
<1>6. TypeOK'
  BY <1>2, <1>3, <1>5 DEF Inv, TypeOK, workers
<1>7. RowsOK'
  BY <1>2, <1>5 DEF Inv, TypeOK, RowsOK
<1>8. AuthoritiesOK'
  BY <1>1, <1>2, <1>4, <1>5, NullAssumption
  DEF Inv, TypeOK, AuthoritiesOK, AuthorityShape, workers, Row, Authority
<1>9. DispatchedOnce'
  BY <1>2, <1>4, <1>5 DEF Inv, TypeOK, DispatchedOnce, workers
<1>10. OutboxMatchesTerminal'
  BY <1>2, <1>3, <1>5 DEF Inv, TypeOK, OutboxMatchesTerminal, Terminal
<1>11. ChildTurnMatchesCompletion'
  BY <1>1, <1>2, <1>5 DEF Inv, TypeOK, ChildTurnMatchesCompletion, workers
<1>12. DeliveriesOK'
  BY <1>3, <1>5 DEF Inv, TypeOK, DeliveriesOK
<1> QED
  BY <1>6, <1>7, <1>8, <1>9, <1>10, <1>11, <1>12 DEF Inv

\* The members of bare are settled as successes.
Succeeding(bare, out) == \A d \in bare : out[d] = "completed"

\* Settling any set of running delegations, each with its own outcome and the
\* successes in bare without a turn, keeps the invariant: the common part of
\* finish, complete_child and the two reconciliations.
LEMMA SettlementInv ==
  ASSUME Inv, NEW S \in SUBSET Running, NEW t \in Nat,
         NEW out \in [Delegation -> Terminal],
         NEW why \in [Delegation -> Reason \cup {Null}],
         NEW bare \in SUBSET S, Succeeding(bare, out),
         \A d \in S : EnsureMonotonic(d, t) /\ Unpublished(d),
         delegations' = [d \in Delegation |->
           IF d \in S THEN Settled(delegations[d], out[d], why[d], t)
                      ELSE delegations[d]],
         completions' = [d \in Delegation |->
           IF d \in S THEN Published(out[d], why[d], t) ELSE completions[d]],
         childTurns' = [d \in Delegation |->
           IF d \in S \ bare /\ out[d] = "completed" THEN childTurns[d] + 1
                                                     ELSE childTurns[d]],
         turnless' = turnless \cup bare,
         childGen' \in [Delegation -> Nat],
         UNCHANGED <<dispatches, authority, issued, accepted>>
  PROVE  Inv'
<1> DEFINE new(d) == Settled(delegations[d], out[d], why[d], t)
           event(d) == Published(out[d], why[d], t)
           said(d) == IF out[d] = "cancelled" THEN why[d] ELSE Null
<1>1. ASSUME NEW d \in S
      PROVE  /\ d \in Delegation
             /\ delegations[d] \in Row /\ RowShape(delegations[d])
             /\ delegations[d].state = "running"
             /\ completions[d].state = "absent" /\ delegations[d].updated <= t
  BY DEF Inv, TypeOK, RowsOK, Running, EnsureMonotonic, Unpublished
<1>2. ASSUME NEW d \in S
      PROVE  /\ new(d) \in Row /\ new(d).state = out[d] /\ new(d).intent = Null
             /\ new(d).reason = said(d) /\ new(d).updated = t
             /\ new(d).gen = delegations[d].gen + 1
             /\ new(d).created = delegations[d].created
             /\ new(d).worker = delegations[d].worker
  <2>1. out[d] \in Terminal /\ why[d] \in Reason \cup {Null}
    BY <1>1
  <2> QED
    BY <1>1, <2>1, SettledRow
<1>3. ASSUME NEW d \in S PROVE RowShape(new(d))
  BY <1>1, <1>2 DEF RowShape, Terminal, Row
<1>4. ASSUME NEW d \in S
      PROVE  /\ event(d) \in Completion /\ event(d).state = "pending"
             /\ event(d).outcome = out[d] /\ event(d).reason = said(d)
             /\ event(d).created = t
  <2>1. out[d] \in Terminal /\ why[d] \in Reason \cup {Null}
    BY <1>1
  <2>2. t \in Nat
    OBVIOUS
  <2>3. /\ Published(out[d], why[d], t) \in Completion
        /\ Published(out[d], why[d], t).state = "pending"
        /\ Published(out[d], why[d], t).outcome = out[d]
        /\ Published(out[d], why[d], t).reason =
             (IF out[d] = "cancelled" THEN why[d] ELSE Null)
        /\ Published(out[d], why[d], t).created = t
    BY ONLY <2>1, <2>2, PublishedCompletion
  <2> QED
    BY <2>3
<1> HIDE DEF new, event
<1>5. /\ delegations' = [d \in Delegation |-> IF d \in S THEN new(d) ELSE delegations[d]]
      /\ completions' = [d \in Delegation |-> IF d \in S THEN event(d) ELSE completions[d]]
  BY DEF new, event
<1>6. TypeOK'
  BY <1>2, <1>4, <1>5 DEF Inv, TypeOK, Running
<1>7. RowsOK'
  BY <1>3, <1>5 DEF Inv, TypeOK, RowsOK
<1>8. AuthoritiesOK'
  <2> SUFFICES ASSUME NEW d \in Delegation, NEW w \in Worker
               PROVE  AuthorityShape(delegations'[d], authority[d][w], w)
    BY DEF AuthoritiesOK
  <2>1. AuthorityShape(delegations[d], authority[d][w], w)
    BY DEF Inv, AuthoritiesOK
  <2>2. CASE d \in S
    BY <2>1, <2>2, <1>1, <1>2, <1>5 DEF Inv, TypeOK, AuthorityShape, Row, Authority
  <2>3. CASE d \notin S
    BY <2>1, <2>3, <1>5
  <2> QED
    BY <2>2, <2>3
<1>9. DispatchedOnce'
  BY <1>2, <1>5 DEF Inv, TypeOK, DispatchedOnce, Terminal
<1>10. OutboxMatchesTerminal'
  BY <1>2, <1>4, <1>5 DEF Inv, TypeOK, OutboxMatchesTerminal, Terminal
<1>11. ChildTurnMatchesCompletion'
  BY <1>1, <1>2, <1>5 DEF Inv, TypeOK, ChildTurnMatchesCompletion, Terminal, Succeeding
<1>12. DeliveriesOK'
  BY <1>1, <1>4, <1>5 DEF Inv, TypeOK, DeliveriesOK
<1> QED
  BY <1>6, <1>7, <1>8, <1>9, <1>10, <1>11, <1>12 DEF Inv

LEMMA FinishInv ==
  ASSUME Inv, NEW w \in Worker, NEW d \in Delegation,
         NEW o \in Terminal, NEW r \in Reason, NEW t \in Timestamp,
         Finish(w, d, o, r, t)
  PROVE  Inv'
<1> DEFINE out == [e \in Delegation |-> o]
           why == [e \in Delegation |-> r]
           bare == IF o = "completed" THEN {d} ELSE {}
<1>1. /\ {d} \in SUBSET Running /\ t \in Nat
      /\ EnsureMonotonic(d, t) /\ Unpublished(d)
  BY TimestampAssumption
  DEF Finish, OwnsLive, EnsureRunningFence, Running, Settle
<1>2. out \in [Delegation -> Terminal] /\ why \in [Delegation -> Reason \cup {Null}]
  OBVIOUS
<1>3. /\ delegations' = [e \in Delegation |->
           IF e \in {d} THEN Settled(delegations[e], out[e], why[e], t)
                        ELSE delegations[e]]
      /\ completions' = [e \in Delegation |->
           IF e \in {d} THEN Published(out[e], why[e], t) ELSE completions[e]]
  BY DEF Inv, TypeOK, Finish, Settle
<1>4. /\ childTurns' = [e \in Delegation |->
           IF e \in {d} \ bare /\ out[e] = "completed" THEN childTurns[e] + 1
                                                       ELSE childTurns[e]]
      /\ turnless' = turnless \cup bare
      /\ childGen' \in [Delegation -> Nat]
      /\ UNCHANGED <<dispatches, authority, issued, accepted>>
  BY DEF Inv, TypeOK, Finish
<1>5. bare \in SUBSET {d} /\ Succeeding(bare, out)
  BY DEF Succeeding
<1> HIDE DEF out, why, bare
<1> QED
  BY <1>1, <1>2, <1>3, <1>4, <1>5, SettlementInv

LEMMA CompleteChildInv ==
  ASSUME Inv, NEW w \in Worker, NEW d \in Delegation, NEW cg \in Nat,
         NEW t \in Timestamp, CompleteChild(w, d, cg, t)
  PROVE  Inv'
<1> DEFINE out == [e \in Delegation |-> "completed"]
           why == [e \in Delegation |-> Null]
<1>1. /\ {d} \in SUBSET Running /\ t \in Nat
      /\ EnsureMonotonic(d, t) /\ Unpublished(d)
  BY TimestampAssumption
  DEF CompleteChild, OwnsLive, EnsureRunningFence, Running, Settle
<1>2. out \in [Delegation -> Terminal] /\ why \in [Delegation -> Reason \cup {Null}]
  BY DEF Terminal
<1>3. /\ delegations' = [e \in Delegation |->
           IF e \in {d} THEN Settled(delegations[e], out[e], why[e], t)
                        ELSE delegations[e]]
      /\ completions' = [e \in Delegation |->
           IF e \in {d} THEN Published(out[e], why[e], t) ELSE completions[e]]
  BY DEF Inv, TypeOK, CompleteChild, Settle
<1>4. /\ childTurns' = [e \in Delegation |->
           IF e \in {d} \ {} /\ out[e] = "completed" THEN childTurns[e] + 1
                                                ELSE childTurns[e]]
      /\ childGen' \in [Delegation -> Nat]
      /\ turnless' = turnless \cup {}
      /\ UNCHANGED <<dispatches, authority, issued, accepted>>
  <2>1. /\ \A e \in Delegation : out[e] = "completed"
        /\ childTurns' = [childTurns EXCEPT ![d] = @ + 1]
        /\ childTurns \in [Delegation -> Nat]
    BY DEF Inv, TypeOK, CompleteChild
  <2>2. childGen' \in [Delegation -> Nat]
    <3>1. childGen[d] + 1 \in Nat
      BY DEF Inv, TypeOK
    <3> QED
      BY <3>1 DEF Inv, TypeOK, CompleteChild
  <2>3. UNCHANGED <<turnless, dispatches, authority, issued, accepted>>
    BY DEF CompleteChild, workers
  <2> HIDE DEF out
  <2> QED
    BY <2>1, <2>2, <2>3
<1>5. {} \in SUBSET {d} /\ Succeeding({}, out)
  BY DEF Succeeding
<1> HIDE DEF out, why
<1> QED
  BY <1>1, <1>2, <1>3, <1>4, <1>5, SettlementInv

LEMMA SettleAllInv ==
  ASSUME Inv, NEW S \in SUBSET Running, NEW t \in Timestamp, SettleAll(S, t)
  PROVE  Inv'
<1> DEFINE out == [d \in Delegation |-> ReconciliationOutcome(d)]
           why == [d \in Delegation |-> delegations[d].intent]
<1>1. t \in Nat /\ \A d \in S : EnsureMonotonic(d, t) /\ Unpublished(d)
  BY TimestampAssumption DEF SettleAll, Reconcilable
<1>2. out \in [Delegation -> Terminal] /\ why \in [Delegation -> Reason \cup {Null}]
  BY DEF Terminal, ReconciliationOutcome, Inv, TypeOK, Row
<1>3. /\ delegations' = [d \in Delegation |->
           IF d \in S THEN Settled(delegations[d], out[d], why[d], t)
                      ELSE delegations[d]]
      /\ completions' = [d \in Delegation |->
           IF d \in S THEN Published(out[d], why[d], t) ELSE completions[d]]
  BY DEF SettleAll
<1>4. /\ childTurns' = [d \in Delegation |->
           IF d \in S \ {} /\ out[d] = "completed" THEN childTurns[d] + 1
                                              ELSE childTurns[d]]
      /\ childGen' \in [Delegation -> Nat]
      /\ turnless' = turnless \cup {}
      /\ UNCHANGED <<dispatches, authority, issued, accepted>>
  <2>1. \A d \in Delegation : out[d] # "completed"
    BY DEF ReconciliationOutcome
  <2> HIDE DEF out
  <2> QED
    BY <2>1 DEF Inv, TypeOK, SettleAll, workers
<1>5. {} \in SUBSET S /\ Succeeding({}, out)
  BY DEF Succeeding
<1> HIDE DEF out, why
<1> QED
  BY <1>1, <1>2, <1>3, <1>4, <1>5, SettlementInv

\* Delivery steps change an event's claim and state, never what it says.
LEMMA DeliveryInv ==
  ASSUME Inv, NEW d \in Delegation, NEW k \in Claim, NEW t, NEW expires \in Nat,
         \/ ClaimCompletion(k, d, t, expires)
         \/ AcknowledgeCompletion(k, d, t)
         \/ ReleaseCompletion(k, d)
  PROVE  Inv'
<1>1. /\ completions[d] \in Completion /\ completions[d].state = "pending"
      /\ accepted[d] = {}
  BY DEF Inv, TypeOK, DeliveriesOK, ClaimCompletion, Available, AcknowledgeCompletion,
      Deliverable, ReleaseCompletion
<1>2. PICK c \in Completion :
        /\ completions' = [completions EXCEPT ![d] = c]
        /\ c.outcome = completions[d].outcome /\ c.reason = completions[d].reason
        /\ c.created = completions[d].created
        /\ \/ c.state = "pending" /\ accepted' = accepted
           \/ c.state = "delivered" /\ accepted' = [accepted EXCEPT ![d] = {k}]
  <2>1. CASE ClaimCompletion(k, d, t, expires)
    <3> DEFINE c == [completions[d] EXCEPT !.claim = k, !.expires = expires]
    <3>1. /\ c \in Completion /\ c.state = "pending"
          /\ c.outcome = completions[d].outcome /\ c.reason = completions[d].reason
          /\ c.created = completions[d].created
      BY <1>1 DEF Completion
    <3> QED
      BY <2>1, <3>1 DEF ClaimCompletion
  <2>2. CASE AcknowledgeCompletion(k, d, t)
    <3> DEFINE c == [completions[d] EXCEPT !.state = "delivered", !.claim = Null,
                                           !.expires = 0]
    <3>1. /\ c \in Completion /\ c.state = "delivered"
          /\ c.outcome = completions[d].outcome /\ c.reason = completions[d].reason
          /\ c.created = completions[d].created
      BY <1>1 DEF Completion
    <3>2. accepted' = [accepted EXCEPT ![d] = {k}]
      BY <2>2, <1>1 DEF AcknowledgeCompletion
    <3> QED
      BY <2>2, <3>1, <3>2 DEF AcknowledgeCompletion
  <2>3. CASE ReleaseCompletion(k, d)
    <3> DEFINE c == [completions[d] EXCEPT !.claim = Null, !.expires = 0]
    <3>1. /\ c \in Completion /\ c.state = "pending"
          /\ c.outcome = completions[d].outcome /\ c.reason = completions[d].reason
          /\ c.created = completions[d].created
      BY <1>1 DEF Completion
    <3> QED
      BY <2>3, <3>1 DEF ReleaseCompletion
  <2> QED
    BY <2>1, <2>2, <2>3
<1>3. /\ issued' \in [Delegation -> SUBSET Claim]
      /\ UNCHANGED <<rows, workers>>
  BY DEF Inv, TypeOK, ClaimCompletion, AcknowledgeCompletion, ReleaseCompletion
<1>4. TypeOK'
  BY <1>2, <1>3 DEF Inv, TypeOK, rows, workers
<1>5. RowsOK' /\ AuthoritiesOK' /\ DispatchedOnce' /\ ChildTurnMatchesCompletion'
  BY <1>3
  DEF Inv, RowsOK, AuthoritiesOK, DispatchedOnce, ChildTurnMatchesCompletion, rows, workers
<1>6. OutboxMatchesTerminal'
  BY <1>1, <1>2, <1>3 DEF Inv, TypeOK, OutboxMatchesTerminal, rows
<1>7. DeliveriesOK'
  BY <1>1, <1>2 DEF Inv, TypeOK, DeliveriesOK
<1> QED
  BY <1>4, <1>5, <1>6, <1>7 DEF Inv

\* Every step of the store preserves the invariant.
LEMMA NextInv == Inv /\ [Next]_vars => Inv'
<1> SUFFICES ASSUME Inv, [Next]_vars PROVE Inv'
  OBVIOUS
<1>1. CASE AcceptNext
  BY <1>1, ChildSessionInv, CreateInv DEF AcceptNext
<1>2. CASE WorkerNext
  <2> SUFFICES ASSUME NEW w \in Worker, NEW d \in Delegation,
                 \/ ReloadAuthority(w, d)
                 \/ \E t \in Timestamp, lease \in Timestamp :
                      \/ \E g \in SnapshotGeneration(d) :
                           ClaimDelegation(w, d, g, t, lease)
                      \/ Heartbeat(w, d, t, lease)
                 \/ \E t \in Timestamp, o \in Terminal, r \in Reason :
                      Finish(w, d, o, r, t)
                 \/ \E t \in Timestamp, cg \in 1 .. childGen[d] :
                      CompleteChild(w, d, cg, t)
               PROVE Inv'
    BY <1>2 DEF WorkerNext
  <2>1. SnapshotGeneration(d) \subseteq Nat /\ 1 .. childGen[d] \subseteq Nat
    BY DEF SnapshotGeneration, Inv, TypeOK, Row
  <2> QED
    BY <2>1, ReloadAuthorityInv, ClaimInv, HeartbeatInv, FinishInv, CompleteChildInv
<1>3. CASE OperatorNext
  <2> SUFFICES ASSUME NEW d \in Delegation, NEW r \in Reason, NEW t \in Timestamp,
                      NEW g \in SnapshotGeneration(d), Cancel(d, g, r, t)
               PROVE  Inv'
    BY <1>3 DEF OperatorNext
  <2>1. g \in Nat
    BY DEF SnapshotGeneration, Inv, TypeOK, Row
  <2> QED
    BY <2>1, CancelPendingInv, CancelRunningInv DEF Cancel
<1>4. CASE ReconcileNext
  BY <1>4, SettleAllInv DEF ReconcileNext, ReconcileExpired, ReconcileRunning, Expired
<1>5. CASE DeliveryNext
  <2> SUFFICES ASSUME NEW d \in Delegation, NEW k \in Claim,
                 \/ ReleaseCompletion(k, d)
                 \/ \E t \in Timestamp :
                      \/ AcknowledgeCompletion(k, d, t)
                      \/ \E expires \in Timestamp : ClaimCompletion(k, d, t, expires)
               PROVE  Inv'
    BY <1>5 DEF DeliveryNext
  <2> QED
    BY DeliveryInv, TimestampAssumption
<1>6. CASE ForeignNext
  BY <1>6, ChildSessionInv DEF ForeignNext
<1>7. CASE UNCHANGED vars
  BY <1>7
  DEF Inv, TypeOK, RowsOK, AuthoritiesOK, DispatchedOnce, OutboxMatchesTerminal,
      ChildTurnMatchesCompletion, DeliveriesOK, vars, rows, workers, outbox
<1> QED
  BY <1>1, <1>2, <1>3, <1>4, <1>5, <1>6, <1>7 DEF Next

LEMMA InvariantHolds == Spec => []Inv
  BY InitInv, NextInv, PTL DEF Spec

-----------------------------------------------------------------------------
(* Theorems.                                                               *)

\* No row, outbox record or remembered authority ever leaves its type; in
\* particular a delegation is never given a second fencing token.
THEOREM TypeCorrect == Spec => []TypeOK
<1>1. Inv => TypeOK
  BY DEF Inv
<1> QED
  BY <1>1, InvariantHolds, PTL

\* A delegation is terminal exactly when its completion event is in the
\* outbox, and the event repeats the row's outcome, reason and time.
THEOREM OutboxAtomic == Spec => []OutboxMatchesTerminal
<1>1. Inv => OutboxMatchesTerminal
  BY DEF Inv
<1> QED
  BY <1>1, InvariantHolds, PTL

\* A child transcript holds the delegated turn exactly when complete_child
\* completed its delegation; the successes that finish records have none.
THEOREM ChildTurnAtomic == Spec => []ChildTurnMatchesCompletion
<1>1. Inv => ChildTurnMatchesCompletion
  BY DEF Inv
<1> QED
  BY <1>1, InvariantHolds, PTL

\* Work is handed to at most one worker, once, and never once cancelled.
THEOREM NoReplay == Spec => []DispatchedOnce
<1>1. Inv => DispatchedOnce
  BY DEF Inv
<1> QED
  BY <1>1, InvariantHolds, PTL

\* No expired row can make the reconciliation batch fail.
THEOREM ReconciliationTotal == Spec => []ExpiryBatchNeverAborts
<1>1. ASSUME Inv, NEW t \in Timestamp, NEW d \in Expired(t)
      PROVE  Reconcilable(d, t)
  <2>1. /\ delegations[d] \in Row /\ RowShape(delegations[d]) /\ d \in Delegation
        /\ delegations[d].state = "running" /\ delegations[d].lease <= t /\ t \in Nat
    BY <1>1, TimestampAssumption DEF Inv, TypeOK, RowsOK, Expired, Running
  <2>2. EnsureMonotonic(d, t) /\ CancellationReadable(d)
    BY <2>1 DEF RowShape, Row, EnsureMonotonic, CancellationReadable
  <2>3. Unpublished(d)
    BY <1>1, <2>1 DEF Inv, OutboxMatchesTerminal, Terminal, Unpublished
  <2> QED
    BY <2>2, <2>3 DEF Reconcilable
<1>2. Inv => ExpiryBatchNeverAborts
  BY <1>1 DEF ExpiryBatchNeverAborts
<1> QED
  BY <1>2, InvariantHolds, PTL

\* A worker that still holds the row's generation owns a running row.
THEOREM FencedAuthority == Spec => []CurrentAuthorityIsOwner
<1>1. Inv => CurrentAuthorityIsOwner
  BY DEF Inv, AuthoritiesOK, AuthorityShape, CurrentAuthorityIsOwner
<1> QED
  BY <1>1, InvariantHolds, PTL

\* At most one of the claims handed out for an event delivers it.
THEOREM SingleDelivery == Spec => []DeliveredToOneHolder
<1>1. ASSUME Inv, NEW d \in Delegation
      PROVE  /\ Cardinality(accepted[d]) <= 1
             /\ accepted[d] # {} <=> completions[d].state = "delivered"
  <2>1. CASE completions[d].state = "delivered"
    <3>1. PICK k \in Claim : accepted[d] = {k}
      BY <1>1, <2>1 DEF Inv, DeliveriesOK
    <3>2. Cardinality(accepted[d]) = 1
      BY <3>1, FS_Singleton
    <3> QED
      BY <2>1, <3>1, <3>2
  <2>2. CASE completions[d].state # "delivered"
    <3>1. accepted[d] = {} /\ Cardinality({}) = 0
      BY <1>1, <2>2, FS_EmptySet DEF Inv, DeliveriesOK
    <3> QED
      BY <2>2, <3>1
  <2> QED
    BY <2>1, <2>2
<1>2. Inv => DeliveredToOneHolder
  BY <1>1 DEF DeliveredToOneHolder
<1> QED
  BY <1>2, InvariantHolds, PTL

-----------------------------------------------------------------------------
(* Refinement of DelegationLifecycle.                                      *)

\* An abstract step, column by column.
LEMMA AdvanceByColumns ==
  ASSUME NEW p \in Lifecycle!Promise, NEW q \in Lifecycle!Promise,
         \/ /\ p.life = "absent" /\ q.life = "pending"
            /\ \A f \in {"intent", "reason", "turns", "notice"} : q[f] = p[f]
         \/ /\ p.life = "pending" /\ q.life = "running"
            /\ \A f \in {"intent", "reason", "turns", "notice"} : q[f] = p[f]
         \/ /\ p.life = "running" /\ p.intent = Null /\ q.intent \in Reason
            /\ \A f \in {"life", "reason", "turns", "notice"} : q[f] = p[f]
         \/ /\ p.life = "running" /\ p.intent = Null /\ q.life = "completed"
            /\ q.turns \in {0, 1} /\ q.notice = "published"
            /\ \A f \in {"intent", "reason"} : q[f] = p[f]
         \/ /\ p.life = "running" /\ p.intent = Null
            /\ q.life \in {"failed", "outcome_unknown"} /\ q.notice = "published"
            /\ \A f \in {"intent", "reason", "turns"} : q[f] = p[f]
         \/ /\ p.life = "pending" \/ (p.life = "running" /\ p.intent = q.reason)
            /\ q.life = "cancelled" /\ q.intent = Null /\ q.reason \in Reason
            /\ q.notice = "published" /\ q.turns = p.turns
         \/ /\ p.notice = "published" /\ q.notice = "delivered"
            /\ \A f \in {"life", "intent", "reason", "turns"} : q[f] = p[f]
  PROVE  Lifecycle!Advance(p, q)
<1> USE DEF Lifecycle!Promise, Lifecycle!Outcome
<1>1. CASE p.life = "absent" /\ q.life = "pending"
           /\ \A f \in {"intent", "reason", "turns", "notice"} : q[f] = p[f]
  BY <1>1 DEF Lifecycle!Advance, Lifecycle!Accept
<1>2. CASE p.life = "pending" /\ q.life = "running"
           /\ \A f \in {"intent", "reason", "turns", "notice"} : q[f] = p[f]
  BY <1>2 DEF Lifecycle!Advance, Lifecycle!Dispatch
<1>3. CASE p.life = "running" /\ p.intent = Null /\ q.intent \in Reason
           /\ \A f \in {"life", "reason", "turns", "notice"} : q[f] = p[f]
  <2>1. q = [p EXCEPT !.intent = q.intent]
    BY <1>3
  <2> QED
    BY <1>3, <2>1 DEF Lifecycle!Advance, Lifecycle!RequestCancel
<1>4. CASE p.life = "running" /\ p.intent = Null /\ q.life = "completed"
           /\ q.turns \in {0, 1} /\ q.notice = "published"
           /\ \A f \in {"intent", "reason"} : q[f] = p[f]
  BY <1>4 DEF Lifecycle!Advance, Lifecycle!Succeed
<1>5. CASE p.life = "running" /\ p.intent = Null
           /\ q.life \in {"failed", "outcome_unknown"} /\ q.notice = "published"
           /\ \A f \in {"intent", "reason", "turns"} : q[f] = p[f]
  <2>1. q = [p EXCEPT !.life = q.life, !.notice = "published"]
    BY <1>5
  <2> QED
    BY <1>5, <2>1 DEF Lifecycle!Advance, Lifecycle!GiveUp
<1>6. CASE (p.life = "pending" \/ (p.life = "running" /\ p.intent = q.reason))
           /\ q.life = "cancelled" /\ q.intent = Null /\ q.reason \in Reason
           /\ q.notice = "published" /\ q.turns = p.turns
  <2>1. q = [p EXCEPT !.life = "cancelled", !.intent = Null, !.reason = q.reason,
                      !.notice = "published"]
    BY <1>6
  <2> QED
    BY <1>6, <2>1 DEF Lifecycle!Advance, Lifecycle!Cancel
<1>7. CASE p.notice = "published" /\ q.notice = "delivered"
           /\ \A f \in {"life", "intent", "reason", "turns"} : q[f] = p[f]
  BY <1>7 DEF Lifecycle!Advance, Lifecycle!Deliver
<1> QED
  BY <1>1, <1>2, <1>3, <1>4, <1>5, <1>6, <1>7

LEMMA PromiseType ==
  ASSUME Inv, NEW d \in Delegation
  PROVE  PromiseOf(d) \in Lifecycle!Promise
  BY DEF Inv, TypeOK, ChildTurnMatchesCompletion, PromiseOf, Lifecycle!Promise,
         Lifecycle!Outcome, Row, State, Terminal, Notice

LEMMA PromiseTypeNext ==
  ASSUME Inv', NEW d \in Delegation
  PROVE  PromiseOf(d)' \in Lifecycle!Promise
  BY DEF Inv, TypeOK, ChildTurnMatchesCompletion, PromiseOf, Lifecycle!Promise,
         Lifecycle!Outcome, Row, State, Terminal, Notice

LEMMA InitRefines == Init => Lifecycle!Init
<1> SUFFICES ASSUME Init, NEW d \in Delegation
             PROVE  PromiseOf(d) = Lifecycle!Unaccepted
  BY DEF Lifecycle!Init
<1> QED
  BY DEF Init, PromiseOf, Lifecycle!Unaccepted, NoRow, NoCompletion, Notice

\* What one step does to what is promised about delegation e.
Advances(e) ==
  \/ PromiseOf(e)' = PromiseOf(e)
  \/ Lifecycle!Advance(PromiseOf(e), PromiseOf(e)')

\* Terminal writes: the row settles as o, for reason r, and the event says so.
LEMMA SettlementAdvances ==
  ASSUME Inv, Inv', NEW e \in Delegation, NEW o \in Terminal,
         NEW r \in Reason \cup {Null}, NEW t \in Nat,
         delegations[e].state = "running", Unpublished(e),
         \/ delegations[e].intent = Null /\ o # "cancelled"
         \/ delegations[e].intent = r /\ r \in Reason /\ o = "cancelled",
         delegations'[e] = Settled(delegations[e], o, r, t),
         completions'[e] = Published(o, r, t)
  PROVE  Advances(e)
<1> DEFINE p == PromiseOf(e)
           q == PromiseOf(e)'
<1>1. p \in Lifecycle!Promise /\ q \in Lifecycle!Promise
  BY PromiseType, PromiseTypeNext
<1>2. /\ p.life = "running" /\ p.intent = delegations[e].intent /\ p.reason = Null
      /\ p.turns = 0
  BY DEF PromiseOf, Inv, RowsOK, RowShape, ChildTurnMatchesCompletion
<1>3. /\ q.life = o /\ q.intent = Null
      /\ q.reason = (IF o = "cancelled" THEN r ELSE Null)
      /\ q.turns = (IF o = "completed" /\ e \notin turnless' THEN 1 ELSE 0)
      /\ q.notice = "published"
  <2>1. /\ delegations'[e].state = o /\ delegations'[e].intent = Null
        /\ delegations'[e].reason = (IF o = "cancelled" THEN r ELSE Null)
    BY SettledRow DEF Inv, TypeOK
  <2>2. completions'[e].state = "pending"
    BY PublishedCompletion
  <2>3. childTurns'[e] = (IF o = "completed" /\ e \notin turnless' THEN 1 ELSE 0)
    BY <2>1 DEF Inv, ChildTurnMatchesCompletion
  <2> QED
    BY <2>1, <2>2, <2>3 DEF PromiseOf, Notice
<1> HIDE DEF p, q
<1>4. Lifecycle!Advance(p, q)
  BY <1>1, <1>2, <1>3, AdvanceByColumns DEF Terminal
<1> QED
  BY <1>4 DEF p, q, Advances

LEMMA StutterAdvances ==
  ASSUME NEW e \in Delegation,
         delegations'[e].state = delegations[e].state,
         delegations'[e].intent = delegations[e].intent,
         delegations'[e].reason = delegations[e].reason,
         childTurns'[e] = childTurns[e],
         completions'[e].state = completions[e].state
  PROVE  Advances(e)
  BY DEF Advances, PromiseOf, Notice

LEMMA AcceptAdvances ==
  ASSUME Inv, Inv', NEW e \in Delegation, AcceptNext
  PROVE  Advances(e)
<1>1. PICK d \in Delegation :
        \/ CreateChildSession(d)
        \/ \E p \in Session, t \in Timestamp : Create(d, p, t) \/ CreateWithChild(d, p, t)
  BY DEF AcceptNext
<1>2. CASE e # d \/ CreateChildSession(d)
  BY <1>1, <1>2, StutterAdvances
  DEF Inv, TypeOK, CreateChildSession, Create, CreateWithChild, outbox
<1>3. CASE e = d /\ ~ CreateChildSession(d)
  <2>1. PICK x \in Session, t \in Timestamp :
          /\ delegations[e].state = "absent"
          /\ delegations'[e] = Accepted(x, t)
          /\ childTurns' = childTurns /\ completions' = completions
    BY <1>1, <1>3 DEF Inv, TypeOK, Create, CreateWithChild, outbox
  <2> DEFINE p == PromiseOf(e)
             q == PromiseOf(e)'
  <2>2. p \in Lifecycle!Promise /\ q \in Lifecycle!Promise
    BY PromiseType, PromiseTypeNext
  <2>3. /\ p.life = "absent" /\ p.intent = Null /\ p.reason = Null
    BY <2>1 DEF PromiseOf, Inv, RowsOK, RowShape
  <2>4. /\ q.life = "pending" /\ q.intent = Null /\ q.reason = Null
    BY <2>1, AcceptedRow, TimestampAssumption DEF PromiseOf, Inv, RowsOK, RowShape
  <2>5. q.turns = p.turns /\ q.notice = p.notice
    BY <2>1 DEF PromiseOf
  <2> HIDE DEF p, q
  <2>6. Lifecycle!Advance(p, q)
    BY <2>2, <2>3, <2>4, <2>5, AdvanceByColumns
  <2> QED
    BY <2>6 DEF p, q, Advances
<1> QED
  BY <1>2, <1>3

LEMMA ClaimAdvances ==
  ASSUME Inv, Inv', NEW e \in Delegation, NEW w \in Worker, NEW d \in Delegation,
         NEW g, NEW t \in Timestamp, NEW lease \in Timestamp,
         ClaimDelegation(w, d, g, t, lease)
  PROVE  Advances(e)
<1>1. CASE e # d
  BY <1>1, StutterAdvances DEF Inv, TypeOK, ClaimDelegation, outbox
<1>2. CASE e = d
  <2>1. /\ delegations[e] \in Row /\ RowShape(delegations[e])
        /\ delegations[e].state = "pending" /\ delegations[e].updated <= t /\ t < lease
        /\ t \in Nat /\ lease \in Nat
        /\ delegations'[e] = Claimed(delegations[e], w, t, lease)
        /\ childTurns' = childTurns /\ completions' = completions
    BY <1>2, TimestampAssumption
    DEF Inv, TypeOK, RowsOK, ClaimDelegation, Claimable, EnsureMonotonic, outbox
  <2>2. /\ delegations'[e].state = "running" /\ delegations'[e].intent = Null
        /\ delegations'[e].reason = Null
    BY <2>1, ClaimedRow
  <2> DEFINE p == PromiseOf(e)
             q == PromiseOf(e)'
  <2>3. p \in Lifecycle!Promise /\ q \in Lifecycle!Promise
    BY PromiseType, PromiseTypeNext
  <2>4. /\ p.life = "pending" /\ p.intent = Null /\ p.reason = Null
        /\ q.life = "running" /\ q.intent = Null /\ q.reason = Null
        /\ q.turns = p.turns /\ q.notice = p.notice
    BY <2>1, <2>2 DEF PromiseOf, RowShape
  <2> HIDE DEF p, q
  <2>5. Lifecycle!Advance(p, q)
    BY <2>3, <2>4, AdvanceByColumns
  <2> QED
    BY <2>5 DEF p, q, Advances
<1> QED
  BY <1>1, <1>2

LEMMA WorkerAdvances ==
  ASSUME Inv, Inv', NEW e \in Delegation, WorkerNext
  PROVE  Advances(e)
<1> SUFFICES ASSUME NEW w \in Worker, NEW d \in Delegation,
               \/ ReloadAuthority(w, d)
               \/ \E t \in Timestamp, lease \in Timestamp :
                    \/ \E g \in SnapshotGeneration(d) : ClaimDelegation(w, d, g, t, lease)
                    \/ Heartbeat(w, d, t, lease)
               \/ \E t \in Timestamp, o \in Terminal, r \in Reason :
                    Finish(w, d, o, r, t)
               \/ \E t \in Timestamp, cg \in 1 .. childGen[d] : CompleteChild(w, d, cg, t)
             PROVE Advances(e)
  BY DEF WorkerNext
<1>1. CASE ReloadAuthority(w, d)
  BY <1>1, StutterAdvances DEF ReloadAuthority, rows, outbox
<1>2. ASSUME NEW t \in Timestamp, NEW lease \in Timestamp, NEW g,
             ClaimDelegation(w, d, g, t, lease)
      PROVE  Advances(e)
  BY <1>2, ClaimAdvances
<1>3. ASSUME NEW t \in Timestamp, NEW lease \in Timestamp, Heartbeat(w, d, t, lease)
      PROVE  Advances(e)
  <2>1. CASE e # d
    BY <1>3, <2>1, StutterAdvances DEF Inv, TypeOK, Heartbeat, outbox
  <2>2. CASE e = d
    <3>1. /\ delegations[e] \in Row
          /\ delegations'[e] = [Touched(delegations[e], t) EXCEPT !.lease = lease]
          /\ childTurns' = childTurns /\ completions' = completions /\ t \in Nat
      BY <1>3, <2>2, TimestampAssumption DEF Inv, TypeOK, Heartbeat, Renewed, outbox
    <3>2. \A f \in {"state", "intent", "reason"} :
            delegations'[e][f] = Touched(delegations[e], t)[f]
      BY <3>1, TouchedRow DEF Row
    <3> QED
      BY <3>1, <3>2, TouchedRow, StutterAdvances
  <2> QED
    BY <2>1, <2>2
<1>4. ASSUME NEW t \in Timestamp, NEW o \in Terminal, NEW r \in Reason,
             Finish(w, d, o, r, t)
      PROVE  Advances(e)
  <2>1. CASE e # d
    BY <1>4, <2>1, StutterAdvances DEF Inv, TypeOK, Finish, Settle
  <2>2. CASE e = d
    <3>1. /\ delegations[e].state = "running" /\ Unpublished(e) /\ t \in Nat
          /\ \/ delegations[e].intent = Null /\ o # "cancelled"
             \/ delegations[e].intent = r /\ o = "cancelled"
          /\ delegations'[e] = Settled(delegations[e], o, r, t)
          /\ completions'[e] = Published(o, r, t)
      BY <1>4, <2>2, TimestampAssumption
      DEF Inv, TypeOK, Finish, OwnsLive, EnsureRunningFence, EnsureLegalTerminal, Settle
    <3> QED
      BY <3>1, SettlementAdvances DEF Terminal
  <2> QED
    BY <2>1, <2>2
<1>5. ASSUME NEW t \in Timestamp, NEW cg, CompleteChild(w, d, cg, t)
      PROVE  Advances(e)
  <2>1. CASE e # d
    BY <1>5, <2>1, StutterAdvances DEF Inv, TypeOK, CompleteChild, Settle
  <2>2. CASE e = d
    <3>1. /\ delegations[e].state = "running" /\ Unpublished(e) /\ t \in Nat
          /\ delegations[e].intent = Null
          /\ delegations'[e] = Settled(delegations[e], "completed", Null, t)
          /\ completions'[e] = Published("completed", Null, t)
      BY <1>5, <2>2, TimestampAssumption
      DEF Inv, TypeOK, CompleteChild, OwnsLive, EnsureRunningFence,
          EnsureLegalTerminal, Settle
    <3> QED
      BY <3>1, SettlementAdvances DEF Terminal
  <2> QED
    BY <2>1, <2>2
<1> QED
  BY <1>1, <1>2, <1>3, <1>4, <1>5

LEMMA OperatorAdvances ==
  ASSUME Inv, Inv', NEW e \in Delegation, OperatorNext
  PROVE  Advances(e)
<1>1. PICK d \in Delegation, r \in Reason, t \in Timestamp :
        \E g \in SnapshotGeneration(d) : Cancel(d, g, r, t)
  BY DEF OperatorNext
<1>2. CASE e # d
  BY <1>1, <1>2, StutterAdvances
  DEF Inv, TypeOK, Cancel, CancelPending, CancelRunning, outbox
<1> DEFINE p == PromiseOf(e)
           q == PromiseOf(e)'
<1>3. p \in Lifecycle!Promise /\ q \in Lifecycle!Promise /\ t \in Nat
  BY PromiseType, PromiseTypeNext, TimestampAssumption
<1>4. ASSUME e = d, NEW g, CancelPending(d, g, r, t)
      PROVE  Advances(e)
  <2>1. /\ delegations[e] \in Row /\ RowShape(delegations[e])
        /\ delegations[e].state = "pending" /\ delegations[e].updated <= t
        /\ delegations'[e] = CancelledPending(delegations[e], r, t)
        /\ completions'[e] = Published("cancelled", r, t)
        /\ childTurns' = childTurns
    BY <1>4 DEF Inv, TypeOK, RowsOK, CancelPending, EnsureMonotonic
  <2>2. /\ delegations'[e].state = "cancelled" /\ delegations'[e].intent = Null
        /\ delegations'[e].reason = r
    BY <1>3, <2>1, CancelledPendingRow
  <2>3. completions'[e].state = "pending"
    BY <1>3, <2>1, PublishedCompletion DEF Terminal
  <2>4. /\ p.life = "pending" /\ q.life = "cancelled" /\ q.intent = Null
        /\ q.reason = r /\ q.notice = "published" /\ q.turns = p.turns
    BY <2>1, <2>2, <2>3 DEF PromiseOf, Notice
  <2> HIDE DEF p, q
  <2>5. Lifecycle!Advance(p, q)
    BY <1>3, <2>4, AdvanceByColumns
  <2> QED
    BY <2>5 DEF p, q, Advances
<1>5. ASSUME e = d, NEW g, CancelRunning(d, g, r, t)
      PROVE  Advances(e)
  <2>1. /\ delegations[e] \in Row
        /\ delegations[e].state = "running" /\ delegations[e].intent = Null
        /\ delegations'[e] = CancelRequested(delegations[e], r, t)
        /\ completions' = completions /\ childTurns' = childTurns
    BY <1>5 DEF Inv, TypeOK, CancelRunning, EnsureNoCancellation, outbox
  <2>2. /\ delegations'[e].state = "running" /\ delegations'[e].intent = r
        /\ delegations'[e].reason = delegations[e].reason
    BY <1>3, <2>1 DEF CancelRequested, Row
  <2>3. /\ p.life = "running" /\ p.intent = Null /\ q.intent = r
        /\ \A f \in {"life", "reason", "turns", "notice"} : q[f] = p[f]
    BY <2>1, <2>2 DEF PromiseOf
  <2> HIDE DEF p, q
  <2>4. Lifecycle!Advance(p, q)
    BY <1>3, <2>3, AdvanceByColumns
  <2> QED
    BY <2>4 DEF p, q, Advances
<1> QED
  BY <1>1, <1>2, <1>4, <1>5 DEF Cancel

LEMMA ReconcileAdvances ==
  ASSUME Inv, Inv', NEW e \in Delegation, ReconcileNext
  PROVE  Advances(e)
<1>1. PICK t \in Timestamp, S \in SUBSET Running : SettleAll(S, t)
  BY DEF ReconcileNext, ReconcileExpired, ReconcileRunning, Expired
<1>2. SettleAll(S, t)
  BY <1>1
<1>3. CASE e \notin S
  <2>1. /\ delegations'[e] = delegations[e] /\ completions'[e] = completions[e]
        /\ childTurns' = childTurns
    BY <1>2, <1>3 DEF SettleAll
  <2> QED
    BY <2>1, StutterAdvances
<1>4. CASE e \in S
  <2> DEFINE o == ReconciliationOutcome(e)
             r == delegations[e].intent
  <2>1. /\ delegations[e].state = "running" /\ Unpublished(e) /\ t \in Nat
        /\ delegations'[e] = Settled(delegations[e], o, r, t)
        /\ completions'[e] = Published(o, r, t)
    BY <1>2, <1>4, TimestampAssumption DEF SettleAll, Reconcilable, Running
  <2>2. /\ o \in Terminal /\ r \in Reason \cup {Null}
        /\ \/ r = Null /\ o # "cancelled"
           \/ r \in Reason /\ o = "cancelled"
    BY DEF ReconciliationOutcome, Terminal, Inv, TypeOK, Row
  <2> HIDE DEF o
  <2> QED
    BY <2>1, <2>2, SettlementAdvances
<1> QED
  BY <1>3, <1>4

LEMMA DeliveryAdvances ==
  ASSUME Inv, Inv', NEW e \in Delegation, DeliveryNext
  PROVE  Advances(e)
<1>1. PICK d \in Delegation, k \in Claim :
        \/ ReleaseCompletion(k, d)
        \/ \E t \in Timestamp :
             \/ AcknowledgeCompletion(k, d, t)
             \/ \E expires \in Timestamp : ClaimCompletion(k, d, t, expires)
  BY DEF DeliveryNext
<1>2. /\ delegations' = delegations /\ childTurns' = childTurns
      /\ completions[d].state = "pending"
      /\ \/ completions'[e].state = completions[e].state
         \/ e = d /\ completions'[e].state = "delivered"
  <2> USE DEF Inv, TypeOK, Completion, rows
  <2>1. CASE ReleaseCompletion(k, d)
    BY <2>1 DEF ReleaseCompletion
  <2>2. ASSUME NEW t, AcknowledgeCompletion(k, d, t)
        PROVE  /\ delegations' = delegations /\ childTurns' = childTurns
               /\ completions[d].state = "pending"
               /\ \/ completions'[e].state = completions[e].state
                  \/ e = d /\ completions'[e].state = "delivered"
    BY <2>2 DEF AcknowledgeCompletion, Deliverable
  <2>3. ASSUME NEW t, NEW expires, ClaimCompletion(k, d, t, expires)
        PROVE  /\ delegations' = delegations /\ childTurns' = childTurns
               /\ completions[d].state = "pending"
               /\ completions'[e].state = completions[e].state
    BY <2>3 DEF ClaimCompletion, Available
  <2> QED
    BY <1>1, <2>1, <2>2, <2>3
<1>3. CASE completions'[e].state = completions[e].state
  BY <1>2, <1>3, StutterAdvances
<1>4. CASE e = d /\ completions'[e].state = "delivered"
  <2> DEFINE p == PromiseOf(e)
             q == PromiseOf(e)'
  <2>1. p \in Lifecycle!Promise /\ q \in Lifecycle!Promise
    BY PromiseType, PromiseTypeNext
  <2>2. /\ p.notice = "published" /\ q.notice = "delivered"
        /\ \A f \in {"life", "intent", "reason", "turns"} : q[f] = p[f]
    BY <1>2, <1>4 DEF PromiseOf, Notice
  <2> HIDE DEF p, q
  <2>3. Lifecycle!Advance(p, q)
    BY <2>1, <2>2, AdvanceByColumns
  <2> QED
    BY <2>3 DEF p, q, Advances
<1> QED
  BY <1>2, <1>3, <1>4

LEMMA NextRefines ==
  Inv /\ Inv' /\ [Next]_vars
    => [Lifecycle!Next]_([d \in Delegation |-> PromiseOf(d)])
<1> SUFFICES ASSUME Inv, Inv', [Next]_vars, NEW e \in Delegation
             PROVE  Advances(e)
  BY DEF Lifecycle!Next, Advances
<1>1. CASE ForeignNext
  BY <1>1, StutterAdvances DEF ForeignNext, AppendForeignTurn, outbox
<1>2. CASE UNCHANGED vars
  BY <1>2, StutterAdvances DEF vars, rows, outbox
<1> QED
  BY <1>1, <1>2, AcceptAdvances, WorkerAdvances, OperatorAdvances, ReconcileAdvances,
     DeliveryAdvances DEF Next

\* Whoever calls it with whatever outcomes, the store implements the abstract
\* lifecycle: terminals are final, running work is cancelled only on and as
\* requested, nothing but a success extends the child's transcript, and that at
\* most once, and one notice is published with the terminal and
\* delivered once.
THEOREM StoreImplementsLifecycle == Spec => ImplementsLifecycle
  BY InitRefines, InvariantHolds, NextRefines, PTL
  DEF Spec, ImplementsLifecycle, Lifecycle!Spec
=============================================================================

------------------------- MODULE DelegationLifecycle -------------------------
(***************************************************************************)
(* What a durable delegation promises its parent, with no generations,     *)
(* fences, leases, claims or clocks: work is accepted, handed out at most  *)
(* once, settled once, and what it settled as is published and then        *)
(* delivered.  A cancellation requested of running work is binding.        *)
(***************************************************************************)
CONSTANTS
  Delegation, Reason, Null,
  TurnsOfSuccess   \* what a success may add to the child: {1} if always its turn

VARIABLE promise   \* delegation identity -> what has been promised about it

Outcome == {"completed", "failed", "cancelled", "outcome_unknown"}

Promise ==
  [life : {"absent", "pending", "running"} \cup Outcome,
   intent : Reason \cup {Null},      \* cancellation asked of running work
   reason : Reason \cup {Null},      \* why cancelled work was cancelled
   turns : {0, 1},                   \* turns added to the child's transcript
   notice : {"none", "published", "delivered"}]

Unaccepted ==
  [life |-> "absent", intent |-> Null, reason |-> Null, turns |-> 0,
   notice |-> "none"]

Init == promise = [d \in Delegation |-> Unaccepted]

Accept(p, q)   == p.life = "absent"  /\ q = [p EXCEPT !.life = "pending"]
Dispatch(p, q) == p.life = "pending" /\ q = [p EXCEPT !.life = "running"]

RequestCancel(p, q) ==
  /\ p.life = "running"
  /\ p.intent = Null
  /\ \E r \in Reason : q = [p EXCEPT !.intent = r]

\* Success is the only outcome that adds to the child's transcript.
Succeed(p, q) ==
  /\ p.life = "running"
  /\ p.intent = Null
  /\ \E n \in TurnsOfSuccess :
       q = [p EXCEPT !.life = "completed", !.turns = n, !.notice = "published"]

GiveUp(p, q) ==
  /\ p.life = "running"
  /\ p.intent = Null
  /\ \E o \in {"failed", "outcome_unknown"} :
       q = [p EXCEPT !.life = o, !.notice = "published"]

\* Running work is cancelled only on request and for the reason requested.
Cancel(p, q) ==
  \E r \in Reason :
    /\ p.life = "pending" \/ (p.life = "running" /\ p.intent = r)
    /\ q = [p EXCEPT !.life = "cancelled", !.intent = Null, !.reason = r,
                     !.notice = "published"]

Deliver(p, q) == p.notice = "published" /\ q = [p EXCEPT !.notice = "delivered"]

Advance(p, q) ==
  \/ Accept(p, q)
  \/ Dispatch(p, q)
  \/ RequestCancel(p, q)
  \/ Succeed(p, q)
  \/ GiveUp(p, q)
  \/ Cancel(p, q)
  \/ Deliver(p, q)

\* One step may advance several delegations: reconciliation is a batch.
Next ==
  /\ promise' = [d \in Delegation |-> promise'[d]]
  /\ \A d \in Delegation :
       promise'[d] = promise[d] \/ Advance(promise[d], promise'[d])

Spec == Init /\ [][Next]_promise
=============================================================================

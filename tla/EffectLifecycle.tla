-------------------------- MODULE EffectLifecycle --------------------------
(* What the effect ledger and the approval boundary promise of one tool    *)
(* invocation, whoever runs it and however often the process dies: it is   *)
(* planned before anything happens, a call that needs a decision gets it   *)
(* from the client before it is dispatched, a denied call is rejected      *)
(* without dispatch, and a finished call is never touched again.  An       *)
(* invocation may rest at any stage for ever: that is what the pending     *)
(* list of the ledger shows.                                               *)
CONSTANT Invocation

VARIABLES
  stage,      \* [Invocation -> Stage]
  consent     \* the invocations the client decided to allow

vars == <<stage, consent>>

Stage == {"absent", "planned", "pending", "allowed", "denied",
          "dispatched", "finished", "rejected"}

(* The moves of one invocation, the consent it has when it moves given. *)
Move(agreed) ==
  {<<"absent", "planned">>, <<"absent", "pending">>,
   <<"pending", "denied">>, <<"denied", "rejected">>,
   <<"planned", "dispatched">>, <<"allowed", "dispatched">>,
   <<"dispatched", "finished">>}
  \union (IF agreed THEN {<<"pending", "allowed">>} ELSE {})

Init ==
  /\ stage = [i \in Invocation |-> "absent"]
  /\ consent = {}

(* A batch moves together: plans, decisions and results are journalled in  *)
(* one transaction each.                                                   *)
Advance ==
  /\ stage' \in [Invocation -> Stage]
  /\ \A i \in Invocation :
       stage'[i] = stage[i] \/ <<stage[i], stage'[i]>> \in Move(i \in consent)
  /\ UNCHANGED consent

(* The client allows a call it was shown, which was planned before. *)
Consent ==
  \E i \in Invocation :
    /\ stage[i] # "absent"
    /\ consent' = consent \union {i}
    /\ UNCHANGED stage

Next == Advance \/ Consent

Spec == Init /\ [][Next]_vars
=============================================================================

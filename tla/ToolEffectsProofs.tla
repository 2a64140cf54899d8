--------------------------- MODULE ToolEffectsProofs ---------------------------
(***************************************************************************)
(* Proofs about the tool effects of a session, for every set of calls, any *)
(* batches, attempts, scopes and crashes.                                  *)
(*                                                                         *)
(* The invariant says, of the batch the turn works on, how far the ledger, *)
(* the decision and the starts have come in each phase, and why an answer  *)
(* on its way can only be about the call that is waited for: a plan is     *)
(* made only while no request is shown and no answer is on its way.        *)
(***************************************************************************)
EXTENDS ToolEffects, TLAPS

(* Between batches nothing is held. *)
Resting == {"idle", "attempt", "ended"}
Journalled == {"emit", "await", "suspended", "decide", "execute"}

AtRest ==
  pc \in Resting => batch = {} /\ waiter = NoCall /\ decision = "none"

OutcomesOK ==
  /\ pc # "execute" => \A c \in Call : outcome[c] = "none"
  /\ \A c \in Call \ batch : outcome[c] = "none"

SeenOK ==
  /\ pc \in {"idle", "ended"} => seen = {}
  /\ InvocationsOf(batch) \subseteq seen

(* The turn waits for the only command of its batch, and the registry      *)
(* holds that one call until it is decided.                                *)
WaiterOK ==
  /\ batch \intersect Terminal = {waiter} \ {NoCall}
  /\ waiter = NoCall => decision = "none"
  /\ queue = <<>> \/ (waiter # NoCall /\ queue = <<waiter>> /\ decision = "none")
  /\ pc = "suspended" => waiter # NoCall
  /\ pc \in {"decide", "execute"} /\ waiter # NoCall => decision # "none"
  /\ pc = "decide" => waiter # NoCall

(* What is recorded of the batch in each phase. *)
BatchRow(c) ==
  /\ ledger[InvocationOf(c)].status = "planned"
  /\ pc # "execute" \/ c # waiter => ledger[InvocationOf(c)] = Planned(c)
  /\ pc = "execute" /\ c = waiter => ledger[InvocationOf(c)].approval = decision
  /\ dispatched[InvocationOf(c)] =
       IF outcome[c] \in {"running", "finished"} THEN 1 ELSE 0
  /\ outcome[c] = "rejected" => c = waiter /\ decision = "deny"

BatchOK == pc \in Journalled => \A c \in batch : BatchRow(c)

(* The request the client shows is of the call the turn waits for, unless  *)
(* the turn was interrupted or is over; no call is planned meanwhile.      *)
Waiting == waiter # NoCall /\ decision = "none" /\ pc \in {"await", "suspended"}
OverlayOK ==
  /\ overlay # NoCall =>
       /\ overlay \in Terminal
       /\ (overlay = waiter /\ Waiting) \/ cancelled \/ pc = "ended"
       /\ ledger[InvocationOf(overlay)].status # "absent"
       /\ dispatched[InvocationOf(overlay)] = 0
       /\ overlay # waiter => pc # "await" /\ pc # "suspended" /\ waiter = NoCall
  /\ pc \in {"idle", "journal", "emit"} => overlay = NoCall
  /\ decision = "allow" => overlay = NoCall

(* What the client was not shown, or has not answered, it said nothing of. *)
SaidOK ==
  /\ \A i \in Invocation : ledger[i].status = "absent" => said[i] = "none"
  /\ pc = "emit" /\ waiter # NoCall => said[InvocationOf(waiter)] = "none"
  /\ overlay # NoCall /\ answer = "none" => said[InvocationOf(overlay)] = "none"

AnswerOK ==
  /\ answer # "none" =>
       (overlay = waiter /\ Waiting) \/ cancelled \/ pc \in {"ended", "idle"}
  /\ answer # "none" /\ overlay # NoCall => said[InvocationOf(overlay)] = answer
  /\ pc \in {"journal", "emit"} =>
       answer = "none" /\ (decision = "none" \/ (decision = "deny" /\ cancelled))
  /\ decision = "allow" => said[InvocationOf(waiter)] = "allow"

InterruptOK ==
  /\ denying => cancelled \/ pc = "idle"
  /\ cancelled /\ ~denying => queue = <<>>

IInv ==
  /\ TypeOK
  /\ AtRest
  /\ OutcomesOK
  /\ SeenOK
  /\ WaiterOK
  /\ BatchOK
  /\ OverlayOK
  /\ SaidOK
  /\ AnswerOK
  /\ InterruptOK
  /\ LedgerAccountsForEffects
  /\ AllowedByClient
-----------------------------------------------------------------------------
(* Each step keeps the invariant, part by part. What the parts say of each *)
(* other is needed nearly everywhere, so they are expanded from here on.   *)

USE CallAssumption, ToolBoundAssumption
USE DEF CallAssumption, ToolBoundAssumption, IInv, TypeOK, AtRest, OutcomesOK, SeenOK,
        WaiterOK, BatchOK, BatchRow, OverlayOK, SaidOK, AnswerOK, InterruptOK, Waiting,
        LedgerAccountsForEffects, AllowedByClient, Resting, Journalled, durable, turn,
        control, client, history, InvocationOf, InvocationsOf, Invocation, Planned, Row,
        Outcome, Status, Approval

LEMMA InitHolds == Init => IInv
<1> SUFFICES ASSUME Init PROVE IInv
  OBVIOUS
<1>1. TypeOK
  <2>1. ledger \in [Invocation -> Row]
    BY DEF Init, NoRow
  <2>2. outcome \in [Call -> Outcome] /\ dispatched \in [Invocation -> 0 .. 1]
    BY DEF Init
  <2>3. said \in [Invocation -> {"none", "allow", "deny"}]
    BY DEF Init
  <2>4. cancelled \in BOOLEAN /\ denying \in BOOLEAN
    BY DEF Init
  <2> QED
    BY <2>1, <2>2, <2>3, <2>4 DEF Init
<1>2. AtRest /\ OutcomesOK /\ SeenOK /\ WaiterOK /\ BatchOK
  BY DEF Init
<1>3. OverlayOK /\ SaidOK /\ AnswerOK /\ InterruptOK
  BY DEF Init
<1>4. LedgerAccountsForEffects /\ AllowedByClient
  BY DEF Init, NoRow
<1> QED
  BY <1>1, <1>2, <1>3, <1>4

LEMMA NothingWithdrawnIsLeft ==
  ASSUME IInv
  PROVE  Withdrawn(RegisteredByTurn) = <<>>
BY DEF Withdrawn, RegisteredByTurn

LEMMA StopKeeps ==
  ASSUME IInv,
         NEW how \in {"completed", "failed", "interrupted"}, Stop(how), pc # "idle",
         UNCHANGED <<durable, client, history, crashes>>
  PROVE  IInv'
<1>1. TypeOK'
  <2>1. attempts' \in 0 .. AttemptBound /\ queue' = <<>>
    BY NothingWithdrawnIsLeft DEF Stop
  <2>2. outcome' \in [Call -> Outcome]
    BY DEF Stop
  <2> QED
    BY <2>1, <2>2 DEF Stop
<1>2. AtRest' /\ OutcomesOK' /\ SeenOK'
  BY DEF Stop
<1>3. WaiterOK'
  BY NothingWithdrawnIsLeft DEF Stop
<1>4. BatchOK'
  BY DEF Stop
<1>5. OverlayOK'
  BY DEF Stop
<1>6. AnswerOK' /\ InterruptOK'
  <2>1. queue' = <<>>
    BY NothingWithdrawnIsLeft DEF Stop
  <2>2. AnswerOK'
    BY DEF Stop
  <2>3. InterruptOK'
    BY <2>1 DEF Stop
  <2> QED
    BY <2>2, <2>3
<1>7. LedgerAccountsForEffects' /\ AllowedByClient'
  BY DEF Stop
<1>8. SaidOK'
  BY DEF Stop
<1> QED
  BY <1>1, <1>2, <1>3, <1>4, <1>5, <1>6, <1>7, <1>8

LEMMA ReportKeeps ==
  ASSUME IInv,
         Report
  PROVE  IInv'
<1>1. TypeOK'
  <2>1. scope' \in 1 .. ScopeBound
    BY DEF Report
  <2> QED
    BY <2>1 DEF Report
<1>2. AtRest' /\ OutcomesOK' /\ SeenOK'
  BY DEF Report
<1>3. WaiterOK'
  BY DEF Report
<1>4. BatchOK'
  BY DEF Report
<1>5. OverlayOK'
  BY DEF Report
<1>6. AnswerOK' /\ InterruptOK'
  BY DEF Report
<1>7. LedgerAccountsForEffects' /\ AllowedByClient'
  BY DEF Report
<1>8. SaidOK'
  BY DEF Report
<1> QED
  BY <1>1, <1>2, <1>3, <1>4, <1>5, <1>6, <1>7, <1>8

LEMMA StartKeeps ==
  ASSUME IInv,
         Start
  PROVE  IInv'
<1>1. TypeOK'
  BY DEF Start
<1>2. AtRest' /\ OutcomesOK' /\ SeenOK'
  BY DEF Start
<1>3. WaiterOK'
  BY DEF Start
<1>4. BatchOK'
  BY DEF Start
<1>5. OverlayOK'
  BY DEF Start
<1>6. AnswerOK' /\ InterruptOK'
  BY DEF Start
<1>7. LedgerAccountsForEffects' /\ AllowedByClient'
  BY DEF Start
<1>8. SaidOK'
  BY DEF Start
<1> QED
  BY <1>1, <1>2, <1>3, <1>4, <1>5, <1>6, <1>7, <1>8

LEMMA NextAttemptKeeps ==
  ASSUME IInv,
         pc = "attempt", NextAttempt, attempts < AttemptBound,
         UNCHANGED <<durable, client, history, crashes>>
  PROVE  IInv'
<1>1. TypeOK'
  BY DEF NextAttempt
<1>2. AtRest' /\ OutcomesOK' /\ SeenOK'
  BY DEF NextAttempt
<1>3. WaiterOK'
  BY DEF NextAttempt
<1>4. BatchOK'
  BY DEF NextAttempt
<1>5. OverlayOK'
  BY DEF NextAttempt
<1>6. AnswerOK' /\ InterruptOK'
  BY DEF NextAttempt
<1>7. LedgerAccountsForEffects' /\ AllowedByClient'
  BY DEF NextAttempt
<1>8. SaidOK'
  BY DEF NextAttempt
<1> QED
  BY <1>1, <1>2, <1>3, <1>4, <1>5, <1>6, <1>7, <1>8

LEMMA PlanKeeps ==
  ASSUME IInv,
         NEW calls \in Calls, PlanCalls(calls)
  PROVE  IInv'
<1>1. TypeOK'
  BY DEF PlanCalls, Plannable, AtMostOneTerminal, Calls
<1>2. AtRest' /\ OutcomesOK' /\ SeenOK'
  BY DEF PlanCalls, Plannable, AtMostOneTerminal, Calls
<1>3. WaiterOK'
  <2>1. queue = <<>> /\ decision = "none" /\ waiter = NoCall
    BY DEF PlanCalls
  <2>2. CASE calls \intersect Terminal = {}
    BY <2>1, <2>2 DEF PlanCalls
  <2>3. CASE calls \intersect Terminal # {}
    <3>1. PICK c \in calls \intersect Terminal : waiter' = c /\ queue' = Append(queue, c)
      BY <2>3 DEF PlanCalls
    <3>2. calls \intersect Terminal = {c}
      BY <3>1 DEF PlanCalls, Plannable, AtMostOneTerminal
    <3> QED
      BY <2>1, <3>1, <3>2 DEF PlanCalls
  <2> QED
    BY <2>2, <2>3
<1>4. BatchOK'
  BY DEF PlanCalls, Plannable, AtMostOneTerminal, Calls
<1>5. OverlayOK'
  BY DEF PlanCalls, Plannable, AtMostOneTerminal, Calls
<1>6. AnswerOK' /\ InterruptOK'
  BY DEF PlanCalls, Plannable, AtMostOneTerminal, Calls
<1>7. LedgerAccountsForEffects' /\ AllowedByClient'
  BY DEF PlanCalls, Plannable, AtMostOneTerminal, Calls
<1>8. SaidOK'
  BY DEF PlanCalls, Plannable, AtMostOneTerminal, Calls
<1> QED
  BY <1>1, <1>2, <1>3, <1>4, <1>5, <1>6, <1>7, <1>8

LEMMA JournalPlansKeeps ==
  ASSUME IInv,
         JournalPlans, Unplanned(batch)
  PROVE  IInv'
<1>1. TypeOK'
  BY DEF JournalPlans, Unplanned
<1>2. AtRest' /\ OutcomesOK' /\ SeenOK'
  BY DEF JournalPlans, Unplanned
<1>3. WaiterOK'
  BY DEF JournalPlans, Unplanned
<1>4. BatchOK'
  BY DEF JournalPlans, Unplanned
<1>5. OverlayOK'
  BY DEF JournalPlans, Unplanned
<1>6. AnswerOK' /\ InterruptOK'
  <2>1. /\ pc = "journal" /\ pc' = "emit"
        /\ UNCHANGED <<scope, waiter, decision, control, client, history>>
    BY DEF JournalPlans
  <2> QED
    BY <2>1
<1>7. LedgerAccountsForEffects' /\ AllowedByClient'
  <2>1. LedgerAccountsForEffects'
    BY DEF JournalPlans, Unplanned
  <2>2. AllowedByClient'
    BY DEF JournalPlans, Unplanned
  <2> QED
    BY <2>1, <2>2
<1>8. SaidOK'
  <2>1. ASSUME NEW i \in Invocation, ledger'[i].status = "absent" PROVE said[i] = "none"
    BY <2>1 DEF JournalPlans
  <2>2. waiter # NoCall => waiter \in batch
    BY DEF JournalPlans
  <2>3. waiter # NoCall => said[InvocationOf(waiter)] = "none"
    BY <2>2 DEF Unplanned
  <2> QED
    BY <2>1, <2>3 DEF JournalPlans
<1> QED
  BY <1>1, <1>2, <1>3, <1>4, <1>5, <1>6, <1>7, <1>8

LEMMA EmitKeeps ==
  ASSUME IInv,
         EmitRequests
  PROVE  IInv'
<1>1. TypeOK'
  BY DEF EmitRequests
<1>2. AtRest' /\ OutcomesOK' /\ SeenOK'
  BY DEF EmitRequests
<1>3. WaiterOK'
  BY DEF EmitRequests
<1>4. BatchOK'
  BY DEF EmitRequests
<1>5. OverlayOK'
  <2>1. CASE waiter = NoCall
    BY <2>1 DEF EmitRequests
  <2>2. CASE waiter # NoCall
    <3>1. waiter \in batch /\ waiter \in Terminal /\ BatchRow(waiter)
      BY <2>2 DEF EmitRequests
    <3> QED
      BY <2>2, <3>1 DEF EmitRequests
  <2> QED
    BY <2>1, <2>2
<1>6. AnswerOK' /\ InterruptOK'
  BY DEF EmitRequests
<1>7. LedgerAccountsForEffects' /\ AllowedByClient'
  BY DEF EmitRequests
<1>8. SaidOK'
  BY DEF EmitRequests
<1> QED
  BY <1>1, <1>2, <1>3, <1>4, <1>5, <1>6, <1>7, <1>8

LEMMA AwaitKeeps ==
  ASSUME IInv,
         AwaitDecision
  PROVE  IInv'
<1>1. TypeOK'
  BY DEF AwaitDecision
<1>2. AtRest' /\ OutcomesOK' /\ SeenOK'
  BY DEF AwaitDecision
<1>3. WaiterOK'
  BY DEF AwaitDecision
<1>4. BatchOK'
  BY DEF AwaitDecision
<1>5. OverlayOK'
  BY DEF AwaitDecision
<1>6. AnswerOK' /\ InterruptOK'
  BY DEF AwaitDecision
<1>7. LedgerAccountsForEffects' /\ AllowedByClient'
  BY DEF AwaitDecision
<1>8. SaidOK'
  BY DEF AwaitDecision
<1> QED
  BY <1>1, <1>2, <1>3, <1>4, <1>5, <1>6, <1>7, <1>8

LEMMA ResumeKeeps ==
  ASSUME IInv,
         Resume
  PROVE  IInv'
<1>1. TypeOK'
  BY DEF Resume, ResumeUnlessInterrupted
<1>2. AtRest' /\ OutcomesOK' /\ SeenOK'
  BY DEF Resume, ResumeUnlessInterrupted
<1>3. WaiterOK'
  BY DEF Resume, ResumeUnlessInterrupted
<1>4. BatchOK'
  BY DEF Resume, ResumeUnlessInterrupted
<1>5. OverlayOK'
  BY DEF Resume, ResumeUnlessInterrupted
<1>6. AnswerOK' /\ InterruptOK'
  BY DEF Resume, ResumeUnlessInterrupted
<1>7. LedgerAccountsForEffects' /\ AllowedByClient'
  BY DEF Resume, ResumeUnlessInterrupted
<1>8. SaidOK'
  BY DEF Resume, ResumeUnlessInterrupted
<1> QED
  BY <1>1, <1>2, <1>3, <1>4, <1>5, <1>6, <1>7, <1>8

LEMMA JournalDecisionKeeps ==
  ASSUME IInv,
         JournalDecision
  PROVE  IInv'
<1>1. TypeOK'
  BY DEF JournalDecision
<1>2. AtRest' /\ OutcomesOK' /\ SeenOK'
  BY DEF JournalDecision
<1>3. WaiterOK'
  BY DEF JournalDecision
<1>4. BatchOK'
  <2>1. ASSUME NEW c \in batch PROVE BatchRow(c)'
    <3>1. BatchRow(c) /\ waiter \in batch
      BY DEF JournalDecision
    <3>2. CASE c = waiter
      BY <3>1, <3>2 DEF JournalDecision
    <3>3. CASE c # waiter
      BY <3>1, <3>3 DEF JournalDecision
    <3> QED
      BY <3>2, <3>3
  <2> QED
    BY <2>1 DEF JournalDecision
<1>5. OverlayOK'
  BY DEF JournalDecision
<1>6. AnswerOK' /\ InterruptOK'
  BY DEF JournalDecision
<1>7. LedgerAccountsForEffects' /\ AllowedByClient'
  BY DEF JournalDecision
<1>8. SaidOK'
  BY DEF JournalDecision
<1> QED
  BY <1>1, <1>2, <1>3, <1>4, <1>5, <1>6, <1>7, <1>8

LEMMA StatusEdit ==
  ASSUME NEW r \in Row, NEW s \in Status
  PROVE  /\ [r EXCEPT !.status = s] \in Row
         /\ [r EXCEPT !.status = s].status = s
         /\ [r EXCEPT !.status = s].approval = r.approval
OBVIOUS

\* Each result is the result of one start, each rejection of none.
LEMMA TerminalsAreTrue ==
  ASSUME IInv, JournalTerminals
  PROVE  /\ ledger' \in [Invocation -> Row]
         /\ LedgerAccountsForEffects' /\ AllowedByClient'
         /\ \A i \in Invocation : ledger'[i].status = "absent" => ledger[i].status = "absent"
<1>1. UNCHANGED <<scope, client, history, crashes>>
  BY DEF JournalTerminals
<1>2. ASSUME NEW i \in Invocation, i \notin InvocationsOf(batch)
      PROVE  ledger'[i] = ledger[i]
  BY <1>2 DEF JournalTerminals
<1>3. ASSUME NEW c \in batch
      PROVE  /\ ledger'[InvocationOf(c)] =
                  [ledger[InvocationOf(c)] EXCEPT !.status = outcome[c]]
             /\ outcome[c] \in Final
             /\ dispatched[InvocationOf(c)] = IF outcome[c] = "finished" THEN 1 ELSE 0
  <2>1. BatchRow(c)
    BY DEF JournalTerminals
  <2>2. outcome[c] \in Final
    BY DEF JournalTerminals, Done
  <2> DEFINE n == InvocationOf(c)
  <2>3. n \in Invocation /\ n \in InvocationsOf(batch) /\ n[2] = c
    OBVIOUS
  <2>4. ledger'[n] = [ledger[n] EXCEPT !.status = outcome[n[2]]]
    <3> HIDE DEF n
    <3> QED
      BY <2>3 DEF JournalTerminals
  <2>5. dispatched[n] = IF outcome[c] = "finished" THEN 1 ELSE 0
    BY <2>1, <2>2 DEF Final
  <2> QED
    BY <2>2, <2>3, <2>4, <2>5
<1>4. ASSUME NEW i \in Invocation
      PROVE  /\ ledger'[i] \in Row
             /\ ledger'[i].approval = ledger[i].approval
             /\ ledger'[i].status = "finished" => dispatched[i] = 1
             /\ ledger'[i].status \in {"absent", "rejected"} => dispatched[i] = 0
             /\ ledger'[i].status = "absent" => ledger[i].status = "absent"
  <2>1. CASE i \in InvocationsOf(batch)
    <3>1. PICK c \in batch : i = InvocationOf(c)
      BY <2>1
    <3>2. outcome[c] \in Status /\ ledger[i] \in Row
      BY <1>3 DEF Final
    <3> DEFINE e == [ledger[i] EXCEPT !.status = outcome[c]]
    <3>3. ledger'[i] = e
      BY <1>3, <3>1
    <3>4. e \in Row /\ e.approval = ledger[i].approval /\ e.status = outcome[c]
      <4> HIDE DEF Row, Status
      <4> QED
        BY <3>2, StatusEdit
    <3> HIDE DEF e
    <3> QED
      BY <1>3, <3>1, <3>3, <3>4 DEF Final
  <2>2. CASE i \notin InvocationsOf(batch)
    BY <1>2, <2>2
  <2> QED
    BY <2>1, <2>2
<1>5. ledger' \in [Invocation -> Row]
  BY <1>4 DEF JournalTerminals
<1> QED
  BY <1>1, <1>4, <1>5

LEMMA JournalTerminalsKeeps ==
  ASSUME IInv,
         JournalTerminals, attempts < AttemptBound
  PROVE  IInv'
<1>1. TypeOK'
  <2>1. attempts' \in 0 .. AttemptBound /\ queue' \in {<<>>, queue}
    BY NothingWithdrawnIsLeft DEF JournalTerminals, NextAttempt, Done, Final
  <2>2. outcome' \in [Call -> Outcome]
    BY DEF JournalTerminals, NextAttempt, Done, Final
  <2> QED
    BY <2>1, <2>2, TerminalsAreTrue DEF JournalTerminals, NextAttempt, Done, Final
<1>2. AtRest' /\ OutcomesOK' /\ SeenOK'
  BY DEF JournalTerminals, NextAttempt, Done, Final
<1>3. WaiterOK'
  BY NothingWithdrawnIsLeft DEF JournalTerminals, NextAttempt, Done, Final
<1>4. BatchOK'
  BY DEF JournalTerminals, NextAttempt, Done, Final
<1>5. OverlayOK'
  BY TerminalsAreTrue DEF JournalTerminals, NextAttempt, Done, Final
<1>6. AnswerOK' /\ InterruptOK'
  <2>1. AnswerOK'
    BY DEF JournalTerminals, NextAttempt, Done, Final
  <2>2. InterruptOK'
    BY NothingWithdrawnIsLeft DEF JournalTerminals, NextAttempt, Done, Final
  <2> QED
    BY <2>1, <2>2
<1>7. LedgerAccountsForEffects' /\ AllowedByClient'
  BY TerminalsAreTrue
<1>8. SaidOK'
  BY TerminalsAreTrue DEF JournalTerminals, NextAttempt, Done, Final
<1> QED
  BY <1>1, <1>2, <1>3, <1>4, <1>5, <1>6, <1>7, <1>8

LEMMA LastTerminalsKeeps ==
  ASSUME IInv,
         JournalTerminals, attempts >= AttemptBound
  PROVE  IInv'
<1>1. TypeOK'
  <2>1. attempts' \in 0 .. AttemptBound /\ queue' \in {<<>>, queue}
    BY NothingWithdrawnIsLeft DEF JournalTerminals, NextAttempt, Stop
  <2>2. outcome' \in [Call -> Outcome]
    BY DEF JournalTerminals, NextAttempt, Stop
  <2> QED
    BY <2>1, <2>2, TerminalsAreTrue DEF JournalTerminals, NextAttempt, Stop
<1>2. AtRest' /\ OutcomesOK' /\ SeenOK'
  BY DEF JournalTerminals, NextAttempt, Stop
<1>3. WaiterOK'
  BY NothingWithdrawnIsLeft DEF JournalTerminals, NextAttempt, Stop
<1>4. BatchOK'
  BY DEF JournalTerminals, NextAttempt, Stop
<1>5. OverlayOK'
  BY TerminalsAreTrue DEF JournalTerminals, NextAttempt, Stop
<1>6. AnswerOK' /\ InterruptOK'
  <2>1. AnswerOK'
    BY DEF JournalTerminals, NextAttempt, Stop
  <2>2. InterruptOK'
    BY NothingWithdrawnIsLeft DEF JournalTerminals, NextAttempt, Stop
  <2> QED
    BY <2>1, <2>2
<1>7. LedgerAccountsForEffects' /\ AllowedByClient'
  BY TerminalsAreTrue
<1>8. SaidOK'
  BY TerminalsAreTrue DEF JournalTerminals, NextAttempt, Stop
<1> QED
  BY <1>1, <1>2, <1>3, <1>4, <1>5, <1>6, <1>7, <1>8

LEMMA DispatchKeeps ==
  ASSUME IInv,
         NEW e \in Call, Dispatch(e)
  PROVE  IInv'
<1>1. TypeOK'
  <2>1. BatchRow(e) /\ outcome[e] = "none"
    BY DEF Dispatch, MayBegin
  <2>2. dispatched' \in [Invocation -> 0 .. 1]
    BY <2>1 DEF Dispatch
  <2>3. outcome' \in [Call -> Outcome]
    BY DEF Dispatch
  <2> QED
    BY <2>2, <2>3 DEF Dispatch
<1>2. AtRest' /\ OutcomesOK' /\ SeenOK'
  BY DEF Dispatch, MayBegin
<1>3. WaiterOK'
  BY DEF Dispatch, MayBegin
<1>4. BatchOK'
  BY DEF Dispatch, MayBegin
<1>5. OverlayOK'
  BY DEF Dispatch, MayBegin
<1>6. AnswerOK' /\ InterruptOK'
  BY DEF Dispatch, MayBegin
<1>7. LedgerAccountsForEffects' /\ AllowedByClient'
  <2>1. /\ BatchRow(e) /\ outcome[e] = "none"
        /\ e \in Terminal => e = waiter /\ decision = "allow"
    BY DEF Dispatch, MayBegin
  <2>2. LedgerAccountsForEffects'
    BY <2>1 DEF Dispatch
  <2>3. ASSUME NEW i \in Invocation', i[2] \in Terminal, dispatched'[i] = 1
        PROVE  ledger'[i].approval = "allow" /\ said'[i] = "allow"
    <3>1. CASE i = InvocationOf(e)
      BY <2>1, <2>3, <3>1 DEF Dispatch
    <3>2. CASE i # InvocationOf(e)
      BY <2>3, <3>2 DEF Dispatch
    <3> QED
      BY <3>1, <3>2
  <2> QED
    BY <2>2, <2>3
<1>8. SaidOK'
  BY DEF Dispatch, MayBegin
<1> QED
  BY <1>1, <1>2, <1>3, <1>4, <1>5, <1>6, <1>7, <1>8

LEMMA RejectKeeps ==
  ASSUME IInv,
         NEW e \in Call, Reject(e)
  PROVE  IInv'
<1>1. TypeOK'
  BY DEF Reject, MayBegin
<1>2. AtRest' /\ OutcomesOK' /\ SeenOK'
  BY DEF Reject, MayBegin
<1>3. WaiterOK'
  BY DEF Reject, MayBegin
<1>4. BatchOK'
  BY DEF Reject, MayBegin
<1>5. OverlayOK'
  BY DEF Reject, MayBegin
<1>6. AnswerOK' /\ InterruptOK'
  BY DEF Reject, MayBegin
<1>7. LedgerAccountsForEffects' /\ AllowedByClient'
  BY DEF Reject, MayBegin
<1>8. SaidOK'
  BY DEF Reject, MayBegin
<1> QED
  BY <1>1, <1>2, <1>3, <1>4, <1>5, <1>6, <1>7, <1>8

LEMMA FinishKeeps ==
  ASSUME IInv,
         NEW e \in Call, Finish(e)
  PROVE  IInv'
<1>1. TypeOK'
  BY DEF Finish
<1>2. AtRest' /\ OutcomesOK' /\ SeenOK'
  BY DEF Finish
<1>3. WaiterOK'
  BY DEF Finish
<1>4. BatchOK'
  BY DEF Finish
<1>5. OverlayOK'
  BY DEF Finish
<1>6. AnswerOK' /\ InterruptOK'
  BY DEF Finish
<1>7. LedgerAccountsForEffects' /\ AllowedByClient'
  BY DEF Finish
<1>8. SaidOK'
  BY DEF Finish
<1> QED
  BY <1>1, <1>2, <1>3, <1>4, <1>5, <1>6, <1>7, <1>8

LEMMA DecideKeeps ==
  ASSUME IInv,
         NEW choice \in {"allow", "deny"}, Decide(choice)
  PROVE  IInv'
<1>1. TypeOK'
  BY DEF Decide
<1>2. AtRest' /\ OutcomesOK' /\ SeenOK'
  BY DEF Decide
<1>3. WaiterOK'
  BY DEF Decide
<1>4. BatchOK'
  BY DEF Decide
<1>5. OverlayOK'
  BY DEF Decide
<1>6. AnswerOK' /\ InterruptOK'
  BY DEF Decide
<1>7. LedgerAccountsForEffects' /\ AllowedByClient'
  <2> DEFINE o == InvocationOf(overlay)
  <2>1. /\ dispatched[o] = 0 /\ said' = [said EXCEPT ![o] = choice]
        /\ UNCHANGED <<ledger, dispatched>>
    BY DEF Decide
  <2> HIDE DEF o
  <2>2. LedgerAccountsForEffects'
    BY <2>1
  <2>3. ASSUME NEW i \in Invocation, i[2] \in Terminal, dispatched[i] = 1
        PROVE  ledger[i].approval = "allow" /\ said'[i] = "allow"
    <3>1. i # o
      BY <2>1, <2>3
    <3>2. said'[i] = said[i]
      BY <2>1, <3>1
    <3> QED
      BY <2>3, <3>2
  <2> QED
    BY <2>1, <2>2, <2>3
<1>8. SaidOK'
  BY DEF Decide
<1> QED
  BY <1>1, <1>2, <1>3, <1>4, <1>5, <1>6, <1>7, <1>8

LEMMA RespondKeeps ==
  ASSUME IInv,
         Respond
  PROVE  IInv'
<1>0. /\ queue' = <<>>
      /\ decision' = decision \/ (queue = <<waiter>> /\ waiter # NoCall /\ decision' = answer)
  <2>1. CASE queue = <<>>
    BY <2>1 DEF Respond
  <2>2. CASE queue # <<>>
    <3>1. queue = <<waiter>> /\ waiter # NoCall
      BY <2>2
    <3> QED
      BY <3>1 DEF Respond
  <2> QED
    BY <2>1, <2>2
<1>1. TypeOK'
  BY <1>0 DEF Respond
<1>2. AtRest' /\ OutcomesOK' /\ SeenOK'
  BY DEF Respond
<1>3. WaiterOK'
  BY <1>0 DEF Respond
<1>4. BatchOK'
  BY DEF Respond
<1>5. OverlayOK'
  BY DEF Respond
<1>6. AnswerOK' /\ InterruptOK'
  BY DEF Respond
<1>7. LedgerAccountsForEffects' /\ AllowedByClient'
  BY DEF Respond
<1>8. SaidOK'
  BY DEF Respond
<1> QED
  BY <1>1, <1>2, <1>3, <1>4, <1>5, <1>6, <1>7, <1>8

LEMMA InterruptKeeps ==
  ASSUME IInv,
         Interrupt
  PROVE  IInv'
<1>1. TypeOK'
  BY DEF Interrupt
<1>2. AtRest' /\ OutcomesOK' /\ SeenOK'
  BY DEF Interrupt
<1>3. WaiterOK'
  BY DEF Interrupt
<1>4. BatchOK'
  BY DEF Interrupt
<1>5. OverlayOK'
  BY DEF Interrupt
<1>6. AnswerOK' /\ InterruptOK'
  BY DEF Interrupt
<1>7. LedgerAccountsForEffects' /\ AllowedByClient'
  BY DEF Interrupt
<1>8. SaidOK'
  BY DEF Interrupt
<1> QED
  BY <1>1, <1>2, <1>3, <1>4, <1>5, <1>6, <1>7, <1>8

LEMMA DenyKeeps ==
  ASSUME IInv,
         DenySession
  PROVE  IInv'
<1>1. TypeOK'
  BY DEF DenySession
<1>2. AtRest' /\ OutcomesOK' /\ SeenOK'
  BY DEF DenySession
<1>3. WaiterOK'
  BY DEF DenySession
<1>4. BatchOK'
  BY DEF DenySession
<1>5. OverlayOK'
  BY DEF DenySession
<1>6. AnswerOK' /\ InterruptOK'
  BY DEF DenySession
<1>7. LedgerAccountsForEffects' /\ AllowedByClient'
  BY DEF DenySession
<1>8. SaidOK'
  BY DEF DenySession
<1> QED
  BY <1>1, <1>2, <1>3, <1>4, <1>5, <1>6, <1>7, <1>8

LEMMA CrashKeeps ==
  ASSUME IInv,
         Crash
  PROVE  IInv'
<1>1. TypeOK'
  <2>1. attempts' \in 0 .. AttemptBound /\ crashes' \in 0 .. CrashBound
    BY DEF Crash
  <2>2. outcome' \in [Call -> Outcome]
    BY DEF Crash
  <2> QED
    BY <2>1, <2>2 DEF Crash
<1>2. AtRest' /\ OutcomesOK' /\ SeenOK'
  BY DEF Crash
<1>3. WaiterOK'
  BY DEF Crash
<1>4. BatchOK'
  BY DEF Crash
<1>5. OverlayOK'
  BY DEF Crash
<1>6. AnswerOK' /\ InterruptOK'
  BY DEF Crash
<1>7. LedgerAccountsForEffects' /\ AllowedByClient'
  BY DEF Crash
<1>8. SaidOK'
  BY DEF Crash
<1> QED
  BY <1>1, <1>2, <1>3, <1>4, <1>5, <1>6, <1>7, <1>8

-----------------------------------------------------------------------------
(* Every step of the next-state relation. *)

LEMMA EndsKeep ==
  ASSUME IInv, CancelDrop \/ EngineError \/ FinalAnswer \/ (\E calls \in Calls : RefusePlan(calls))
  PROVE  IInv'
<1>1. ASSUME NEW how \in {"completed", "failed", "interrupted"}, Stop(how), pc # "idle",
             UNCHANGED <<durable, client, history, crashes>>
      PROVE  IInv'
  BY ONLY <1>1, StopKeeps, IInv
<1>2. CASE CancelDrop
  BY <1>1, <1>2 DEF CancelDrop, Suspended
<1>3. CASE EngineError
  BY <1>1, <1>3 DEF EngineError
<1>4. CASE FinalAnswer
  <2>1. PICK how \in {"completed", "failed"} : Stop(how)
    BY <1>4 DEF FinalAnswer
  <2> QED
    BY <1>1, <1>4, <2>1 DEF FinalAnswer
<1>5. CASE \E calls \in Calls : RefusePlan(calls)
  BY <1>1, <1>5 DEF RefusePlan
<1> QED
  BY <1>2, <1>3, <1>4, <1>5

LEMMA NextKeeps ==
  ASSUME IInv, [Next]_vars
  PROVE  IInv'
<1> USE IInv
<1> HIDE DEF IInv
<1>1. CASE Start \/ Report \/ EmitRequests \/ AwaitDecision \/ Resume \/ JournalDecision
  BY <1>1, StartKeeps, ReportKeeps, EmitKeeps, AwaitKeeps, ResumeKeeps, JournalDecisionKeeps
<1>2. CASE CancelDrop \/ EngineError \/ FinalAnswer \/ (\E calls \in Calls : RefusePlan(calls))
  BY <1>2, EndsKeep
<1>3. CASE Fallback
  <2>1. CASE attempts < AttemptBound
    BY <1>3, <2>1, NextAttemptKeeps DEF Fallback
  <2>2. CASE ~(attempts < AttemptBound)
    <3>1. /\ Stop("failed") /\ pc # "idle"
          /\ UNCHANGED <<durable, client, history, crashes>>
      BY <1>3, <2>2 DEF Fallback, NextAttempt
    <3> QED
      BY <3>1, StopKeeps
  <2> QED
    BY <2>1, <2>2
<1>4. CASE \E calls \in Calls : PlanCalls(calls)
  BY <1>4, PlanKeeps
<1>5. CASE JournalPlans
  <2>1. CASE Unplanned(batch)
    BY <1>5, <2>1, JournalPlansKeeps
  <2>2. CASE ~Unplanned(batch)
    BY <1>5, <2>2, StopKeeps DEF JournalPlans
  <2> QED
    BY <2>1, <2>2
<1>6. CASE JournalTerminals
  <2>1. attempts < AttemptBound \/ attempts >= AttemptBound
    BY <1>6 DEF JournalTerminals, NextAttempt
  <2> QED
    BY <1>6, <2>1, JournalTerminalsKeeps, LastTerminalsKeeps
<1>7. CASE \E c \in Call : Dispatch(c) \/ Reject(c) \/ Finish(c)
  BY <1>7, DispatchKeeps, RejectKeeps, FinishKeeps
<1>8. CASE \E choice \in {"allow", "deny"} : Decide(choice)
  BY <1>8, DecideKeeps
<1>9. CASE Respond \/ Interrupt \/ DenySession \/ Crash
  BY <1>9, RespondKeeps, InterruptKeeps, DenyKeeps, CrashKeeps
<1>10. CASE UNCHANGED vars
  BY <1>10 DEF IInv, vars, Withdrawn
<1> QED
  BY <1>1, <1>2, <1>3, <1>4, <1>5, <1>6, <1>7, <1>8, <1>9, <1>10 DEF Next, Turn


HIDE DEF CallAssumption, ToolBoundAssumption, IInv, TypeOK, AtRest, OutcomesOK, SeenOK,
         WaiterOK, BatchOK, BatchRow, OverlayOK, SaidOK, AnswerOK, InterruptOK, Waiting,
         LedgerAccountsForEffects, AllowedByClient, Resting, Journalled, durable, turn,
         control, client, history, InvocationOf, InvocationsOf, Invocation, Planned, Row,
         Outcome, Status, Approval

LEMMA SpecInv == Spec => []IInv
<1>1. Init => IInv
  BY InitHolds
<1>2. IInv /\ [Next]_vars => IInv'
  BY NextKeeps
<1> QED
  BY <1>1, <1>2, PTL DEF Spec

(* Every variable keeps its type; no invocation is started twice, for any  *)
(* number of turns, batches and crashes of a session, and the approval     *)
(* registry never holds more than the one call the turn waits for.         *)
THEOREM ToolTypeCorrect == Spec => []TypeOK
<1>1. IInv => TypeOK
  BY DEF IInv
<1> QED
  BY <1>1, SpecInv, PTL

(* tool_effects (sqlite.rs) tells the truth about what ran: a result is    *)
(* the result of one start, a rejection of none, an absent row of none.    *)
THEOREM LedgerIsTrue == Spec => []LedgerAccountsForEffects
<1>1. IInv => LedgerAccountsForEffects
  BY DEF IInv
<1> QED
  BY <1>1, SpecInv, PTL

(* A command starts only after the client allowed that very call and the   *)
(* ledger says so, although approval.respond names no call and answers     *)
(* the oldest waiter of the session.                                       *)
THEOREM CommandsAllowed == Spec => []AllowedByClient
<1>1. IInv => AllowedByClient
  BY DEF IInv
<1> QED
  BY <1>1, SpecInv, PTL
-----------------------------------------------------------------------------
(* The ledger, the starts and the client's words of an invocation say how  *)
(* far it has come; each step moves the invocations of one batch one stage *)
(* of the promised life, or lets one consent be given.                     *)

Moves(i) ==
  \/ StageOf(i)' = StageOf(i)
  \/ <<StageOf(i), StageOf(i)'>> \in Lifecycle!Move(said[i] = "allow")

LEMMA RestAsBefore ==
  ASSUME UNCHANGED <<ledger, dispatched, said>>
  PROVE  UNCHANGED <<[i \in Invocation |-> StageOf(i)],
                     {i \in Invocation : said[i] = "allow"}>>
BY DEF StageOf, Invocation

LEMMA AdvanceOfMoves ==
  ASSUME \A i \in Invocation : Moves(i), UNCHANGED said
  PROVE  Lifecycle!Advance
<1> DEFINE stage == [i \in Invocation |-> StageOf(i)]
           consent == {i \in Invocation : said[i] = "allow"}
<1>1. stage' = [i \in Invocation |-> StageOf(i)']
  BY DEF Invocation
<1>2. stage' \in [Invocation -> Lifecycle!Stage]
  <2>1. ASSUME NEW i \in Invocation PROVE StageOf(i)' \in Lifecycle!Stage
    BY DEF StageOf, Lifecycle!Stage
  <2> QED
    BY <1>1, <2>1
<1>3. UNCHANGED consent
  BY DEF Invocation
<1>4. ASSUME NEW i \in Invocation
      PROVE  stage'[i] = stage[i] \/ <<stage[i], stage'[i]>> \in Lifecycle!Move(i \in consent)
  <2>1. stage'[i] = StageOf(i)' /\ stage[i] = StageOf(i)
    BY <1>1
  <2>2. (i \in consent) <=> (said[i] = "allow")
    OBVIOUS
  <2> QED
    BY <2>1, <2>2 DEF Moves, Lifecycle!Move
<1> QED
  BY <1>2, <1>3, <1>4 DEF Lifecycle!Advance

LEMMA PlansMove ==
  ASSUME IInv, JournalPlans
  PROVE  Lifecycle!Advance \/ UNCHANGED <<ledger, dispatched, said>>
<1>1. CASE Unplanned(batch)
  <2>1. /\ UNCHANGED <<dispatched, said, scope, batch>>
        /\ \A i \in Invocation :
             ledger'[i] = IF i \in InvocationsOf(batch) THEN Planned(i[2]) ELSE ledger[i]
    BY <1>1 DEF JournalPlans, history
  <2>2. ASSUME NEW i \in Invocation PROVE Moves(i)
    <3>1. CASE i \in InvocationsOf(batch)
      <4>1. ledger[i].status = "absent"
        BY <1>1, <3>1 DEF Unplanned
      <4>2. dispatched[i] = 0
        BY <4>1 DEF IInv, LedgerAccountsForEffects
      <4>3. ledger'[i] = Planned(i[2]) /\ dispatched'[i] = 0
        BY <2>1, <3>1, <4>2
      <4> DEFINE p == Planned(i[2])
      <4>4. p.status = "planned" /\ p.approval \in {"pending", "none"}
        BY DEF Planned
      <4> HIDE DEF p
      <4>5. StageOf(i) = "absent" /\ StageOf(i)' \in {"planned", "pending"}
        BY <4>1, <4>3, <4>4 DEF StageOf, p
      <4> QED
        BY <4>5 DEF Moves, Lifecycle!Move
    <3>2. CASE i \notin InvocationsOf(batch)
      BY <2>1, <3>2 DEF Moves, StageOf
    <3> QED
      BY <3>1, <3>2
  <2> QED
    BY <2>1, <2>2, AdvanceOfMoves
<1>2. CASE ~Unplanned(batch)
  BY <1>2 DEF JournalPlans, history
<1> QED
  BY <1>1, <1>2

LEMMA DecisionMoves ==
  ASSUME IInv, JournalDecision
  PROVE  Lifecycle!Advance
<1>0. PICK n : n = InvocationOf(waiter)
  OBVIOUS
<1>1. /\ waiter \in batch /\ n \in Invocation /\ ledger[n] \in Row
      /\ waiter \in Terminal /\ outcome[waiter] = "none" /\ dispatched[n] = 0
      /\ decision \in {"allow", "deny"}
      /\ decision = "allow" => said[n] = "allow"
  BY <1>0, CallAssumption, ToolBoundAssumption DEF CallAssumption, ToolBoundAssumption, JournalDecision,
     IInv, TypeOK, WaiterOK, OutcomesOK, BatchOK, BatchRow, Journalled, AnswerOK,
     InvocationOf, Invocation
<1>2. /\ ledger[n] = Planned(waiter) /\ UNCHANGED <<dispatched, said>>
      /\ ledger' = [ledger EXCEPT ![n].approval = decision]
  BY <1>0 DEF JournalDecision, history
<1>3. ledger \in [Invocation -> Row]
  BY DEF IInv, TypeOK
<1>4. ledger[n].status = "planned" /\ ledger[n].approval = "pending"
  BY <1>1, <1>2 DEF Planned
<1>5. ledger'[n].status = "planned" /\ ledger'[n].approval = decision
  BY <1>1, <1>2, <1>3, <1>4 DEF Row
<1>6. StageOf(n) = "pending"
  BY <1>1, <1>4 DEF StageOf
<1>7. StageOf(n)' = IF decision = "allow" THEN "allowed" ELSE "denied"
  BY <1>1, <1>2, <1>5 DEF StageOf
<1>8. Moves(n)
  BY <1>1, <1>6, <1>7 DEF Moves, Lifecycle!Move
<1>9. ASSUME NEW i \in Invocation, i # n PROVE Moves(i)
  BY <1>2, <1>3, <1>9 DEF Moves, StageOf
<1> QED
  BY <1>2, <1>8, <1>9, AdvanceOfMoves

LEMMA DispatchMoves ==
  ASSUME IInv, NEW e \in Call, Dispatch(e)
  PROVE  Lifecycle!Advance
<1>0. PICK n : n = InvocationOf(e)
  OBVIOUS
<1>1. /\ n \in Invocation /\ BatchRow(e) /\ outcome[e] = "none"
      /\ e \in Terminal => e = waiter /\ decision = "allow"
  BY <1>0, CallAssumption, ToolBoundAssumption DEF CallAssumption, ToolBoundAssumption, Dispatch, MayBegin,
     IInv, TypeOK, WaiterOK, BatchOK, Journalled, InvocationOf, Invocation
<1>2. UNCHANGED <<ledger, said>> /\ dispatched' = [dispatched EXCEPT ![n] = @ + 1]
  BY <1>0 DEF Dispatch, durable
<1>3. dispatched \in [Invocation -> 0 .. 1]
  BY DEF IInv, TypeOK
<1>4. /\ ledger[n].status = "planned" /\ dispatched[n] = 0
      /\ ledger[n].approval = IF e \in Terminal THEN "allow" ELSE "none"
  <2>1. waiter # NoCall => waiter \in Terminal
    BY DEF IInv, WaiterOK, TypeOK
  <2>2. pc = "execute" /\ (waiter = NoCall => decision = "none")
    BY DEF Dispatch, IInv, WaiterOK
  <2>3. e # waiter \/ e \in Terminal
    BY <2>1, CallAssumption DEF CallAssumption
  <2> QED
    BY <1>0, <1>1, <2>2, <2>3 DEF BatchRow, Planned
<1>5. dispatched'[n] = 1
  BY <1>1, <1>2, <1>3, <1>4
<1>6. StageOf(n) \in {"planned", "allowed"} /\ StageOf(n)' = "dispatched"
  BY <1>2, <1>4, <1>5 DEF StageOf
<1>7. Moves(n)
  BY <1>6 DEF Moves, Lifecycle!Move
<1>8. ASSUME NEW i \in Invocation, i # n PROVE Moves(i)
  BY <1>2, <1>3, <1>8 DEF Moves, StageOf
<1> QED
  BY <1>2, <1>7, <1>8, AdvanceOfMoves

LEMMA TerminalsMove ==
  ASSUME IInv, JournalTerminals
  PROVE  Lifecycle!Advance
<1>1. UNCHANGED <<dispatched, said>> /\ ledger \in [Invocation -> Row]
  BY DEF JournalTerminals, history, IInv, TypeOK
<1>2. ASSUME NEW i \in Invocation PROVE Moves(i)
  <2>1. CASE i \notin InvocationsOf(batch)
    <3>1. ledger'[i] = ledger[i]
      BY <2>1 DEF JournalTerminals
    <3> QED
      BY <1>1, <3>1 DEF Moves, StageOf
  <2>2. CASE i \in InvocationsOf(batch)
    <3>1. PICK c \in batch : i = InvocationOf(c)
      BY <2>2 DEF InvocationsOf
    <3>2. BatchRow(c) /\ outcome[c] \in Final /\ i[2] = c
      BY <3>1 DEF JournalTerminals, Done, IInv, BatchOK, Journalled, InvocationOf
    <3>3. pc = "execute"
      BY DEF JournalTerminals
    <3>4. ledger'[i] = [ledger[i] EXCEPT !.status = outcome[c]]
      BY <2>2, <3>2 DEF JournalTerminals
    <3>5. ledger'[i].status = outcome[c]
      BY <1>1, <3>4 DEF Row
    <3>6. CASE outcome[c] = "finished"
      <4>1. dispatched[i] = 1 /\ ledger[i].status = "planned"
        BY <3>1, <3>2, <3>6 DEF BatchRow
      <4>2. StageOf(i) = "dispatched" /\ StageOf(i)' = "finished"
        BY <3>5, <3>6, <4>1 DEF StageOf
      <4> QED
        BY <4>2 DEF Moves, Lifecycle!Move
    <3>7. CASE outcome[c] = "rejected"
      <4>1. /\ dispatched[i] = 0 /\ ledger[i].status = "planned"
            /\ ledger[i].approval = "deny"
        BY <3>1, <3>2, <3>3, <3>7 DEF BatchRow
      <4>2. StageOf(i) = "denied" /\ StageOf(i)' = "rejected"
        BY <3>5, <3>7, <4>1 DEF StageOf
      <4> QED
        BY <4>2 DEF Moves, Lifecycle!Move
    <3> QED
      BY <3>2, <3>6, <3>7 DEF Final
  <2> QED
    BY <2>1, <2>2
<1> QED
  BY <1>1, <1>2, AdvanceOfMoves

LEMMA DecideConsents ==
  ASSUME IInv, NEW choice \in {"allow", "deny"}, Decide(choice)
  PROVE  Lifecycle!Consent \/ UNCHANGED <<[i \in Invocation |-> StageOf(i)],
                                          {i \in Invocation : said[i] = "allow"}>>
<1>0. PICK n : n = InvocationOf(overlay)
  OBVIOUS
<1>1. /\ n \in Invocation /\ ledger[n].status # "absent" /\ said[n] = "none"
      /\ ledger[n].status \in Status /\ dispatched[n] = 0
      /\ ledger[n].approval \in Approval
  BY <1>0, CallAssumption, ToolBoundAssumption DEF CallAssumption, ToolBoundAssumption, Decide,
     IInv, TypeOK, OverlayOK, SaidOK, InvocationOf, Invocation, Row
<1>2. UNCHANGED <<ledger, dispatched>> /\ said' = [said EXCEPT ![n] = choice]
  BY <1>0 DEF Decide, durable
<1>3. said \in [Invocation -> {"none", "allow", "deny"}]
  BY DEF IInv, TypeOK
<1>4. UNCHANGED [i \in Invocation |-> StageOf(i)]
  BY <1>2 DEF StageOf, Invocation
<1>5. CASE choice = "deny"
  <2>1. UNCHANGED {i \in Invocation : said[i] = "allow"}
    BY <1>1, <1>2, <1>3, <1>5 DEF Invocation
  <2> QED
    BY <1>4, <2>1
<1>6. CASE choice = "allow"
  <2>1. {i \in Invocation : said[i] = "allow"}'
          = {i \in Invocation : said[i] = "allow"} \union {n}
    BY <1>1, <1>2, <1>3, <1>6 DEF Invocation
  <2>2. StageOf(n) # "absent"
    BY <1>1 DEF StageOf
  <2> QED
    BY <1>1, <1>4, <2>1, <2>2 DEF Lifecycle!Consent
<1> QED
  BY <1>5, <1>6

LEMMA NextRefines ==
  ASSUME IInv, [Next]_vars
  PROVE  [Lifecycle!Next]_(<<[i \in Invocation |-> StageOf(i)],
                             {i \in Invocation : said[i] = "allow"}>>)
<1>1. CASE JournalPlans
  BY <1>1, PlansMove, RestAsBefore DEF Lifecycle!Next
<1>2. CASE JournalDecision \/ JournalTerminals
  BY <1>2, DecisionMoves, TerminalsMove DEF Lifecycle!Next
<1>3. CASE \E c \in Call : Dispatch(c)
  BY <1>3, DispatchMoves DEF Lifecycle!Next
<1>4. CASE \E choice \in {"allow", "deny"} : Decide(choice)
  BY <1>4, DecideConsents DEF Lifecycle!Next
<1>5. CASE \/ Start \/ Fallback \/ FinalAnswer \/ CancelDrop \/ EngineError \/ Report
           \/ EmitRequests \/ AwaitDecision \/ Resume
           \/ \E calls \in Calls : PlanCalls(calls) \/ RefusePlan(calls)
           \/ \E c \in Call : Reject(c) \/ Finish(c)
           \/ Respond \/ Interrupt \/ DenySession \/ Crash \/ UNCHANGED vars
  <2>1. UNCHANGED <<ledger, dispatched, said>>
    BY <1>5 DEF Start, Fallback, FinalAnswer, CancelDrop, EngineError, Report, EmitRequests,
       AwaitDecision, Resume, PlanCalls, RefusePlan, Reject, Finish, Respond, Interrupt,
       DenySession, Crash, vars, durable, history
  <2> QED
    BY <2>1, RestAsBefore
<1> QED
  BY <1>1, <1>2, <1>3, <1>4, <1>5 DEF Next, Turn

(* The ledger keeps the promise of the effect lifecycle over batches,      *)
(* interrupts, lost answers and crashes: planned before it is started, the *)
(* client's consent before a command is allowed, a denied call rejected    *)
(* without a start, and nothing after the result.                          *)
THEOREM EffectsFollowLifecycle == Spec => ImplementsLifecycle
<1>1. Init => Lifecycle!Init
  <2> SUFFICES ASSUME Init PROVE Lifecycle!Init
    OBVIOUS
  <2>1. \A i \in Invocation : StageOf(i) = "absent" /\ said[i] = "none"
    BY DEF Init, NoRow, StageOf
  <2> QED
    BY <2>1 DEF Lifecycle!Init
<1>2. IInv /\ [Next]_vars => [Lifecycle!Next]_(Lifecycle!vars)
  BY NextRefines DEF Lifecycle!vars
<1> QED
  BY <1>1, <1>2, SpecInv, PTL DEF Spec, ImplementsLifecycle, Lifecycle!Spec

(* An interrupt that finds the turn suspended in its wait drops it: the    *)
(* denials it also sends never become the client's decision in the ledger. *)
THEOREM InterruptedPlanStays == Spec => InterruptedWaitIsUnresolved
<1>1. ASSUME [Next]_vars, pc = "suspended", cancelled
      PROVE  UNCHANGED <<ledger, dispatched>> /\ pc' \in {"suspended", "ended", "idle"}
  BY <1>1 DEF Next, Turn, Start, Fallback, FinalAnswer, CancelDrop, EngineError, Report,
     EmitRequests, AwaitDecision, Resume, ResumeUnlessInterrupted, PlanCalls, RefusePlan,
     Reject, Finish, Respond, Interrupt, DenySession, Crash, vars, durable, history, Stop,
     Dispatch, JournalPlans, JournalDecision, JournalTerminals, Decide, turn
<1>2. [Next]_vars => [pc = "suspended" /\ cancelled =>
         UNCHANGED <<ledger, dispatched>> /\ pc' \in {"suspended", "ended", "idle"}]_vars
  BY <1>1
<1> QED
  BY <1>2, PTL DEF Spec, InterruptedWaitIsUnresolved
=============================================================================

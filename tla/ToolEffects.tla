---------------------------- MODULE ToolEffects ----------------------------
(* One session's tool effects: the turn loop that asks the provider, the   *)
(* tool host that plans, resolves and executes a batch of calls, the       *)
(* journal that writes each of these down, the approval registry the       *)
(* gateway answers, and the process that may die between any two steps.    *)
(*                                                                         *)
(* The turn is one future, polled together with the receiver of its        *)
(* interrupt; the interrupt is looked at first (a biased select), and only *)
(* when the future was suspended: waiting for the provider, for a          *)
(* decision, or for a process or a child turn.  Between two such points    *)
(* the turn runs through whatever the gateway does.                        *)
EXTENDS Naturals, Sequences, FiniteSets

CONSTANTS
  Call,          \* the identifiers a provider gives its tool calls
  Terminal,      \* the calls that run a shell command: a decision is needed
  Delegate,      \* the calls that start a child agent; the rest only read
  NoCall,
  AttemptBound,  \* MAX_ATTEMPTS_PER_TURN
  ScopeBound,    \* the session generations explored
  CrashBound     \* the crashes explored

ASSUME CallAssumption ==
  /\ Terminal \subseteq Call
  /\ Delegate \subseteq Call \ Terminal
  /\ NoCall \notin Call

ASSUME ToolBoundAssumption ==
  /\ AttemptBound \in Nat \ {0}
  /\ ScopeBound \in Nat \ {0}
  /\ CrashBound \in Nat

VARIABLES
  ledger,      \* durable: the tool_effects table
  scope,       \* durable: the session generation, the turn's execution scope
  pc,          \* where the turn is
  attempts,    \* the provider attempts this turn made
  batch,       \* the calls of the response being worked on
  seen,        \* the invocations this turn allocated
  waiter,      \* the call whose decision the turn holds the receiver of
  decision,    \* what that receiver got
  outcome,     \* per call of the batch: how far its execution is
  result,      \* how the ended turn ended
  cancelled,   \* the interrupt sender was used
  queue,       \* the approval registry of the session
  denying,     \* the gateway is between the interrupt and the denials
  overlay,     \* the call whose approval request the client shows
  answer,      \* the client's choice on its way to the gateway
  dispatched,  \* history: how often an invocation was started
  said,        \* history: what the client said of each invocation
  crashes

durable == <<ledger, scope>>
turn == <<pc, attempts, batch, seen, waiter, decision, outcome, result>>
control == <<cancelled, queue, denying>>
client == <<overlay, answer>>
history == <<dispatched, said>>
vars == <<durable, turn, control, client, history, crashes>>

Invocation == (1 .. ScopeBound) \X Call

(* The kernel's name for a call: the execution scope and the provider's    *)
(* identifier, so a turn that repeats the scope can repeat the name.       *)
InvocationOf(c) == <<scope, c>>
InvocationsOf(calls) == {InvocationOf(c) : c \in calls}

Local == Call \ (Terminal \union Delegate)
Asynchronous == Terminal \union Delegate

Status == {"absent", "planned", "finished", "rejected"}
Approval == {"none", "pending", "allow", "deny"}
Row == [status : Status, approval : Approval]
NoRow == [status |-> "absent", approval |-> "none"]
Outcome == {"none", "running", "finished", "rejected"}
Final == {"finished", "rejected"}

Init ==
  /\ ledger = [i \in Invocation |-> NoRow]
  /\ scope = 1
  /\ pc = "idle"
  /\ attempts = 0
  /\ batch = {}
  /\ seen = {}
  /\ waiter = NoCall
  /\ decision = "none"
  /\ outcome = [c \in Call |-> "none"]
  /\ result = "none"
  /\ cancelled = FALSE
  /\ queue = <<>>
  /\ denying = FALSE
  /\ overlay = NoCall
  /\ answer = "none"
  /\ dispatched = [i \in Invocation |-> 0]
  /\ said = [i \in Invocation |-> "none"]
  /\ crashes = 0

-----------------------------------------------------------------------------
(* The end of a turn. *)

(* The broker of the turn takes its waiters out of the registry when it is *)
(* dropped; the session's entry goes with the last of them.                *)
Withdrawn(calls) ==
  IF \A k \in DOMAIN queue : queue[k] \in calls THEN <<>>
  ELSE SelectSeq(queue, LAMBDA c : c \notin calls)
RegisteredByTurn == {c \in Terminal : InvocationOf(c) \in seen}

StopKeepsWaiters(how) ==
  /\ pc' = "ended"
  /\ result' = how
  /\ waiter' = NoCall
  /\ decision' = "none"
  /\ outcome' = [c \in Call |-> "none"]
  /\ attempts' = 0
  /\ batch' = {}
  /\ seen' = {}
  /\ UNCHANGED <<cancelled, queue, denying>>

(* The execution returned or was dropped: processes it ran are killed, the *)
(* waiters go, the plans stay as they were journalled.                     *)
Stop(how) ==
  /\ pc' = "ended"
  /\ result' = how
  /\ waiter' = NoCall
  /\ decision' = "none"
  /\ outcome' = [c \in Call |-> "none"]
  /\ attempts' = 0
  /\ batch' = {}
  /\ seen' = {}
  /\ queue' = Withdrawn(RegisteredByTurn)
  /\ UNCHANGED <<cancelled, denying>>

(* Where the turn's future is suspended, and an interrupt can drop it. *)
Suspended ==
  \/ pc \in {"attempt", "suspended"}
  \/ pc = "execute" /\ \E c \in Asynchronous : outcome[c] = "running"

CancelDrop ==
  /\ cancelled
  /\ Suspended
  /\ Stop("interrupted")
  /\ UNCHANGED <<durable, client, history, crashes>>

(* A provider, observer or storage error ends the turn where it is met,    *)
(* before the batch is started or after all of it ended.                   *)
EngineError ==
  /\ \/ pc \in {"attempt", "journal", "emit", "decide"}
     \/ pc = "execute" /\ \A c \in batch : outcome[c] = "none"
     \/ pc = "execute" /\ \A c \in batch : outcome[c] \in Final
  /\ Stop("failed")
  /\ UNCHANGED <<durable, client, history, crashes>>

(* The gateway commits a completed turn, which moves the generation, or    *)
(* records the attempt as failed or interrupted, which does not; then it   *)
(* tells the client that the message is complete.                          *)
Report ==
  /\ pc = "ended"
  /\ scope' \in {scope} \union
       {g \in {scope + 1} : result = "completed" /\ g <= ScopeBound}
  /\ pc' = "idle"
  /\ result' = "none"
  /\ cancelled' = FALSE
  /\ overlay' = NoCall
  /\ UNCHANGED <<ledger, attempts, batch, seen, waiter, decision, outcome, queue, denying, answer,
                 history, crashes>>

-----------------------------------------------------------------------------
(* The turn asks the provider and works on its answers. *)

Start ==
  /\ pc = "idle"
  /\ answer = "none"
  /\ ~denying
  /\ pc' = "attempt"
  /\ attempts' = 1
  /\ UNCHANGED <<durable, batch, seen, waiter, decision, outcome, result,
                 control, client, history, crashes>>

(* The next attempt of the turn, which its budget may refuse. *)
NextAttempt ==
  \/ /\ attempts < AttemptBound
     /\ attempts' = attempts + 1
     /\ pc' = "attempt"
     /\ outcome' = [c \in Call |-> "none"]
     /\ batch' = {}
     /\ waiter' = NoCall
     /\ decision' = "none"
     /\ UNCHANGED <<seen, result, control>>
  \/ /\ attempts >= AttemptBound
     /\ Stop("failed")

(* The attempt failed before it showed anything: the provider may be asked *)
(* once more.                                                              *)
Fallback ==
  /\ pc = "attempt"
  /\ ~cancelled
  /\ NextAttempt
  /\ UNCHANGED <<durable, client, history, crashes>>

(* The attempt ended without tool calls: an answer the gateway can commit, *)
(* or an incomplete one, or no answer at all.                              *)
FinalAnswer ==
  /\ pc = "attempt"
  /\ ~cancelled
  /\ \E how \in {"completed", "failed"} : Stop(how)
  /\ UNCHANGED <<durable, client, history, crashes>>

AtMostOneTerminal(calls) == \A c, d \in calls \intersect Terminal : c = d
NotWaiting(calls) ==
  \A c \in calls \intersect Terminal : \A k \in 1 .. Len(queue) : queue[k] # c

Plannable(calls) ==
  /\ InvocationsOf(calls) \intersect seen = {}
  /\ AtMostOneTerminal(calls)
  /\ NotWaiting(calls)

(* The attempt ended with tool calls.  The host names them, the broker     *)
(* plans them and registers the waiter of a terminal call.                 *)
PlanCalls(calls) ==
  /\ pc = "attempt"
  /\ ~cancelled
  /\ Plannable(calls)
  /\ pc' = "journal"
  /\ batch' = calls
  /\ seen' = seen \union InvocationsOf(calls)
  /\ \/ /\ calls \intersect Terminal = {}
        /\ UNCHANGED <<waiter, queue>>
     \/ \E c \in calls \intersect Terminal :
          /\ waiter' = c
          /\ queue' = Append(queue, c)
  /\ UNCHANGED <<durable, attempts, decision, outcome, result, cancelled,
                 denying, client, history, crashes>>

(* A response the host or the broker does not plan ends the turn. *)
RefusePlan(calls) ==
  /\ pc = "attempt"
  /\ ~cancelled
  /\ ~Plannable(calls)
  /\ Stop("failed")
  /\ UNCHANGED <<durable, client, history, crashes>>

WhateverLedger(calls) == calls \subseteq Call
Unplanned(calls) ==
  \A i \in InvocationsOf(calls) : ledger[i].status = "absent"

Planned(c) ==
  [status |-> "planned",
   approval |-> IF c \in Terminal THEN "pending" ELSE "none"]

(* record_plans: every plan of the batch, or none when one invocation was  *)
(* journalled before.                                                      *)
JournalPlans ==
  /\ pc = "journal"
  /\ \/ /\ Unplanned(batch)
        /\ ledger' = [i \in Invocation |->
                        IF i \in InvocationsOf(batch) THEN Planned(i[2])
                                                      ELSE ledger[i]]
        /\ pc' = "emit"
        /\ UNCHANGED <<attempts, batch, seen, waiter, decision, outcome,
                       result, control>>
     \/ /\ ~Unplanned(batch)
        /\ Stop("failed")
        /\ UNCHANGED ledger
  /\ UNCHANGED <<scope, client, history, crashes>>

(* The approval request goes to the client. *)
EmitRequests ==
  /\ pc = "emit"
  /\ pc' = "await"
  /\ overlay' = IF waiter = NoCall THEN overlay ELSE waiter
  /\ UNCHANGED <<durable, attempts, batch, seen, waiter, decision, outcome,
                 result, control, answer, history, crashes>>

(* The turn comes to its decision: none is needed, it is already there, or *)
(* the turn is suspended.                                                  *)
AwaitDecision ==
  /\ pc = "await"
  /\ \/ waiter = NoCall /\ pc' = "execute"
     \/ waiter # NoCall /\ decision # "none" /\ pc' = "decide"
     \/ waiter # NoCall /\ decision = "none" /\ pc' = "suspended"
  /\ UNCHANGED <<durable, attempts, batch, seen, waiter, decision, outcome,
                 result, control, client, history, crashes>>

ResumeAlways == cancelled \in BOOLEAN
ResumeUnlessInterrupted == ~cancelled

(* The decision arrived; the interrupt, looked at first, has not. *)
Resume ==
  /\ pc = "suspended"
  /\ decision # "none"
  /\ ResumeUnlessInterrupted
  /\ pc' = "decide"
  /\ UNCHANGED <<durable, attempts, batch, seen, waiter, decision, outcome,
                 result, control, client, history, crashes>>

DecideWithoutJournal ==
  /\ pc = "decide"
  /\ pc' = "execute"
  /\ UNCHANGED <<durable, attempts, batch, seen, waiter, decision, outcome,
                 result, control, client, history, crashes>>

(* record_approvals: the decision is durable before it takes effect. *)
JournalDecision ==
  /\ pc = "decide"
  /\ ledger[InvocationOf(waiter)] = Planned(waiter)
  /\ ledger' = [ledger EXCEPT ![InvocationOf(waiter)].approval = decision]
  /\ pc' = "execute"
  /\ UNCHANGED <<scope, attempts, batch, seen, waiter, decision, outcome,
                 result, control, client, history, crashes>>

(* Local calls run first, the terminal call next, child agents last and    *)
(* side by side.                                                           *)
Done(calls) == \A c \in calls \intersect batch : outcome[c] \in Final
MayBegin(c) ==
  /\ c \in batch
  /\ outcome[c] = "none"
  /\ \A d \in Call : outcome[d] = "running" => c \in Delegate /\ d \in Delegate
  /\ c \in Asynchronous => Done(Local)
  /\ c \in Delegate => Done(Terminal)

DispatchWhateverDecided(c) ==
  /\ pc = "execute"
  /\ MayBegin(c)
  /\ outcome' = [outcome EXCEPT ![c] = "running"]
  /\ dispatched' = [dispatched EXCEPT ![InvocationOf(c)] = @ + 1]
  /\ UNCHANGED <<durable, pc, attempts, batch, seen, waiter, decision, result,
                 control, client, said, crashes>>

Dispatch(c) ==
  /\ pc = "execute"
  /\ MayBegin(c)
  /\ c \in Terminal => decision = "allow"
  /\ outcome' = [outcome EXCEPT ![c] = "running"]
  /\ dispatched' = [dispatched EXCEPT ![InvocationOf(c)] = @ + 1]
  /\ UNCHANGED <<durable, pc, attempts, batch, seen, waiter, decision, result,
                 control, client, said, crashes>>

(* A denied command is answered for, and no process is started. *)
Reject(c) ==
  /\ pc = "execute"
  /\ c \in Terminal
  /\ MayBegin(c)
  /\ decision = "deny"
  /\ outcome' = [outcome EXCEPT ![c] = "rejected"]
  /\ UNCHANGED <<durable, pc, attempts, batch, seen, waiter, decision, result,
                 control, client, history, crashes>>

(* A call ends; the end of a process or of a child is only seen by a turn  *)
(* that was not interrupted.                                               *)
Finish(c) ==
  /\ pc = "execute"
  /\ outcome[c] = "running"
  /\ c \in Asynchronous => ~cancelled
  /\ outcome' = [outcome EXCEPT ![c] = "finished"]
  /\ UNCHANGED <<durable, pc, attempts, batch, seen, waiter, decision, result,
                 control, client, history, crashes>>

(* record_terminals: the results of the batch together, each on a row that *)
(* is still planned; then the provider is asked again.                     *)
JournalTerminals ==
  /\ pc = "execute"
  /\ Done(batch)
  /\ \A i \in InvocationsOf(batch) : ledger[i].status = "planned"
  /\ ledger' = [i \in Invocation |->
                  IF i \in InvocationsOf(batch)
                    THEN [ledger[i] EXCEPT !.status = outcome[i[2]]]
                    ELSE ledger[i]]
  /\ NextAttempt
  /\ UNCHANGED <<scope, client, history, crashes>>

-----------------------------------------------------------------------------
(* The client answers each request it is shown once, and sends nothing     *)
(* else before the gateway has read its answer.  (A client that answers    *)
(* again before the first answer is acknowledged is in TerminalClient.)    *)
Decide(choice) ==
  /\ overlay # NoCall
  /\ answer = "none"
  /\ answer' = choice
  /\ said' = [said EXCEPT ![InvocationOf(overlay)] = choice]
  /\ UNCHANGED <<durable, turn, control, overlay, dispatched, crashes>>

(* approval.respond: the oldest waiter of the session gets the choice; an  *)
(* answer nobody waits for is dropped.                                     *)
Respond ==
  /\ answer # "none"
  /\ ~denying
  /\ answer' = "none"
  /\ overlay' = NoCall
  /\ \/ /\ queue = <<>>
        /\ UNCHANGED <<queue, decision>>
     \/ /\ queue # <<>>
        /\ queue' = Tail(queue)
        /\ decision' = IF Head(queue) = waiter THEN answer ELSE decision
  /\ UNCHANGED <<durable, pc, attempts, batch, seen, waiter, outcome, result,
                 cancelled, denying, history, crashes>>

(* session.interrupt, and the end of input: first the interrupt is sent,   *)
(* then the waiters are denied.                                            *)
Interrupt ==
  /\ answer = "none"
  /\ ~denying
  /\ pc # "idle"
  /\ cancelled' = TRUE
  /\ denying' = TRUE
  /\ UNCHANGED <<durable, turn, queue, client, history, crashes>>

DenySession ==
  /\ denying
  /\ denying' = FALSE
  /\ queue' = <<>>
  /\ decision' = IF \E k \in 1 .. Len(queue) : queue[k] = waiter
                   THEN "deny" ELSE decision
  /\ UNCHANGED <<durable, pc, attempts, batch, seen, waiter, outcome, result,
                 cancelled, client, history, crashes>>

(* The process dies: the ledger and the generation are what is left. *)
Crash ==
  /\ crashes < CrashBound
  /\ crashes' = crashes + 1
  /\ pc' = "idle"
  /\ attempts' = 0
  /\ batch' = {}
  /\ seen' = {}
  /\ waiter' = NoCall
  /\ decision' = "none"
  /\ outcome' = [c \in Call |-> "none"]
  /\ result' = "none"
  /\ cancelled' = FALSE
  /\ queue' = <<>>
  /\ denying' = FALSE
  /\ overlay' = NoCall
  /\ answer' = "none"
  /\ UNCHANGED <<durable, history>>

-----------------------------------------------------------------------------
Calls == (SUBSET Call) \ {{}}

Turn ==
  \/ Start \/ Fallback \/ FinalAnswer \/ CancelDrop \/ EngineError \/ Report
  \/ \E calls \in Calls : PlanCalls(calls) \/ RefusePlan(calls)
  \/ JournalPlans \/ EmitRequests \/ AwaitDecision \/ Resume
  \/ JournalDecision \/ JournalTerminals
  \/ \E c \in Call : Dispatch(c) \/ Reject(c) \/ Finish(c)

Next ==
  \/ Turn
  \/ \E choice \in {"allow", "deny"} : Decide(choice)
  \/ Respond \/ Interrupt \/ DenySession \/ Crash

Spec == Init /\ [][Next]_vars

(* The gateway reads its input, and a turn that can be polled is polled.   *)
(* Nobody has to answer, the provider and the commands may take for ever.  *)
Fairness ==
  /\ WF_vars(Respond)
  /\ WF_vars(DenySession)
  /\ WF_vars(CancelDrop)
  /\ WF_vars(JournalPlans)
  /\ WF_vars(EmitRequests)
  /\ WF_vars(AwaitDecision)
  /\ WF_vars(Resume)
  /\ WF_vars(JournalDecision)
  /\ WF_vars(JournalTerminals)
  /\ WF_vars(\E c \in Call : Dispatch(c) \/ Reject(c))
  /\ WF_vars(\E c \in Local : Finish(c))

FairSpec == Spec /\ Fairness

-----------------------------------------------------------------------------
TypeOK ==
  /\ ledger \in [Invocation -> Row]
  /\ scope \in 1 .. ScopeBound
  /\ pc \in {"idle", "attempt", "journal", "emit", "await", "suspended",
             "decide", "execute", "ended"}
  /\ attempts \in 0 .. AttemptBound
  /\ batch \in SUBSET Call
  /\ seen \in SUBSET Invocation
  /\ waiter \in Call \union {NoCall}
  /\ decision \in {"none", "allow", "deny"}
  /\ outcome \in [Call -> Outcome]
  /\ result \in {"none", "completed", "failed", "interrupted"}
  /\ cancelled \in BOOLEAN
  /\ queue \in {<<>>} \union {<<c>> : c \in Terminal}
  /\ denying \in BOOLEAN
  /\ overlay \in Call \union {NoCall}
  /\ answer \in {"none", "allow", "deny"}
  /\ dispatched \in [Invocation -> 0 .. 1]
  /\ said \in [Invocation -> {"none", "allow", "deny"}]
  /\ crashes \in 0 .. CrashBound

(* A result in the ledger is the result of exactly one start, a rejection  *)
(* of none, and a start whose result is unknown (the process died, the     *)
(* turn was interrupted, the write failed) is still listed as planned:     *)
(* "it cannot silently dispatch an unrecorded effect".                     *)
LedgerAccountsForEffects ==
  \A i \in Invocation :
    /\ ledger[i].status = "finished" => dispatched[i] = 1
    /\ ledger[i].status \in {"absent", "rejected"} => dispatched[i] = 0

(* No command starts without the client having allowed that very call, and *)
(* the decision is in the ledger before.                                   *)
AllowedByClient ==
  \A i \in Invocation :
    i[2] \in Terminal /\ dispatched[i] = 1 =>
      ledger[i].approval = "allow" /\ said[i] = "allow"

(* An interrupt that finds the turn waiting leaves the plan unresolved:    *)
(* the denial it also sends is never journalled as the client's decision.  *)
InterruptedWaitIsUnresolved ==
  [][pc = "suspended" /\ cancelled =>
       UNCHANGED <<ledger, dispatched>> /\ pc' \in {"suspended", "ended", "idle"}]_vars

(* What the documentation says of every interrupt: a plan the client did    *)
(* not decide stays pending.  An interrupt that comes while the turn is    *)
(* still on its way to the wait is journalled as a denial by the client.   *)
DenialIsTheClients ==
  \A i \in Invocation : ledger[i].approval = "deny" => said[i] = "deny"

(* Once the client answered, the turn does not go on waiting. *)
AnswerEndsTheWait ==
  (answer # "none") ~> (pc # "suspended")

(* An invocation follows the life the effect ledger promises. *)
StageOf(i) ==
  CASE ledger[i].status = "absent" -> "absent"
    [] ledger[i].status = "rejected" -> "rejected"
    [] ledger[i].status = "finished" -> "finished"
    [] OTHER ->
         IF dispatched[i] > 0 THEN "dispatched"
         ELSE CASE ledger[i].approval = "none" -> "planned"
                [] ledger[i].approval = "pending" -> "pending"
                [] ledger[i].approval = "allow" -> "allowed"
                [] OTHER -> "denied"

Lifecycle == INSTANCE EffectLifecycle WITH
  stage <- [i \in Invocation |-> StageOf(i)],
  consent <- {i \in Invocation : said[i] = "allow"}
ImplementsLifecycle == Lifecycle!Spec
=============================================================================

--------------------------- MODULE ForegroundStore ---------------------------
(***************************************************************************)
(* The tables a parent session's prompts go through: the transcript and    *)
(* its owner generation, one row per foreground attempt, and the part of   *)
(* the completion outbox that the start of an attempt acknowledges.        *)
(*                                                                         *)
(* Every method is one IMMEDIATE transaction, so one step; a refused one   *)
(* rolls back and is no step. Callers are arbitrary here: they may come in *)
(* any order and name any generation, attempt or claim. Gateway says which *)
(* calls the real process makes.                                           *)
(***************************************************************************)
EXTENDS Naturals, Sequences, FiniteSets

CONSTANTS
  Session,
  Turn,             \* attempt ids, each minted for one submitted prompt
  Event,            \* completion events of background delegations
  TranscriptBound,  \* bound: other writers append below this length
  Null

ASSUME TranscriptBoundAssumption == TranscriptBound \in Nat
ASSUME ForegroundNullAssumption == Null \notin Session \cup Turn

VARIABLES
  transcript,  \* session -> the turns appended to it, Null for another writer's
  turn,        \* table foreground_turns, "absent" where there is no row
  event        \* outbox rows; the claim on one is named by the attempt that holds it

storeVars == <<transcript, turn, event>>

TurnTerminal == {"completed", "interrupted", "failed", "outcome_unknown"}

TurnRow == [state : {"absent", "running"} \cup TurnTerminal,
            session : Session \cup {Null}, gen : Nat, carries : SUBSET Event]

EventRow == [state : {"absent", "pending", "delivered"},
             parent : Session \cup {Null}, claim : Turn \cup {Null}, expired : BOOLEAN]

NoTurn  == [state |-> "absent", session |-> Null, gen |-> 0, carries |-> {}]
NoEvent == [state |-> "absent", parent |-> Null, claim |-> Null, expired |-> FALSE]

StoreInit ==
  /\ transcript = [s \in Session |-> <<>>]
  /\ turn = [t \in Turn |-> NoTurn]
  /\ event = [e \in Event |-> NoEvent]

-----------------------------------------------------------------------------
\* A session is created at generation 1 and every append advances it.
Generation(s) == Len(transcript[s]) + 1

RunningTurns == {t \in Turn : turn[t].state = "running"}

\* Checked by the method and again by a unique index.
NoneRunning(s) == \A t \in RunningTurns : turn[t].session # s

Deliverable(e, t, s) ==
  event[e].state = "pending" /\ event[e].claim = t /\ event[e].parent = s

\* "newer" are the completions created after the timestamp the caller gives as
\* the attempt's start: those it may not acknowledge.
Startable(t, s, g, carried, newer) ==
  /\ Generation(s) = g
  /\ turn[t].state = "absent"
  /\ NoneRunning(s)
  /\ carried \cap newer = {}
  /\ \A e \in carried : Deliverable(e, t, s)

\* The attempt's row and the acknowledgement of every completion its prompt
\* carries, in one transaction.
StartTurn(t, s, g, carried, newer) ==
  /\ Startable(t, s, g, carried, newer)
  /\ turn' = [turn EXCEPT ![t] =
       [state |-> "running", session |-> s, gen |-> g, carries |-> carried]]
  /\ event' = [e \in Event |->
       IF e \in carried
       THEN [event[e] EXCEPT !.state = "delivered", !.claim = Null, !.expired = FALSE]
       ELSE event[e]]
  /\ UNCHANGED transcript

\* Seeded fault: the session may have moved on since the attempt started.
OnAnyTranscript(t, g) == turn[t].state = "running" /\ turn[t].gen = g

\* The attempt still runs, at the caller's generation, and so does its session.
Current(t, g) ==
  /\ turn[t].state = "running"
  /\ turn[t].gen = g
  /\ Generation(turn[t].session) = g

CompleteTurn(t, g) ==
  /\ Current(t, g)
  /\ transcript' = [transcript EXCEPT ![turn[t].session] = Append(@, t)]
  /\ turn' = [turn EXCEPT ![t].state = "completed"]
  /\ UNCHANGED event

TerminateTurn(t, g, outcome) ==
  /\ outcome \in TurnTerminal \ {"completed"}
  /\ Current(t, g)
  /\ turn' = [turn EXCEPT ![t].state = outcome]
  /\ UNCHANGED <<transcript, event>>

ReconcileTurns ==
  /\ turn' = [t \in Turn |->
       IF t \in RunningTurns THEN [turn[t] EXCEPT !.state = "outcome_unknown"] ELSE turn[t]]
  /\ UNCHANGED <<transcript, event>>

\* Another process, such as the chat command, appends a turn of its own.
AppendElsewhere(s) ==
  /\ Len(transcript[s]) < TranscriptBound
  /\ transcript' = [transcript EXCEPT ![s] = Append(@, Null)]
  /\ UNCHANGED <<turn, event>>

-----------------------------------------------------------------------------
(* The outbox (see DelegationStore, which has it in full).                 *)

Available(e) ==
  event[e].state = "pending" /\ (event[e].claim = Null \/ event[e].expired)

Publish(e, s) ==
  /\ event[e].state = "absent"
  /\ event' = [event EXCEPT ![e] = [NoEvent EXCEPT !.state = "pending", !.parent = s]]
  /\ UNCHANGED <<transcript, turn>>

ClaimEvent(e, t) ==
  /\ Available(e)
  /\ event' = [event EXCEPT ![e] = [@ EXCEPT !.claim = t, !.expired = FALSE]]
  /\ UNCHANGED <<transcript, turn>>

\* The deadline of a claim passes.
ExpireClaim(e) ==
  /\ event[e].claim # Null /\ ~event[e].expired
  /\ event' = [event EXCEPT ![e].expired = TRUE]
  /\ UNCHANGED <<transcript, turn>>

ReleaseEvent(e, t) ==
  /\ event[e].state = "pending" /\ event[e].claim = t
  /\ event' = [event EXCEPT ![e] = [@ EXCEPT !.claim = Null, !.expired = FALSE]]
  /\ UNCHANGED <<transcript, turn>>

-----------------------------------------------------------------------------
StoreNext ==
  \/ \E t \in Turn, s \in Session : \E g \in 1 .. Generation(s) :
       \E carried \in SUBSET Event, newer \in SUBSET Event :
         StartTurn(t, s, g, carried, newer)
  \/ \E t \in Turn : \E g \in 1 .. turn[t].gen :
       \/ CompleteTurn(t, g)
       \/ \E outcome \in TurnTerminal : TerminateTurn(t, g, outcome)
  \/ ReconcileTurns
  \/ \E s \in Session : AppendElsewhere(s)
  \/ \E e \in Event :
       \/ ExpireClaim(e)
       \/ \E s \in Session : Publish(e, s)
       \/ \E t \in Turn : ClaimEvent(e, t) \/ ReleaseEvent(e, t)

StoreSpec == StoreInit /\ [][StoreNext]_storeVars

-----------------------------------------------------------------------------
(* Properties.                                                             *)

\* Types of the three tables; only a completion still to be delivered has a
\* claim, and only a claim has a deadline that can pass (the table's CHECKs).
StoreTypeOK ==
  /\ transcript \in [Session -> Seq(Turn \cup {Null})]
  /\ turn \in [Turn -> TurnRow]
  /\ event \in [Event -> EventRow]
  /\ \A e \in Event :
       /\ event[e].claim # Null => event[e].state = "pending"
       /\ event[e].expired => event[e].claim # Null

\* A turn is part of its session's transcript exactly when its attempt
\* completed, and it stands right after the transcript its attempt was started
\* on: no other writer's turn slipped between what the model was shown and its
\* answer (complete, with append_turn_in_transaction).
TranscriptMatchesTurns ==
  /\ \A t \in Turn : turn[t].state = "completed" =>
       /\ turn[t].gen < Generation(turn[t].session)
       /\ transcript[turn[t].session][turn[t].gen] = t
  /\ \A s \in Session : \A i \in 1 .. Len(transcript[s]) :
       LET t == transcript[s][i]
       IN t # Null => turn[t].state = "completed" /\ turn[t].session = s /\ turn[t].gen = i

\* A completion event is delivered exactly when one attempt's prompt carries
\* it, an attempt of the session that delegated the work, and never two
\* attempts: acceptance of the prompt and the acknowledgement are one fact
\* (start_with_deliveries).
DeliveredInOnePrompt ==
  \A e \in Event :
    LET carriers == {t \in Turn : e \in turn[t].carries}
    IN /\ event[e].state = "delivered" <=> carriers # {}
       /\ \A t, u \in carriers : t = u
       /\ \A t \in carriers : turn[t].session = event[e].parent
=============================================================================

------------------------ MODULE ForegroundStoreProofs ------------------------
(***************************************************************************)
(* Proofs about the foreground turn store, for any number of sessions,     *)
(* attempts and completions and for arbitrary callers.                     *)
(*                                                                         *)
(* The inductive invariant is the three checked ones and the shape of an   *)
(* attempt's row: an absent row is empty, so starting an attempt overwrites *)
(* nothing, and any other row names its session and a generation from one. *)
(***************************************************************************)
EXTENDS ForegroundStore, SequenceTheorems, TLAPS

AttemptShape(r) ==
  /\ r.state = "absent" => r = NoTurn
  /\ r.state # "absent" => r.session \in Session /\ r.gen >= 1

AttemptsOK == \A t \in Turn : AttemptShape(turn[t])

StoreInv ==
  /\ StoreTypeOK
  /\ AttemptsOK
  /\ TranscriptMatchesTurns
  /\ DeliveredInOnePrompt

-----------------------------------------------------------------------------
(* The two halves of TranscriptMatchesTurns, and the carriers of an event.  *)

Recorded(t) ==
  turn[t].state = "completed" =>
    /\ turn[t].gen < Generation(turn[t].session)
    /\ transcript[turn[t].session][turn[t].gen] = t

Entry(s, i) ==
  LET t == transcript[s][i]
  IN t # Null => turn[t].state = "completed" /\ turn[t].session = s /\ turn[t].gen = i

LEMMA TranscriptByParts ==
  TranscriptMatchesTurns <=>
    /\ \A t \in Turn : Recorded(t)
    /\ \A s \in Session : \A i \in 1 .. Len(transcript[s]) : Entry(s, i)
BY DEF TranscriptMatchesTurns, Recorded, Entry

\* What DeliveredInOnePrompt says of one completion.
Carried(e) ==
  /\ event[e].state = "delivered" <=> \E t \in Turn : e \in turn[t].carries
  /\ \A t, u \in Turn : e \in turn[t].carries /\ e \in turn[u].carries => t = u
  /\ \A t \in Turn : e \in turn[t].carries => turn[t].session = event[e].parent

LEMMA DeliveryByParts == DeliveredInOnePrompt <=> \A e \in Event : Carried(e)
BY DEF DeliveredInOnePrompt, Carried

LEMMA InitStoreInv == StoreInit => StoreInv
<1> SUFFICES ASSUME StoreInit PROVE StoreInv
  OBVIOUS
<1> USE DEF StoreInit, NoTurn, NoEvent
<1>1. StoreTypeOK
  BY DEF StoreTypeOK, TurnRow, EventRow, TurnTerminal
<1>2. AttemptsOK
  BY DEF AttemptsOK, AttemptShape
<1>3. TranscriptMatchesTurns
  <2>1. \A s \in Session : Len(transcript[s]) = 0
    OBVIOUS
  <2> QED
    BY <2>1 DEF TranscriptMatchesTurns
<1>4. DeliveredInOnePrompt
  BY DEF DeliveredInOnePrompt
<1> QED
  BY <1>1, <1>2, <1>3, <1>4 DEF StoreInv

-----------------------------------------------------------------------------
(* Steps that change attempts or the transcript.                           *)

\* An absent row is empty, so the row written here takes nothing away.
LEMMA StartTurnInv ==
  ASSUME StoreInv, NEW t \in Turn, NEW s \in Session, NEW g \in Nat,
         NEW carried \in SUBSET Event, NEW newer \in SUBSET Event,
         StartTurn(t, s, g, carried, newer)
  PROVE  StoreInv'
<1> DEFINE fresh == [state |-> "running", session |-> s, gen |-> g, carries |-> carried]
<1>1. /\ turn \in [Turn -> TurnRow] /\ event \in [Event -> EventRow]
      /\ transcript \in [Session -> Seq(Turn \cup {Null})]
  BY DEF StoreInv, StoreTypeOK
<1>2. g >= 1
  <2>1. transcript[s] \in Seq(Turn \cup {Null})
    BY <1>1
  <2>2. g = Len(transcript[s]) + 1
    BY DEF StartTurn, Startable, Generation
  <2> QED
    BY <2>1, <2>2, LenProperties
<1>3. /\ turn[t] = NoTurn
      /\ \A e \in carried : event[e].state = "pending" /\ event[e].parent = s
      /\ transcript' = transcript
      /\ \A u \in Turn : turn'[u] = IF u = t THEN fresh ELSE turn[u]
  BY <1>1 DEF StartTurn, Startable, Deliverable, StoreInv, AttemptsOK, AttemptShape
<1>4. \A e \in Event :
        /\ e \in carried => event'[e].state = "delivered" /\ event'[e].parent = s
        /\ e \notin carried => event'[e] = event[e]
  BY <1>1, <1>3 DEF StartTurn, EventRow
<1>5. StoreTypeOK'
  <2>1. fresh \in TurnRow
    BY <1>2 DEF TurnRow
  <2>2. turn' \in [Turn -> TurnRow]
    BY <1>1, <2>1 DEF StartTurn
  <2>3. event' \in [Event -> EventRow]
    BY <1>1 DEF StartTurn, EventRow
  <2>4. \A e \in Event :
          /\ event'[e].claim # Null => event'[e].state = "pending"
          /\ event'[e].expired => event'[e].claim # Null
    <3>1. \A e \in carried : event'[e].claim = Null /\ event'[e].expired = FALSE
      BY <1>1 DEF StartTurn, EventRow
    <3> QED
      BY <3>1, <1>4 DEF StoreInv, StoreTypeOK
  <2> QED
    BY <1>1, <1>3, <2>2, <2>3, <2>4 DEF StoreTypeOK
<1>6. AttemptsOK'
  BY <1>2, <1>3 DEF StoreInv, AttemptsOK, AttemptShape
<1>7. TranscriptMatchesTurns'
  <2>1. \A u \in Turn : Recorded(u)'
    BY <1>3, TranscriptByParts DEF StoreInv, Recorded, Generation
  <2>2. ASSUME NEW z \in Session, NEW i \in 1 .. Len(transcript'[z])
        PROVE  Entry(z, i)'
    <3>1. Entry(z, i) /\ transcript[z][i] \in Turn \cup {Null}
      BY <1>1, <1>3, TranscriptByParts DEF StoreInv
    <3> QED
      BY <3>1, <1>3 DEF Entry, NoTurn
  <2> QED
    BY <2>1, <2>2 DEF TranscriptMatchesTurns, Recorded, Entry
<1>8. DeliveredInOnePrompt'
  <2>1. ASSUME NEW e \in Event PROVE Carried(e)'
    <3>1. Carried(e)
      BY DeliveryByParts DEF StoreInv
    <3>2. e \notin turn[t].carries
      BY <1>3 DEF NoTurn
    <3>3. CASE e \in carried
      BY <3>1, <3>2, <3>3, <1>3, <1>4 DEF Carried
    <3>4. CASE e \notin carried
      BY <3>1, <3>2, <3>4, <1>3, <1>4 DEF Carried
    <3> QED
      BY <3>3, <3>4
  <2> QED
    BY <2>1 DEF DeliveredInOnePrompt, Carried
<1> QED
  BY <1>5, <1>6, <1>7, <1>8 DEF StoreInv

\* Appending to one session keeps every entry there was, and the sessions.
LEMMA Appended ==
  ASSUME StoreInv, NEW s \in Session, NEW x \in Turn \cup {Null},
         transcript' = [transcript EXCEPT ![s] = Append(@, x)]
  PROVE  /\ transcript' \in [Session -> Seq(Turn \cup {Null})]
         /\ \A z \in Session :
              /\ Len(transcript[z]) \in Nat
              /\ Len(transcript'[z]) = IF z = s THEN Len(transcript[z]) + 1 ELSE Len(transcript[z])
              /\ \A i \in 1 .. Len(transcript[z]) : transcript'[z][i] = transcript[z][i]
         /\ transcript'[s][Len(transcript[s]) + 1] = x
<1>1. transcript \in [Session -> Seq(Turn \cup {Null})]
  BY DEF StoreInv, StoreTypeOK
<1>2. ASSUME NEW z \in Session
      PROVE  /\ transcript[z] \in Seq(Turn \cup {Null}) /\ Len(transcript[z]) \in Nat
             /\ transcript'[z] = IF z = s THEN Append(transcript[z], x) ELSE transcript[z]
  BY <1>1, LenProperties
<1>3. transcript' \in [Session -> Seq(Turn \cup {Null})]
  BY <1>1, <1>2, AppendProperties
<1> QED
  BY <1>2, <1>3, AppendProperties

LEMMA CompleteTurnInv ==
  ASSUME StoreInv, NEW t \in Turn, NEW g \in Nat, CompleteTurn(t, g)
  PROVE  StoreInv'
<1> DEFINE s == turn[t].session
<1>1. /\ turn \in [Turn -> TurnRow] /\ t \in Turn
      /\ turn[t].state = "running" /\ turn[t].gen = g /\ g = Len(transcript[s]) + 1
      /\ s \in Session /\ g >= 1
      /\ event' = event
  BY DEF StoreInv, StoreTypeOK, AttemptsOK, AttemptShape, CompleteTurn, Current, Generation
<1>2. \A u \in Turn : /\ turn'[u].state = IF u = t THEN "completed" ELSE turn[u].state
                      /\ turn'[u].session = turn[u].session
                      /\ turn'[u].gen = turn[u].gen
                      /\ turn'[u].carries = turn[u].carries
                      /\ u # t => turn'[u] = turn[u]
  BY <1>1 DEF CompleteTurn, TurnRow
<1>3. /\ transcript' \in [Session -> Seq(Turn \cup {Null})]
      /\ \A z \in Session :
           /\ Len(transcript[z]) \in Nat
           /\ Len(transcript'[z]) = IF z = s THEN Len(transcript[z]) + 1 ELSE Len(transcript[z])
           /\ \A i \in 1 .. Len(transcript[z]) : transcript'[z][i] = transcript[z][i]
      /\ transcript'[s][g] = t
  <2>1. transcript' = [transcript EXCEPT ![s] = Append(@, t)]
    BY DEF CompleteTurn
  <2>2. s \in Session /\ t \in Turn \cup {Null} /\ g = Len(transcript[s]) + 1
    BY <1>1
  <2> HIDE DEF s
  <2> QED
    BY <2>1, <2>2, Appended
<1> HIDE DEF s
<1>4. StoreTypeOK'
  <2>1. turn' \in [Turn -> TurnRow]
    BY <1>1 DEF CompleteTurn, TurnRow, TurnTerminal
  <2> QED
    BY <1>1, <1>3, <2>1 DEF StoreInv, StoreTypeOK
<1>5. AttemptsOK'
  BY <1>1, <1>2 DEF StoreInv, AttemptsOK, AttemptShape, s
<1>6. TranscriptMatchesTurns'
  <2>1. ASSUME NEW u \in Turn PROVE Recorded(u)'
    <3>1. CASE u = t
      BY <3>1, <1>1, <1>2, <1>3 DEF Recorded, Generation, s
    <3>2. CASE u # t /\ turn[u].state = "completed"
      <4>1. /\ turn[u].session \in Session /\ turn[u].gen >= 1 /\ turn[u].gen \in Nat
            /\ turn[u].gen < Len(transcript[turn[u].session]) + 1
            /\ transcript[turn[u].session][turn[u].gen] = u
        BY <3>2, <1>1, TranscriptByParts
        DEF StoreInv, AttemptsOK, AttemptShape, Recorded, Generation, TurnRow
      <4>2. turn[u].gen \in 1 .. Len(transcript[turn[u].session])
        BY <4>1, <1>3
      <4> QED
        BY <4>1, <4>2, <1>2, <1>3, <3>2 DEF Recorded, Generation
    <3> QED
      BY <3>1, <3>2, <1>2 DEF Recorded
  <2>2. ASSUME NEW z \in Session, NEW i \in 1 .. Len(transcript'[z])
        PROVE  Entry(z, i)'
    <3>1. CASE i \in 1 .. Len(transcript[z])
      <4>1. Entry(z, i) /\ transcript'[z][i] = transcript[z][i]
            /\ transcript'[z][i] \in Turn \cup {Null}
        BY <3>1, <1>3, TranscriptByParts DEF StoreInv
      <4> QED
        BY <4>1, <1>1, <1>2 DEF Entry
    <3>2. CASE i \notin 1 .. Len(transcript[z])
      <4>1. z = s /\ i = g
        BY <3>2, <1>1, <1>3
      <4> QED
        BY <4>1, <1>1, <1>2, <1>3 DEF Entry, s
    <3> QED
      BY <3>1, <3>2
  <2> QED
    BY <2>1, <2>2 DEF TranscriptMatchesTurns, Recorded, Entry
<1>7. DeliveredInOnePrompt'
  BY <1>1, <1>2, DeliveryByParts DEF StoreInv, Carried, DeliveredInOnePrompt
<1> QED
  BY <1>4, <1>5, <1>6, <1>7 DEF StoreInv

\* Running attempts that end in anything but completion touch nothing else.
LEMMA EndedInv ==
  ASSUME StoreInv, NEW ended \in SUBSET RunningTurns, NEW o \in TurnTerminal \ {"completed"},
         turn' = [t \in Turn |-> IF t \in ended THEN [turn[t] EXCEPT !.state = o] ELSE turn[t]],
         UNCHANGED <<transcript, event>>
  PROVE  StoreInv'
<1>1. /\ turn \in [Turn -> TurnRow]
      /\ \A t \in ended : t \in Turn /\ turn[t].state = "running"
  BY DEF StoreInv, StoreTypeOK, RunningTurns
<1>2. \A u \in Turn : /\ turn'[u].state = IF u \in ended THEN o ELSE turn[u].state
                      /\ turn'[u].session = turn[u].session
                      /\ turn'[u].gen = turn[u].gen
                      /\ turn'[u].carries = turn[u].carries
                      /\ u \notin ended => turn'[u] = turn[u]
  BY <1>1 DEF TurnRow
<1>3. StoreTypeOK'
  <2>1. turn' \in [Turn -> TurnRow]
    BY <1>1 DEF TurnRow
  <2> QED
    BY <2>1 DEF StoreInv, StoreTypeOK
<1>4. AttemptsOK'
  BY <1>1, <1>2 DEF StoreInv, AttemptsOK, AttemptShape, TurnTerminal
<1>5. TranscriptMatchesTurns'
  <2>1. \A u \in Turn : Recorded(u)'
    BY <1>1, <1>2, TranscriptByParts DEF StoreInv, Recorded, Generation
  <2>2. ASSUME NEW z \in Session, NEW i \in 1 .. Len(transcript'[z])
        PROVE  Entry(z, i)'
    <3>1. Entry(z, i) /\ transcript[z][i] \in Turn \cup {Null}
      BY TranscriptByParts DEF StoreInv, StoreTypeOK
    <3> QED
      BY <3>1, <1>1, <1>2 DEF Entry
  <2> QED
    BY <2>1, <2>2 DEF TranscriptMatchesTurns, Recorded, Entry
<1>6. DeliveredInOnePrompt'
  BY <1>2, DeliveryByParts DEF StoreInv, Carried, DeliveredInOnePrompt
<1> QED
  BY <1>3, <1>4, <1>5, <1>6 DEF StoreInv

LEMMA TerminateTurnInv ==
  ASSUME StoreInv, NEW t \in Turn, NEW g \in Nat, NEW o \in TurnTerminal,
         TerminateTurn(t, g, o)
  PROVE  StoreInv'
<1>1. o # "completed" /\ {t} \in SUBSET RunningTurns
  BY DEF TerminateTurn, Current, RunningTurns
<1>2. turn \in [Turn -> TurnRow]
  BY DEF StoreInv, StoreTypeOK
<1>3. turn' = [u \in Turn |-> IF u \in {t} THEN [turn[u] EXCEPT !.state = o] ELSE turn[u]]
  BY <1>2 DEF TerminateTurn
<1> QED
  BY <1>1, <1>3, EndedInv DEF TerminateTurn

LEMMA ReconcileTurnsInv ==
  ASSUME StoreInv, ReconcileTurns
  PROVE  StoreInv'
<1>1. RunningTurns \in SUBSET RunningTurns /\ "outcome_unknown" \in TurnTerminal \ {"completed"}
  BY DEF TurnTerminal
<1> QED
  BY <1>1, EndedInv DEF ReconcileTurns

LEMMA AppendElsewhereInv ==
  ASSUME StoreInv, NEW s \in Session, AppendElsewhere(s)
  PROVE  StoreInv'
<1>1. /\ transcript' \in [Session -> Seq(Turn \cup {Null})]
      /\ \A z \in Session :
           /\ Len(transcript[z]) \in Nat
           /\ Len(transcript'[z]) = IF z = s THEN Len(transcript[z]) + 1 ELSE Len(transcript[z])
           /\ \A i \in 1 .. Len(transcript[z]) : transcript'[z][i] = transcript[z][i]
      /\ transcript'[s][Len(transcript[s]) + 1] = Null
  BY Appended DEF AppendElsewhere
<1>2. turn' = turn /\ event' = event
  BY DEF AppendElsewhere
<1>3. TranscriptMatchesTurns'
  <2>1. ASSUME NEW u \in Turn, turn[u].state = "completed" PROVE Recorded(u)'
    <3>1. /\ turn[u].session \in Session /\ turn[u].gen >= 1 /\ turn[u].gen \in Nat
          /\ turn[u].gen < Len(transcript[turn[u].session]) + 1
          /\ transcript[turn[u].session][turn[u].gen] = u
      BY <2>1, TranscriptByParts
      DEF StoreInv, StoreTypeOK, AttemptsOK, AttemptShape, Recorded, Generation, TurnRow
    <3>2. turn[u].gen \in 1 .. Len(transcript[turn[u].session])
      BY <3>1, <1>1
    <3> QED
      BY <3>1, <3>2, <1>1, <1>2 DEF Recorded, Generation
  <2>2. ASSUME NEW z \in Session, NEW i \in 1 .. Len(transcript'[z])
        PROVE  Entry(z, i)'
    <3>1. CASE i \in 1 .. Len(transcript[z])
      BY <3>1, <1>1, <1>2, TranscriptByParts DEF StoreInv, Entry
    <3>2. CASE i \notin 1 .. Len(transcript[z])
      <4>1. z = s /\ i = Len(transcript[s]) + 1
        BY <3>2, <1>1
      <4> QED
        BY <4>1, <1>1 DEF Entry
    <3> QED
      BY <3>1, <3>2
  <2> QED
    BY <1>2, <2>1, <2>2 DEF TranscriptMatchesTurns, Recorded, Entry
<1> QED
  BY <1>1, <1>2, <1>3
  DEF StoreInv, StoreTypeOK, AttemptsOK, DeliveredInOnePrompt

-----------------------------------------------------------------------------
(* Steps of the outbox alone: an event that is delivered stays so, and no  *)
(* other becomes so.                                                       *)

LEMMA OutboxInv ==
  ASSUME StoreInv, NEW e \in Event, NEW r \in EventRow, event' = [event EXCEPT ![e] = r],
         r.claim # Null => r.state = "pending", r.expired => r.claim # Null,
         event[e].state # "delivered", r.state # "delivered",
         UNCHANGED <<transcript, turn>>
  PROVE  StoreInv'
<1>1. event \in [Event -> EventRow]
  BY DEF StoreInv, StoreTypeOK
<1>2. \A x \in Event : event'[x] = IF x = e THEN r ELSE event[x]
  BY <1>1
<1>3. StoreTypeOK'
  BY <1>1, <1>2 DEF StoreInv, StoreTypeOK
<1>4. DeliveredInOnePrompt'
  BY <1>2, DeliveryByParts DEF StoreInv, Carried, DeliveredInOnePrompt
<1> QED
  BY <1>3, <1>4 DEF StoreInv, AttemptsOK, TranscriptMatchesTurns, Generation

LEMMA EventInv ==
  ASSUME StoreInv, NEW e \in Event,
         \/ ExpireClaim(e)
         \/ \E s \in Session : Publish(e, s)
         \/ \E t \in Turn : ClaimEvent(e, t) \/ ReleaseEvent(e, t)
  PROVE  StoreInv'
<1> USE DEF EventRow, NoEvent
<1>1. /\ event[e] \in EventRow
      /\ event[e].claim # Null => event[e].state = "pending"
      /\ event[e].expired => event[e].claim # Null
  BY DEF StoreInv, StoreTypeOK
<1>2. CASE ExpireClaim(e)
  <2>1. [event[e] EXCEPT !.expired = TRUE] \in EventRow
    BY <1>1
  <2> QED
    BY <1>1, <1>2, <2>1, OutboxInv DEF ExpireClaim
<1>3. ASSUME NEW s \in Session, Publish(e, s) PROVE StoreInv'
  <2>1. [NoEvent EXCEPT !.state = "pending", !.parent = s] \in EventRow
    OBVIOUS
  <2> QED
    BY <1>3, <2>1, OutboxInv DEF Publish
<1>4. ASSUME NEW t \in Turn, ClaimEvent(e, t) PROVE StoreInv'
  <2>1. [event[e] EXCEPT !.claim = t, !.expired = FALSE] \in EventRow
    BY <1>1
  <2> QED
    BY <1>1, <1>4, <2>1, OutboxInv DEF ClaimEvent, Available
<1>5. ASSUME NEW t \in Turn, ReleaseEvent(e, t) PROVE StoreInv'
  <2>1. [event[e] EXCEPT !.claim = Null, !.expired = FALSE] \in EventRow
    BY <1>1
  <2> QED
    BY <1>1, <1>5, <2>1, OutboxInv DEF ReleaseEvent
<1> QED
  BY <1>2, <1>3, <1>4, <1>5

-----------------------------------------------------------------------------
LEMMA NextStoreInv == StoreInv /\ [StoreNext]_storeVars => StoreInv'
<1> SUFFICES ASSUME StoreInv, [StoreNext]_storeVars PROVE StoreInv'
  OBVIOUS
<1>1. ASSUME NEW s \in Session, NEW n \in 1 .. Generation(s) PROVE n \in Nat
  BY DEF StoreInv, StoreTypeOK, Generation
<1>2. ASSUME NEW t \in Turn, NEW g \in 1 .. turn[t].gen PROVE g \in Nat
  BY DEF StoreInv, StoreTypeOK, TurnRow
<1>3. ASSUME NEW t \in Turn, NEW s \in Session, NEW g \in 1 .. Generation(s),
             NEW carried \in SUBSET Event, NEW newer \in SUBSET Event,
             StartTurn(t, s, g, carried, newer)
      PROVE  StoreInv'
  BY <1>1, <1>3, StartTurnInv
<1>4. ASSUME NEW t \in Turn, NEW g \in 1 .. turn[t].gen, CompleteTurn(t, g)
      PROVE  StoreInv'
  BY <1>2, <1>4, CompleteTurnInv
<1>5. ASSUME NEW t \in Turn, NEW g \in 1 .. turn[t].gen, NEW o \in TurnTerminal,
             TerminateTurn(t, g, o)
      PROVE  StoreInv'
  BY <1>2, <1>5, TerminateTurnInv
<1>6. CASE ReconcileTurns
  BY <1>6, ReconcileTurnsInv
<1>7. ASSUME NEW s \in Session, AppendElsewhere(s) PROVE StoreInv'
  BY <1>7, AppendElsewhereInv
<1>8. CASE UNCHANGED storeVars
  BY <1>8 DEF storeVars, StoreInv, StoreTypeOK, AttemptsOK, TranscriptMatchesTurns,
              DeliveredInOnePrompt, Generation
<1> QED
  BY <1>3, <1>4, <1>5, <1>6, <1>7, <1>8, EventInv DEF StoreNext

LEMMA StoreInvHolds == StoreSpec => []StoreInv
  BY InitStoreInv, NextStoreInv, PTL DEF StoreSpec

\* The three tables keep their types, and only a pending completion is claimed,
\* whatever the callers of sqlite_foreground.rs pass.
THEOREM ForegroundTypeCorrect == StoreSpec => []StoreTypeOK
<1>1. StoreInv => StoreTypeOK
  BY DEF StoreInv
<1> QED
  BY <1>1, StoreInvHolds, PTL

\* The transcript of a session holds the turns that completed, each right after
\* the transcript it was started on (start_with_deliveries, complete).
THEOREM TranscriptIsTurns == StoreSpec => []TranscriptMatchesTurns
<1>1. StoreInv => TranscriptMatchesTurns
  BY DEF StoreInv
<1> QED
  BY <1>1, StoreInvHolds, PTL

\* A completion is delivered exactly when one prompt of its parent session
\* carries it (start_with_deliveries, claim_completion, release_completion).
THEOREM OnePromptPerCompletion == StoreSpec => []DeliveredInOnePrompt
<1>1. StoreInv => DeliveredInOnePrompt
  BY DEF StoreInv
<1> QED
  BY <1>1, StoreInvHolds, PTL
=============================================================================

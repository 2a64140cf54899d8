------------------------ MODULE TerminalClientProofs ------------------------
(* The invariants of the terminal client, for every number of sessions,    *)
(* submissions and commands, and pipes of any length.                      *)
(*                                                                         *)
(* TypeCorrect holds whatever the gateway refuses.  The other theorems are *)
(* for a gateway that refuses no answer and no interrupt (NoKeyRefused):   *)
(* it does so when the store cannot load the session (interrupt_session),  *)
(* and then the client takes the error for the end of its submission and   *)
(* shows no turn while one runs: each of the three properties then fails.  *)
(* Lists, creations, resumptions and submissions may all be refused.       *)
(*                                                                         *)
(* They rest on CycleInv.  A submission is in the input, is running, or    *)
(* its end is under way, one at a time (OneAtATime), and so is a request   *)
(* for another screen (Navigating): what is in both pipes is counted.  So  *)
(* whatever a session holds in the gateway is of the turn on screen (Held, *)
(* OnScreen), an interrupt in the input was pressed for it (Stopping), and *)
(* no answer outlives its turn in the input (AnswersInTime).               *)
EXTENDS TerminalClient, SequenceTheorems, FiniteSetTheorems, TLAPS

Holding(q, R) == {k \in DOMAIN q : q[k] \in R}
Count(q, R) == Cardinality(Holding(q, R))

Submits == {r \in Request : r.kind = "submit"}
Consents == {r \in Request : r.kind = "approval" /\ r.choice = "allow"}

Addressed(r) == r.kind \notin {"list", "create"} => r.session \in Session

WellFormed(f) ==
    /\ f.type = "none" => f = NoFrame
    /\ f.type = "result" =>
         f.kind \in Kind /\ (f.kind \in {"create", "resume"} => f.session \in Session)
    /\ f.type = "error" => f.kind \in Failing \union {"submit"}
    /\ f.type = "event" =>
         /\ f.kind \in {"start", "request", "complete"}
         /\ f.session \in Session

UiOK == ui \in AppModel /\ (ui.screen = "Chat" => ui.active \in Session)

PipesOK ==
    /\ input \in Seq(Request)
    /\ \A k \in DOMAIN input : Addressed(input[k])
    /\ output \in Seq(Frame)
    /\ \A k \in DOMAIN output : WellFormed(output[k]) /\ output[k].type # "none"
    /\ serving \in Frame /\ WellFormed(serving) /\ serving.type # "event"

HostOK ==
    /\ quit \in BOOLEAN /\ closed \in BOOLEAN
    /\ stored \subseteq Session /\ working \subseteq Session
    /\ control \in [Session -> Turn \union {NoTurn}]
    /\ waiter \in [Session -> Call \union {NoCall}]
    /\ cancelled \subseteq Turn

TurnsOK ==
    /\ phase \in [Turn -> Phase]
    /\ home \in [Turn -> Session \union {NoSession}]
    /\ decision \in [Turn -> {"none", "allow", "deny"}]
    /\ asks \in [Turn -> 0 .. AskBound]
    /\ \A t \in Turn :
         /\ phase[t] # "none" => home[t] \in Session
         /\ phase[t] \in {"planned", "waiting"} => asks[t] >= 1

HistoryOK ==
    /\ submitted \in 0 .. TurnBound
    /\ latest \in [Session -> 0 .. TurnBound]
    /\ stopped \subseteq 0 .. TurnBound
    /\ credit \in [Turn -> Int]

\* What is still in the input was submitted: the next one has a number.
Numbered == Count(input, Submits) <= submitted

TypeInv == UiOK /\ PipesOK /\ HostOK /\ TurnsOK /\ HistoryOK /\ Numbered

-----------------------------------------------------------------------------
(* Queues: what a write and a read do to what they hold. *)

LEMMA Appended ==
  ASSUME NEW S, NEW q \in Seq(S), NEW e \in S
  PROVE  /\ Append(q, e) \in Seq(S)
         /\ Len(q) \in Nat /\ Len(Append(q, e)) = Len(q) + 1
         /\ DOMAIN q = 1 .. Len(q) /\ DOMAIN Append(q, e) = 1 .. Len(q) + 1
         /\ \A k \in DOMAIN q : Append(q, e)[k] = q[k]
         /\ Append(q, e)[Len(q) + 1] = e
  OBVIOUS

LEMMA Removed ==
  ASSUME NEW S, NEW q \in Seq(S), q # <<>>
  PROVE  /\ Tail(q) \in Seq(S) /\ Head(q) \in S /\ Head(q) = q[1]
         /\ Len(q) \in Nat \ {0} /\ Len(Tail(q)) = Len(q) - 1
         /\ DOMAIN q = 1 .. Len(q) /\ DOMAIN Tail(q) = 1 .. Len(q) - 1
         /\ \A k \in DOMAIN Tail(q) : Tail(q)[k] = q[k + 1]
<1>1. Len(q) \in Nat \ {0}
  BY EmptySeq
<1> QED
  BY <1>1, HeadTailProperties

LEMMA CountFinite ==
  ASSUME NEW S, NEW q \in Seq(S), NEW R
  PROVE  /\ IsFiniteSet(Holding(q, R))
         /\ Count(q, R) \in Nat
         /\ (\A k \in DOMAIN q : q[k] \notin R) => Count(q, R) = 0
<1>1. DOMAIN q = 1 .. Len(q) /\ Len(q) \in Nat
  OBVIOUS
<1>2. IsFiniteSet(Holding(q, R))
  <2>1. IsFiniteSet(1 .. Len(q)) /\ Holding(q, R) \in SUBSET (1 .. Len(q))
    BY <1>1, FS_Interval DEF Holding
  <2> QED
    BY <2>1, FS_Subset
<1>3. (\A k \in DOMAIN q : q[k] \notin R) => Holding(q, R) = {}
  BY DEF Holding
<1> QED
  BY <1>2, <1>3, FS_CardinalityType, FS_EmptySet DEF Count

LEMMA CountOne ==
  ASSUME NEW S, NEW q \in Seq(S), NEW R, NEW i \in DOMAIN q, q[i] \in R,
         \A j \in DOMAIN q : q[j] \in R => j = i
  PROVE  Count(q, R) = 1
<1>1. Holding(q, R) = {i}
  BY DEF Holding
<1> QED
  BY <1>1, FS_Singleton DEF Count

LEMMA CountAppend ==
  ASSUME NEW S, NEW q \in Seq(S), NEW R, NEW e \in S
  PROVE  Count(Append(q, e), R) = IF e \in R THEN Count(q, R) + 1 ELSE Count(q, R)
<1> DEFINE r == Append(q, e)
<1>1. /\ Len(q) \in Nat /\ DOMAIN q = 1 .. Len(q) /\ DOMAIN r = 1 .. Len(q) + 1
      /\ \A k \in DOMAIN q : r[k] = q[k]
      /\ r[Len(q) + 1] = e
  BY Appended
<1> HIDE DEF r
<1>2. Holding(r, R) = IF e \in R THEN Holding(q, R) \cup {Len(q) + 1} ELSE Holding(q, R)
  BY <1>1 DEF Holding
<1>3. Len(q) + 1 \notin Holding(q, R)
  BY <1>1 DEF Holding
<1>4. Cardinality(Holding(q, R) \cup {Len(q) + 1}) = Cardinality(Holding(q, R)) + 1
  BY <1>3, CountFinite, FS_AddElement
<1> QED
  BY <1>2, <1>4 DEF Count, r

LEMMA CountTail ==
  ASSUME NEW S, NEW q \in Seq(S), NEW R, q # <<>>
  PROVE  Count(q, R) = IF Head(q) \in R THEN Count(Tail(q), R) + 1 ELSE Count(Tail(q), R)
<1> DEFINE r == Tail(q)
           U == Holding(r, R)
           V == {k + 1 : k \in U}
           f == [k \in U |-> k + 1]
<1>1. /\ r \in Seq(S) /\ Head(q) = q[1] /\ Len(q) \in Nat \ {0}
      /\ DOMAIN q = 1 .. Len(q) /\ DOMAIN r = 1 .. Len(q) - 1
      /\ \A k \in DOMAIN r : r[k] = q[k + 1]
  BY Removed
<1> HIDE DEF r
<1>2. Holding(q, R) = IF Head(q) \in R THEN V \cup {1} ELSE V
  <2>1. \A k \in Holding(q, R) : k = 1 \/ (k - 1 \in U /\ k = (k - 1) + 1)
    BY <1>1 DEF Holding
  <2>2. \A k \in U : k + 1 \in Holding(q, R) /\ k + 1 # 1
    BY <1>1 DEF Holding
  <2>3. 1 \in Holding(q, R) <=> Head(q) \in R
    BY <1>1 DEF Holding
  <2> HIDE DEF U
  <2>4. Holding(q, R) \subseteq V \cup {1} /\ V \subseteq Holding(q, R) /\ 1 \notin V
    BY <2>1, <2>2
  <2> QED
    BY <2>3, <2>4
<1>3. 1 \notin V /\ IsFiniteSet(U) /\ U \subseteq Nat
  <2>1. U \subseteq Nat /\ \A k \in U : k >= 1
    BY <1>1 DEF Holding
  <2>2. IsFiniteSet(U)
    BY <1>1, CountFinite
  <2> HIDE DEF U
  <2> QED
    BY <2>1, <2>2
<1>4. IsFiniteSet(V) /\ Cardinality(V) = Cardinality(U)
  <2> HIDE DEF U
  <2>1. f \in Bijection(U, V)
    BY <1>3 DEF Bijection, Injection, Surjection, IsInjective
  <2> QED
    BY <2>1, <1>3, FS_Bijection DEF ExistsBijection
<1>5. Cardinality(V \cup {1}) = Cardinality(V) + 1
  BY <1>3, <1>4, FS_AddElement
<1> QED
  BY <1>2, <1>4, <1>5 DEF Count, r

-----------------------------------------------------------------------------
(* Requests and frames. *)

LEMMA Values ==
  /\ NoTurn = 0 /\ NoCall = <<0, 0>> /\ NoCall \notin Call /\ NoTurn \notin Turn
  /\ \A call \in Call : TurnOf(call) \in Turn
  /\ NoSession \notin Session /\ Failing \subseteq Kind
  /\ TurnBound \in Nat /\ AskBound \in Nat /\ Turn = 1 .. TurnBound
BY ClientAssumption DEF NoTurn, NoCall, Call, Turn, TurnOf

LEMMA EventFrame ==
  ASSUME NEW kind \in {"start", "request", "complete"}, NEW s \in Session
  PROVE  LET f == Event(kind, s) IN
         /\ f \in Frame /\ WellFormed(f)
         /\ f.type = "event" /\ f.kind = kind /\ f.session = s /\ ~f.running
BY Values DEF Event, NoFrame, Frame, WellFormed

LEMMA RequestFrame ==
  ASSUME NEW s \in Session, NEW call \in Call
  PROVE  LET f == [Event("request", s) EXCEPT !.call = call] IN
         /\ f \in Frame /\ WellFormed(f)
         /\ f.type = "event" /\ f.kind = "request" /\ f.session = s /\ ~f.running
         /\ f.call = call
BY Values DEF Event, NoFrame, Frame, WellFormed

LEMMA ResultFrame ==
  ASSUME NEW kind \in Kind, NEW s \in Session \union {NoSession},
         kind \in {"create", "resume"} => s \in Session
  PROVE  LET f == Result(kind, s) IN
         /\ f \in Frame /\ WellFormed(f)
         /\ f.type = "result" /\ f.kind = kind /\ f.session = s /\ ~f.running
BY Values DEF Result, NoFrame, Frame, WellFormed

LEMMA ResumeFrame ==
  ASSUME NEW s \in Session, NEW b \in BOOLEAN
  PROVE  LET f == [Result("resume", s) EXCEPT !.running = b] IN
         /\ f \in Frame /\ WellFormed(f)
         /\ f.type = "result" /\ f.kind = "resume" /\ f.session = s /\ f.running = b
BY Values DEF Result, NoFrame, Frame, WellFormed, Kind

LEMMA ListFrame ==
  ASSUME NEW S \in SUBSET Session
  PROVE  LET f == [Result("list", NoSession) EXCEPT !.sessions = S] IN
         /\ f \in Frame /\ WellFormed(f)
         /\ f.type = "result" /\ f.kind = "list" /\ ~f.running
BY Values DEF Result, NoFrame, Frame, WellFormed, Kind

LEMMA RefusalFrame ==
  ASSUME NEW kind \in Failing \union {"submit"}
  PROVE  LET f == Refusal(kind) IN
         /\ f \in Frame /\ WellFormed(f)
         /\ f.type = "error" /\ f.kind = kind /\ ~f.running
BY Values DEF Kind, Refusal, NoFrame, Frame, WellFormed

LEMMA NoFrameFacts ==
  /\ NoFrame \in Frame /\ WellFormed(NoFrame)
  /\ NoFrame.type = "none" /\ NoFrame.kind = "none" /\ ~NoFrame.running
BY Values DEF NoFrame, Frame, WellFormed

LEMMA RequestTyped ==
  ASSUME NEW kind \in Kind, NEW s \in Session \union {NoSession},
         NEW choice \in {"none", "allow", "deny"},
         kind \notin {"list", "create"} => s \in Session
  PROVE  LET r == [kind |-> kind, session |-> s, choice |-> choice] IN
         /\ r \in Request /\ Addressed(r)
         /\ r \in Submits <=> kind = "submit"
         /\ r \in Consents <=> kind = "approval" /\ choice = "allow"
BY DEF Request, Addressed, Submits, Consents

-----------------------------------------------------------------------------
(* The two sides: what the client leaves alone, and the gateway. *)

LEMMA ClientSide ==
  ASSUME User \/ ReadFrame
  PROVE  UNCHANGED <<serving, host, turns>>
<1>1. CASE User
  BY <1>1 DEF User, PickSession, NewSession, OpenPicker, Submit, Answer, Interrupt, Quit
<1>2. CASE ReadFrame
  BY <1>2 DEF ReadFrame
<1> QED
  BY <1>1, <1>2

LEMMA MainSide ==
  ASSUME MainTask
  PROVE  UNCHANGED <<ui, quit, history>>
BY DEF MainTask, ServeError, ServeList, ServeCreate, ServeResume, ServeSubmit,
       ServeApproval, ServeInterrupt, Reply, EndOfInput, history

LEMMA TurnSide ==
  ASSUME NEW t \in Turn, TurnTask(t)
  PROVE  UNCHANGED <<ui, quit, input, serving, stored, closed, submitted, latest, stopped>>
BY DEF TurnTask, TurnStart, Plan, Ask, Decide, EndTurn, GoIdle, ClearControl, Tell,
       history, host, pipes

-----------------------------------------------------------------------------

LEMMA InitTypes == Init => TypeInv
<1> SUFFICES ASSUME Init PROVE TypeInv
  OBVIOUS
<1>1. UiOK
  BY DEF Init, UiOK, AppModel, NewModel
<1>2. PipesOK /\ Numbered
  <2>1. LET r == [kind |-> "list", session |-> NoSession, choice |-> "none"] IN
        r \in Request /\ Addressed(r) /\ r \notin Submits
    BY RequestTyped DEF Kind
  <2>2. /\ input \in Seq(Request) /\ output \in Seq(Frame) /\ DOMAIN output = {}
        /\ \A k \in DOMAIN input : Addressed(input[k]) /\ input[k] \notin Submits
    BY <2>1 DEF Init
  <2>3. Count(input, Submits) = 0
    BY <2>2, CountFinite
  <2>4. serving = NoFrame /\ submitted = 0
    BY DEF Init
  <2> QED
    BY <2>2, <2>3, <2>4, NoFrameFacts DEF PipesOK, Numbered
<1>3. HostOK
  BY Values, ClientAssumption DEF Init, HostOK
<1>4. TurnsOK
  BY Values DEF Init, TurnsOK, Phase
<1>5. HistoryOK
  BY Values DEF Init, HistoryOK
<1> QED
  BY <1>1, <1>2, <1>3, <1>4, <1>5 DEF TypeInv

LEMMA UiTypes ==
  ASSUME TypeInv, Next
  PROVE  UiOK'
<1> USE DEF TypeInv, UiOK
<1>1. CASE User
  <2>1. CASE Quit
    BY <2>1 DEF Quit, Leave, NewModel, AppModel
  <2>2. CASE \E s \in Session : PickSession(s)
    BY <2>2 DEF PickSession, AppModel
  <2>3. CASE Submit
    BY <2>3 DEF Submit, BeginSubmit, AppModel
  <2>4. CASE NewSession \/ OpenPicker \/ Interrupt
    BY <2>4 DEF NewSession, OpenPicker, Interrupt, AppModel
  <2>5. CASE \E choice \in {"allow", "deny"} : Answer(choice)
    BY <2>5 DEF Answer
  <2> QED
    BY <1>1, <2>1, <2>2, <2>3, <2>4, <2>5 DEF User
<1>2. CASE ReadFrame
  <2>1. CASE Leave
    BY <2>1 DEF Leave, NewModel, AppModel
  <2>2. CASE output # <<>> /\ ui' = AfterFrame(Head(output))
    <3> DEFINE f == Head(output)
    <3>1. f \in Frame /\ WellFormed(f) /\ f.type # "none"
      BY <2>2, Removed DEF PipesOK
    <3> HIDE DEF f
    <3>2. ui' = AfterFrame(f)
      BY <2>2 DEF f
    <3>3. CASE f.type = "error"
      BY <3>2, <3>3 DEF AfterFrame, AfterError, AppModel
    <3>4. CASE f.type = "result"
      BY <3>1, <3>2, <3>4 DEF AfterFrame, AfterResult, Resumed, AppModel, Frame, WellFormed, Kind
    <3>5. CASE f.type = "event"
      BY <3>1, <3>2, <3>5 DEF AfterFrame, AfterEvent, Completed, AppModel, Frame, WellFormed
    <3> QED
      BY <3>1, <3>3, <3>4, <3>5 DEF Frame
  <2> QED
    BY <1>2, <2>1, <2>2 DEF ReadFrame
<1>3. CASE MainTask
  BY <1>3, MainSide
<1>4. CASE \E t \in Turn : TurnTask(t)
  BY <1>4, TurnSide
<1> QED
  BY <1>1, <1>2, <1>3, <1>4 DEF Next

LEMMA HistoryTypes ==
  ASSUME TypeInv, Next
  PROVE  HistoryOK'
<1> USE DEF TypeInv, HistoryOK
<1>1. CASE User
  <2>1. CASE \E choice \in {"allow", "deny"} : Answer(choice)
    BY <2>1, Values DEF Answer, UiOK, AppModel
  <2>2. CASE Interrupt
    BY <2>2, Values DEF Interrupt, UiOK, AppModel
  <2>3. CASE Submit
    BY <2>3, Values DEF Submit, UiOK, AppModel
  <2> QED
    BY <1>1, <2>1, <2>2, <2>3
       DEF User, PickSession, NewSession, OpenPicker, Quit, history
<1>2. CASE ReadFrame
  BY <1>2 DEF ReadFrame, history
<1>3. CASE MainTask
  BY <1>3, MainSide DEF history
<1>4. ASSUME NEW t \in Turn, TurnTask(t) PROVE HistoryOK'
  <2>1. credit' \in [Turn -> Int]
    BY <1>4 DEF TurnTask, TurnStart, Plan, Ask, Decide, EndTurn, GoIdle, ClearControl, Tell,
       history
  <2> QED
    BY <1>4, <2>1, TurnSide
<1> QED
  BY <1>1, <1>2, <1>3, <1>4 DEF Next

-----------------------------------------------------------------------------
(* The pipes. *)

\* What a step may do to the input, and to the output.
InputMoves ==
    \/ input' = input
    \/ input # <<>> /\ input' = Tail(input)
    \/ \E r \in Request :
         /\ Addressed(r)
         /\ input' = Append(input, r)
         /\ r \in Submits => submitted' = submitted + 1

OutputMoves ==
    \/ output' = output
    \/ output' = <<>>
    \/ output # <<>> /\ output' = Tail(output)
    \/ \E f \in Frame :
         /\ WellFormed(f) /\ f.type # "none"
         /\ output' = Append(output, f)

LEMMA SentMoves ==
  ASSUME NEW kind \in Kind, NEW s \in Session \union {NoSession},
         NEW choice \in {"none", "allow", "deny"},
         kind \notin {"list", "create"} => s \in Session,
         kind = "submit" => submitted' = submitted + 1,
         Sent(kind, s, choice)
  PROVE  InputMoves
<1> DEFINE r == [kind |-> kind, session |-> s, choice |-> choice]
<1>1. r \in Request /\ Addressed(r) /\ (r \in Submits => kind = "submit")
  BY RequestTyped
<1>2. input' = Append(input, r)
  BY DEF Sent
<1> QED
  BY <1>1, <1>2 DEF InputMoves

LEMMA WrittenMoves ==
  ASSUME NEW f \in Frame, WellFormed(f), f.type # "none", Written(f)
  PROVE  OutputMoves
BY DEF Written, OutputMoves

LEMMA InputStep ==
  ASSUME TypeInv, Next
  PROVE  InputMoves /\ submitted \in Nat /\ submitted' \in Nat /\ submitted' >= submitted
<1>1. submitted \in Nat /\ UiOK /\ PipesOK
  BY Values DEF TypeInv, HistoryOK
<1>2. CASE User
  <2> USE DEF Kind
  <2>1. CASE \E s \in Session : PickSession(s)
    BY <1>1, <2>1, SentMoves DEF PickSession, history
  <2>2. CASE NewSession
    BY <1>1, <2>2, SentMoves DEF NewSession, history
  <2>3. CASE OpenPicker
    BY <1>1, <2>3, SentMoves DEF OpenPicker, history
  <2>4. CASE Submit
    BY <1>1, <2>4, SentMoves DEF Submit, UiOK
  <2>5. CASE \E choice \in {"allow", "deny"} : Answer(choice)
    BY <1>1, <2>5, SentMoves DEF Answer, UiOK
  <2>6. CASE Interrupt
    BY <1>1, <2>6, SentMoves DEF Interrupt, UiOK
  <2>7. CASE Quit
    BY <1>1, <2>7 DEF Quit, history, InputMoves
  <2> QED
    BY <1>2, <2>1, <2>2, <2>3, <2>4, <2>5, <2>6, <2>7 DEF User
<1>3. CASE ReadFrame
  <2>1. UNCHANGED submitted /\ output # <<>>
    BY <1>3 DEF ReadFrame, history
  <2>2. CASE input' = input
    BY <1>1, <2>1, <2>2 DEF InputMoves
  <2>3. CASE /\ Reloads(Head(output)) # NoSession
             /\ ~(Head(output).kind = "complete" /\ ui.active = NoSession)
             /\ Sent("resume", Reloads(Head(output)), "none")
    <3> DEFINE f == Head(output)
    <3>1. f \in Frame /\ WellFormed(f)
      BY <1>1, <2>1, Removed DEF PipesOK
    <3> HIDE DEF f
    <3>2. Reloads(f) # NoSession /\ Sent("resume", Reloads(f), "none")
      BY <2>3 DEF f
    <3>3. Reloads(f) \in Session
      BY <1>1, <3>1, <3>2 DEF Reloads, WellFormed, UiOK, AppModel
    <3> QED
      BY <1>1, <2>1, <3>2, <3>3, SentMoves DEF Kind
  <2> QED
    BY <1>3, <2>2, <2>3 DEF ReadFrame
<1>4. CASE MainTask
  <2>1. UNCHANGED submitted
    BY <1>4, MainSide DEF history
  <2>2. input' = input \/ (input # <<>> /\ input' = Tail(input))
    BY <1>4 DEF MainTask, ServeError, ServeList, ServeCreate, ServeResume, ServeSubmit,
       ServeApproval, ServeInterrupt, Reply, EndOfInput, Take, pipes
  <2> QED
    BY <1>1, <2>1, <2>2 DEF InputMoves
<1>5. CASE \E t \in Turn : TurnTask(t)
  BY <1>1, <1>5, TurnSide DEF InputMoves
<1> QED
  BY <1>2, <1>3, <1>4, <1>5 DEF Next

LEMMA OutputStep ==
  ASSUME TypeInv, Next
  PROVE  OutputMoves
<1>1. PipesOK /\ TurnsOK /\ HostOK
  BY DEF TypeInv
<1>2. CASE User
  BY <1>2 DEF User, PickSession, NewSession, OpenPicker, Submit, Answer, Interrupt, Quit, Leave,
     OutputMoves
<1>3. CASE ReadFrame
  BY <1>3 DEF ReadFrame, Leave, OutputMoves
<1>4. CASE MainTask
  <2>1. CASE Reply
    <3>1. serving.type # "none"
      BY <1>1, <2>1 DEF Reply, PipesOK, WellFormed
    <3> QED
      BY <1>1, <2>1, <3>1, WrittenMoves DEF Reply, PipesOK
  <2>2. ~Reply => UNCHANGED output
    BY <1>4 DEF MainTask, ServeError, ServeList, ServeCreate, ServeResume, ServeSubmit,
       ServeApproval, ServeInterrupt, EndOfInput, pipes
  <2> QED
    BY <2>1, <2>2 DEF OutputMoves
<1>5. ASSUME NEW t \in Turn, TurnTask(t) PROVE OutputMoves
  <2>1. phase[t] # "none" => home[t] \in Session
    BY <1>1 DEF TurnsOK
  <2>2. CASE TurnStart(t)
    BY <2>1, <2>2, EventFrame, WrittenMoves DEF TurnStart
  <2>3. CASE Ask(t)
    <3> DEFINE f == [Event("request", home[t]) EXCEPT !.call = <<t, asks[t]>>]
    <3>1. <<t, asks[t]>> \in Call /\ home[t] \in Session
      BY <1>1, <2>1, <2>3, Values DEF Ask, TurnsOK, Call
    <3>2. f \in Frame /\ WellFormed(f) /\ f.type # "none"
      BY <3>1, RequestFrame
    <3>3. Written(f)
      BY <2>3 DEF Ask
    <3> HIDE DEF f
    <3> QED
      BY <3>2, <3>3, WrittenMoves
  <2>4. CASE Tell(t)
    BY <2>1, <2>4, EventFrame, WrittenMoves DEF Tell
  <2>5. CASE Plan(t) \/ Decide(t) \/ EndTurn(t) \/ GoIdle(t) \/ ClearControl(t)
    BY <2>5 DEF Plan, Decide, EndTurn, GoIdle, ClearControl, pipes, OutputMoves
  <2> QED
    BY <1>5, <2>2, <2>3, <2>4, <2>5 DEF TurnTask
<1> QED
  BY <1>2, <1>3, <1>4, <1>5 DEF Next

LEMMA PipeTypes ==
  ASSUME TypeInv, Next
  PROVE  PipesOK' /\ Numbered'
<1>1. PipesOK /\ Numbered
  BY DEF TypeInv
<1>2. /\ input' \in Seq(Request)
      /\ \A k \in DOMAIN input' : Addressed(input'[k])
      /\ Numbered'
  <2> DEFINE n == Count(input, Submits)
  <2>1. InputMoves /\ submitted \in Nat /\ submitted' \in Nat /\ submitted' >= submitted
    BY InputStep
  <2>2. n \in Nat /\ n <= submitted
    BY <1>1, CountFinite DEF PipesOK, Numbered
  <2>3. CASE input' = input
    BY <1>1, <2>1, <2>2, <2>3 DEF PipesOK, Numbered, Count, Holding
  <2>4. CASE input # <<>> /\ input' = Tail(input)
    <3>1. n = IF Head(input) \in Submits THEN Count(Tail(input), Submits) + 1
              ELSE Count(Tail(input), Submits)
      BY <1>1, <2>4, CountTail DEF PipesOK
    <3>2. Tail(input) \in Seq(Request) /\ \A k \in DOMAIN Tail(input) : Addressed(Tail(input)[k])
      BY <1>1, <2>4, Removed DEF PipesOK
    <3>3. Count(Tail(input), Submits) \in Nat
      BY <3>2, CountFinite
    <3>4. Count(Tail(input), Submits) <= submitted'
      <4> HIDE DEF n
      <4> QED BY <2>1, <2>2, <3>1, <3>3
    <3> QED
      BY <2>4, <3>2, <3>4 DEF Numbered, Count, Holding
  <2>5. ASSUME NEW r \in Request, Addressed(r), input' = Append(input, r),
               r \in Submits => submitted' = submitted + 1
        PROVE  /\ input' \in Seq(Request)
               /\ \A k \in DOMAIN input' : Addressed(input'[k])
               /\ Numbered'
    <3>1. Count(Append(input, r), Submits) = IF r \in Submits THEN n + 1 ELSE n
      BY <1>1, CountAppend DEF PipesOK
    <3>2. Append(input, r) \in Seq(Request)
          /\ \A k \in DOMAIN Append(input, r) : Addressed(Append(input, r)[k])
      BY <1>1, <2>5, Appended DEF PipesOK
    <3>3. Count(Append(input, r), Submits) <= submitted'
      <4> HIDE DEF n
      <4> QED BY <2>1, <2>2, <2>5, <3>1
    <3> QED
      BY <2>5, <3>2, <3>3 DEF Numbered, Count, Holding
  <2> QED
    BY <2>1, <2>3, <2>4, <2>5 DEF InputMoves
<1>3. /\ output' \in Seq(Frame)
      /\ \A k \in DOMAIN output' : WellFormed(output'[k]) /\ output'[k].type # "none"
  <2>1. CASE output' = output
    BY <1>1, <2>1 DEF PipesOK
  <2>2. CASE output' = <<>>
    BY <2>2
  <2>3. CASE output # <<>> /\ output' = Tail(output)
    BY <1>1, <2>3, Removed DEF PipesOK
  <2>4. ASSUME NEW f \in Frame, WellFormed(f), f.type # "none", output' = Append(output, f)
        PROVE  /\ output' \in Seq(Frame)
               /\ \A k \in DOMAIN output' : WellFormed(output'[k]) /\ output'[k].type # "none"
    BY <1>1, <2>4, Appended DEF PipesOK
  <2> QED
    BY <2>1, <2>2, <2>3, <2>4, OutputStep DEF OutputMoves
<1>4. serving' \in Frame /\ WellFormed(serving)' /\ serving'.type # "event"
  <2>1. CASE MainTask
    <3>1. CASE ServeError
      BY <3>1, RefusalFrame DEF ServeError
    <3>2. CASE ServeList
      <4>1. stored \in SUBSET Session
        BY DEF TypeInv, HostOK
      <4> QED
        BY <3>2, <4>1, ListFrame DEF ServeList
    <3>3. CASE ServeCreate
      BY <3>3, ResultFrame DEF ServeCreate, Kind
    <3>4. CASE \/ ServeResume \/ ServeSubmit \/ ServeApproval \/ ServeInterrupt
      <4> DEFINE s == Head(input).session
      <4>1. s \in Session
        BY <1>1, <3>4, Removed DEF ServeResume, ServeSubmit, ServeApproval, ServeInterrupt, Take,
           PipesOK, Addressed
      <4>2. CASE ServeResume
        <5>1. serving' = [Result("resume", s) EXCEPT !.running = (s \in working)]
          BY <4>2 DEF ServeResume
        <5>2. (s \in working) \in BOOLEAN
          OBVIOUS
        <5> HIDE DEF s
        <5> QED
          BY <4>1, <5>1, <5>2, ResumeFrame
      <4>3. CASE ServeSubmit
        <5>1. serving' = Refusal("submit") \/ serving' = Result("submit", s)
          BY <4>3 DEF ServeSubmit
        <5> HIDE DEF s
        <5> QED
          BY <4>1, <5>1, ResultFrame, RefusalFrame DEF Kind
      <4>4. CASE ServeApproval \/ ServeInterrupt
        <5>1. serving' = Result("approval", s) \/ serving' = Result("interrupt", s)
          BY <4>4 DEF ServeApproval, ServeInterrupt
        <5> HIDE DEF s
        <5> QED
          BY <4>1, <5>1, ResultFrame DEF Kind
      <4> QED
        BY <3>4, <4>2, <4>3, <4>4
    <3>5. CASE Reply
      BY <3>5, NoFrameFacts DEF Reply
    <3>6. CASE EndOfInput
      BY <1>1, <3>6 DEF EndOfInput, PipesOK
    <3> QED
      BY <2>1, <3>1, <3>2, <3>3, <3>4, <3>5, <3>6 DEF MainTask
  <2>2. ~MainTask => UNCHANGED serving
    BY ClientSide, TurnSide DEF Next
  <2> QED
    BY <1>1, <2>1, <2>2 DEF PipesOK
<1> QED
  BY <1>2, <1>3, <1>4 DEF PipesOK

-----------------------------------------------------------------------------
(* The host and the turns. *)

LEMMA ArrivingTyped ==
  ASSUME TypeInv, ServeSubmit
  PROVE  Arriving \in Turn /\ Head(input).session \in Session
<1>1. input \in Seq(Request) /\ input # <<>> /\ Head(input).kind = "submit"
  BY DEF TypeInv, PipesOK, ServeSubmit, Take
<1>2. Head(input) \in Submits /\ Head(input).session \in Session
  BY <1>1, Removed DEF TypeInv, PipesOK, Addressed, Submits
<1>3. Arriving = submitted - Count(input, Submits) + 1
  <2>1. {k \in DOMAIN input : input[k].kind = "submit"} = Holding(input, Submits)
    BY <1>1 DEF Holding, Submits
  <2> QED
    BY <2>1 DEF Arriving, Count
<1>4. Count(input, Submits) = Count(Tail(input), Submits) + 1
  BY <1>1, <1>2, CountTail
<1>5. Count(Tail(input), Submits) \in Nat
  BY <1>1, Removed, CountFinite
<1>6. Count(input, Submits) <= submitted /\ submitted \in 0 .. TurnBound
  BY DEF TypeInv, Numbered, HistoryOK
<1> QED
  BY <1>2, <1>3, <1>4, <1>5, <1>6, Values

LEMMA InterruptTypes ==
  ASSUME HostOK, decision \in [Turn -> {"none", "allow", "deny"}],
         NEW S \in SUBSET Session, InterruptSessions(S)
  PROVE  /\ cancelled' \subseteq Turn
         /\ control' \in [Session -> Turn \union {NoTurn}]
         /\ waiter' \in [Session -> Call \union {NoCall}]
         /\ decision' \in [Turn -> {"none", "allow", "deny"}]
BY DEF InterruptSessions, HostOK

LEMMA HostTypes ==
  ASSUME TypeInv, Next
  PROVE  HostOK'
<1>1. UiOK /\ PipesOK /\ HostOK /\ TurnsOK
  BY DEF TypeInv
<1>2. CASE User \/ ReadFrame
  <2>1. quit' \in BOOLEAN
    BY <1>1, <1>2 DEF HostOK, User, PickSession, NewSession, OpenPicker, Submit, Answer, Interrupt,
       Quit, ReadFrame, Leave
  <2> QED
    BY <1>1, <1>2, <2>1, ClientSide DEF HostOK, host, turns
<1>3. CASE MainTask
  <2>1. quit' = quit
    BY <1>3, MainSide
  <2>2. CASE ServeError \/ ServeList \/ ServeResume \/ Reply
    BY <1>1, <2>1, <2>2 DEF ServeError, ServeList, ServeResume, Reply, host, turns, HostOK
  <2>3. CASE ServeCreate
    BY <1>1, <2>1, <2>3 DEF ServeCreate, turns, HostOK
  <2>4. CASE ServeSubmit
    BY <1>1, <2>1, <2>4, ArrivingTyped DEF ServeSubmit, HostOK
  <2>5. CASE ServeApproval
    <3>1. Head(input).session \in Session
      BY <1>1, <2>5, Removed DEF ServeApproval, Take, PipesOK, Addressed
    <3> QED
      BY <1>1, <2>1, <2>5, <3>1 DEF ServeApproval, HostOK
  <2>6. CASE ServeInterrupt
    <3>1. {Head(input).session} \in SUBSET Session
      BY <1>1, <2>6, Removed DEF ServeInterrupt, Take, PipesOK, Addressed
    <3>2. decision \in [Turn -> {"none", "allow", "deny"}]
      BY <1>1 DEF TurnsOK
    <3>3. InterruptSessions({Head(input).session})
      BY <2>6 DEF ServeInterrupt
    <3>4. UNCHANGED <<stored, working, closed>>
      BY <2>6 DEF ServeInterrupt
    <3>5. /\ cancelled' \subseteq Turn
          /\ control' \in [Session -> Turn \union {NoTurn}]
          /\ waiter' \in [Session -> Call \union {NoCall}]
      BY <1>1, <3>1, <3>2, <3>3, InterruptTypes
    <3> QED
      BY <1>1, <2>1, <3>4, <3>5 DEF HostOK
  <2>7. CASE EndOfInput
    <3>1. decision \in [Turn -> {"none", "allow", "deny"}]
      BY <1>1 DEF TurnsOK
    <3>2. /\ cancelled' \subseteq Turn
          /\ control' \in [Session -> Turn \union {NoTurn}]
          /\ waiter' \in [Session -> Call \union {NoCall}]
      BY <1>1, <2>7, <3>1, InterruptTypes DEF EndOfInput
    <3> QED
      BY <1>1, <2>1, <2>7, <3>2 DEF EndOfInput, HostOK
  <2> QED
    BY <1>3, <2>2, <2>3, <2>4, <2>5, <2>6, <2>7 DEF MainTask
<1>4. ASSUME NEW t \in Turn, TurnTask(t) PROVE HostOK'
  <2>1. quit' = quit /\ stored' = stored /\ closed' = closed
    BY <1>4, TurnSide
  <2>2. phase[t] # "none" => home[t] \in Session
    BY <1>1 DEF TurnsOK
  <2>3. CASE TurnStart(t) \/ Ask(t) \/ Decide(t) \/ Tell(t)
    BY <1>1, <2>1, <2>3 DEF TurnStart, Ask, Decide, Tell, host, HostOK
  <2>4. CASE Plan(t)
    <3>1. <<t, asks[t] + 1>> \in Call
      BY <1>1, <2>4, Values DEF Plan, TurnsOK, Call
    <3> QED
      BY <1>1, <2>1, <2>4, <3>1 DEF Plan, HostOK
  <2>5. CASE EndTurn(t) \/ GoIdle(t)
    BY <1>1, <2>1, <2>5 DEF EndTurn, GoIdle, HostOK
  <2>6. CASE ClearControl(t)
    BY <1>1, <2>1, <2>2, <2>6 DEF ClearControl, HostOK
  <2> QED
    BY <1>4, <2>3, <2>4, <2>5, <2>6 DEF TurnTask
<1> QED
  BY <1>2, <1>3, <1>4 DEF Next

LEMMA TurnTypes ==
  ASSUME TypeInv, Next
  PROVE  TurnsOK'
<1>1. PipesOK /\ HostOK /\ TurnsOK
  BY DEF TypeInv
<1>2. CASE User \/ ReadFrame
  BY <1>1, <1>2, ClientSide DEF TurnsOK, host, turns
<1>3. CASE MainTask
  <2>1. CASE ServeError \/ ServeList \/ ServeCreate \/ ServeResume
    BY <1>1, <2>1 DEF ServeError, ServeList, ServeResume, ServeCreate, turns, TurnsOK
  <2>2. CASE ServeSubmit
    <3>1. Arriving \in Turn /\ Head(input).session \in Session
      BY <2>2, ArrivingTyped
    <3>2. CASE Head(input).session \in working
      BY <1>1, <2>2, <3>2 DEF ServeSubmit, TurnsOK
    <3>3. CASE Head(input).session \notin working
      <4> DEFINE a == Arriving
                 s == Head(input).session
      <4>1. /\ phase' = [phase EXCEPT ![a] = "accepted"]
            /\ home' = [home EXCEPT ![a] = s]
            /\ UNCHANGED <<decision, asks>>
        BY <2>2, <3>3 DEF ServeSubmit
      <4> HIDE DEF a, s
      <4>2. a \in Turn /\ s \in Session
        BY <3>1 DEF a, s
      <4> QED
        BY <1>1, <4>1, <4>2 DEF TurnsOK, Phase
    <3> QED
      BY <3>2, <3>3
  <2>3. CASE ServeApproval
    <3>1. UNCHANGED <<phase, home, asks>>
      BY <2>3 DEF ServeApproval
    <3>2. Head(input) \in Request /\ Head(input).session \in Session
      BY <1>1, <2>3, Removed DEF ServeApproval, Take, PipesOK, Addressed
    <3>3. decision' \in [Turn -> {"none", "allow", "deny"}]
      BY <1>1, <2>3, <3>2, Values DEF ServeApproval, HostOK, TurnsOK, Request
    <3> QED
      BY <1>1, <3>1, <3>3 DEF TurnsOK
  <2>4. CASE ServeInterrupt \/ EndOfInput
    <3>1. UNCHANGED <<phase, home, asks>>
      BY <2>4 DEF ServeInterrupt, EndOfInput
    <3>2. decision' \in [Turn -> {"none", "allow", "deny"}]
      BY <1>1, <2>4 DEF ServeInterrupt, EndOfInput, InterruptSessions, TurnsOK
    <3> QED
      BY <1>1, <3>1, <3>2 DEF TurnsOK
  <2>5. CASE Reply
    <3>1. \A t \in Turn : phase'[t] = IF phase[t] = "accepted" THEN "spawned" ELSE phase[t]
      BY <2>5 DEF Reply
    <3>2. phase' \in [Turn -> Phase]
      BY <1>1, <2>5 DEF Reply, TurnsOK, Phase
    <3>3. UNCHANGED <<home, decision, asks>>
      BY <2>5 DEF Reply
    <3> QED
      BY <1>1, <3>1, <3>2, <3>3 DEF TurnsOK
  <2> QED
    BY <1>3, <2>1, <2>2, <2>3, <2>4, <2>5 DEF MainTask
<1>4. ASSUME NEW t \in Turn, TurnTask(t) PROVE TurnsOK'
  <2>1. CASE TurnStart(t)
    BY <1>1, <2>1 DEF TurnStart, TurnsOK, Phase
  <2>2. CASE Plan(t)
    BY <1>1, <2>2, Values DEF Plan, TurnsOK, Phase
  <2>3. CASE Ask(t) \/ Decide(t)
    BY <1>1, <2>3 DEF Ask, Decide, TurnsOK, Phase
  <2>4. CASE EndTurn(t)
    BY <1>1, <2>4, Values DEF EndTurn, TurnsOK, Phase
  <2>5. CASE GoIdle(t) \/ ClearControl(t) \/ Tell(t)
    BY <1>1, <2>5 DEF GoIdle, ClearControl, Tell, TurnsOK, Phase
  <2> QED
    BY <1>4, <2>1, <2>2, <2>3, <2>4, <2>5 DEF TurnTask
<1> QED
  BY <1>2, <1>3, <1>4 DEF Next

LEMMA TypeStep == TypeInv /\ [Next]_vars => TypeInv'
<1> SUFFICES ASSUME TypeInv, [Next]_vars PROVE TypeInv'
  OBVIOUS
<1>1. CASE Next
  BY <1>1, UiTypes, PipeTypes, HostTypes, TurnTypes, HistoryTypes DEF TypeInv
<1>2. CASE UNCHANGED vars
  BY <1>2 DEF vars, pipes, host, turns, history, TypeInv, UiOK, PipesOK, HostOK, TurnsOK,
     HistoryOK, Numbered, Count, Holding
<1> QED
  BY <1>1, <1>2

\* The strengthening of TypeOK that is inductive.
LEMMA SpecTypes == Spec => []TypeInv
BY InitTypes, TypeStep, PTL DEF Spec

(* Every variable has its type, whatever is refused: an event and the      *)
(* answer to a creation or a resumption name a session (PipesOK), so the   *)
(* screen does, and a turn asks about no more than AskBound commands.      *)
THEOREM TypeCorrect == Spec => []TypeOK
<1>1. TypeInv => TypeOK
  BY DEF TypeInv, TypeOK, UiOK, PipesOK, HostOK, TurnsOK
<1> QED
  BY <1>1, SpecTypes, PTL

-----------------------------------------------------------------------------
(* The cycle of the client: one submission at a time, and one request for  *)
(* another screen.  What is under way is counted over both pipes.          *)

\* No key that answers or interrupts is refused.
NoKeyRefused == Failing \cap {"approval", "interrupt"} = {}

Navigation == {"list", "create", "resume"}
Journeys == {r \in Request : r.kind \in Navigation}
Arrivals == {f \in Frame : f.kind \in Navigation}
Refusals == {f \in Frame : f.type = "error" /\ f.kind = "submit"}
Completions == {f \in Frame : f.kind = "complete"}
Ends == Refusals \union Completions
Acceptances == {f \in Frame : f.type = "result" /\ f.kind = "submit"}
TurnFrames == Acceptances \union {f \in Frame : f.kind \in {"start", "request"}}

One(b) == IF b THEN 1 ELSE 0
Sending == Count(input, Submits)
Asking == Count(input, Journeys)
Allowing == Count(input, Consents)
Ending == Count(output, Ends)
Telling == Count(output, Arrivals)

Live(t) == phase[t] \notin {"none", "done"}
Running == \E t \in Turn : Live(t)
Finished == \E k \in DOMAIN output : output[k] \in Completions
Shown == Running \/ Finished

\* A submission is in the input, runs, or its end is on the way: or none is.
OneAtATime ==
    /\ Sending + One(serving \in Ends) + Ending + One(Running) = One(ui.busy)
    /\ \A t \in Turn : Live(t) => t = submitted
    /\ quit => output = <<>> /\ ui = NewModel

Navigating ==
    /\ Asking + One(serving \in Arrivals) + Telling <= One(ui.screen = "Loading")
    /\ ~serving.running
    /\ \A k \in DOMAIN output : ~output[k].running

OnScreen ==
    /\ ui.busy => /\ ui.screen = "Chat"
                  /\ submitted \in Turn
                  /\ latest[ui.active] = submitted
    /\ Shown => home[submitted] = ui.active
    /\ ui.approval # NoCall => Shown /\ TurnOf(ui.approval) = submitted
    /\ \A k \in DOMAIN input : input[k].kind = "submit" => input[k].session = ui.active

\* Nothing of a turn is written after its end.
InOrder ==
    /\ serving \in Acceptances => submitted \in Turn /\ phase[submitted] = "accepted"
    /\ \A k \in DOMAIN output :
         /\ output[k].type = "event" => output[k].session = ui.active
         /\ output[k].kind = "request" => TurnOf(output[k].call) = submitted
         /\ output[k] \in TurnFrames => Shown
    /\ \A i, j \in DOMAIN output :
         output[i] \in Completions /\ i < j => output[j] \notin TurnFrames

Busy == {"accepted", "spawned", "working", "planned", "waiting", "ended"}

\* The turn submitted last is at one of these places, in session s.
Holds(s, places) == submitted \in Turn /\ home[submitted] = s /\ phase[submitted] \in places

\* A busy mark, a sender or a waiter is of the turn that runs.
Held ==
    /\ \A s \in working : Holds(s, Busy)
    /\ \A s \in Session :
         /\ control[s] # NoTurn => control[s] = submitted /\ Holds(s, Busy \union {"idle"})
         /\ waiter[s] # NoCall =>
              LET t == TurnOf(waiter[s]) IN
              /\ home[t] = s
              /\ phase[t] \in {"planned", "waiting"}
              /\ decision[t] = "none"
    /\ \A t \in Turn : decision[t] # "none" => phase[t] \in {"planned", "waiting"}

Behind(k) == \E j \in DOMAIN input : j < k /\ input[j].kind = "submit"

Stopping ==
    /\ \A k \in DOMAIN input :
         input[k].kind = "interrupt" /\ (Running \/ Behind(k)) => submitted \in stopped
    /\ cancelled \subseteq stopped

\* No answer outlives its turn in the input: the reload is behind it.
AnswersInTime ==
    \A k \in DOMAIN input :
      input[k].kind = "approval" =>
        \/ quit \/ Shown
        \/ \E j \in DOMAIN input : k < j /\ input[j].kind = "resume"

Asks == {"planned", "waiting"}
Given(t) == One(decision[t] = "allow")
Left(t) == AskBound - asks[t] + One(phase[t] \in Asks)

\* A key is left for every answer that was not used, or for every command.
MayAsk == {"accepted", "spawned", "working"} \union Asks
Paid(t) ==
    /\ credit[t] >= 0
    /\ phase[t] \in MayAsk => credit[t] >= Given(t) + Allowing \/ credit[t] >= Left(t)
Consent == \A t \in Turn : Paid(t)

CycleInv ==
    /\ OneAtATime /\ Navigating /\ OnScreen /\ InOrder
    /\ Held /\ Stopping /\ AnswersInTime /\ Consent

-----------------------------------------------------------------------------
(* What a write and a read change in the counts. *)

LEMMA CountPositive ==
  ASSUME NEW S, NEW q \in Seq(S), NEW R
  PROVE  /\ Count(q, R) \in Nat
         /\ Count(q, R) = 0 <=> \A k \in DOMAIN q : q[k] \notin R
<1>1. IsFiniteSet(Holding(q, R)) /\ Count(q, R) \in Nat
  BY CountFinite
<1>2. Count(q, R) = 0 <=> Holding(q, R) = {}
  BY <1>1, FS_EmptySet DEF Count
<1> QED
  BY <1>1, <1>2 DEF Holding

LEMMA CountsTyped ==
  ASSUME PipesOK
  PROVE  Sending \in Nat /\ Asking \in Nat /\ Allowing \in Nat /\ Ending \in Nat /\ Telling \in Nat
BY CountFinite DEF PipesOK, Sending, Asking, Allowing, Ending, Telling

LEMMA InputSame ==
  ASSUME input' = input
  PROVE  Sending' = Sending /\ Asking' = Asking /\ Allowing' = Allowing
BY DEF Sending, Asking, Allowing, Count, Holding

LEMMA OutputSame ==
  ASSUME output' = output
  PROVE  Ending' = Ending /\ Telling' = Telling /\ Finished' = Finished
BY DEF Ending, Telling, Finished, Count, Holding

LEMMA Sends ==
  ASSUME PipesOK, NEW kind \in Kind, NEW s \in Session \union {NoSession},
         NEW choice \in {"none", "allow", "deny"},
         kind \notin {"list", "create"} => s \in Session,
         Sent(kind, s, choice)
  PROVE  /\ Sending' = Sending + One(kind = "submit")
         /\ Asking' = Asking + One(kind \in Navigation)
         /\ Allowing' = Allowing + One(kind = "approval" /\ choice = "allow")
         /\ Len(input) \in Nat /\ DOMAIN input = 1 .. Len(input)
         /\ DOMAIN input' = 1 .. Len(input) + 1
         /\ \A k \in DOMAIN input : input'[k] = input[k]
         /\ input'[Len(input) + 1].kind = kind
         /\ input'[Len(input) + 1].session = s
<1> DEFINE r == [kind |-> kind, session |-> s, choice |-> choice]
<1>1. /\ r \in Request /\ r.kind = kind /\ r.session = s
      /\ r \in Submits <=> kind = "submit"
      /\ r \in Journeys <=> kind \in Navigation
      /\ r \in Consents <=> kind = "approval" /\ choice = "allow"
  BY RequestTyped DEF Journeys
<1>2. input' = Append(input, r) /\ input \in Seq(Request)
  BY DEF Sent, PipesOK
<1> HIDE DEF r
<1>3. /\ Count(Append(input, r), Submits) = Sending + One(kind = "submit")
      /\ Count(Append(input, r), Journeys) = Asking + One(kind \in Navigation)
      /\ Count(Append(input, r), Consents) = Allowing + One(kind = "approval" /\ choice = "allow")
  <2>1. Sending \in Nat /\ Asking \in Nat /\ Allowing \in Nat
    BY CountsTyped
  <2>2. \A R : Count(Append(input, r), R)
                 = IF r \in R THEN Count(input, R) + 1 ELSE Count(input, R)
    BY <1>1, <1>2, CountAppend
  <2> QED
    BY <1>1, <2>1, <2>2 DEF Sending, Asking, Allowing, One
<1>4. Sending' = Count(input', Submits) /\ Asking' = Count(input', Journeys)
      /\ Allowing' = Count(input', Consents)
  BY DEF Sending, Asking, Allowing, Count, Holding
<1> QED
  BY <1>1, <1>2, <1>3, <1>4, Appended

LEMMA Takes ==
  ASSUME PipesOK, NEW kind \in Kind, Take(kind)
  PROVE  /\ Sending = Sending' + One(kind = "submit")
         /\ Asking = Asking' + One(kind \in Navigation)
         /\ Allowing = Allowing' + One(Head(input) \in Consents)
         /\ Sending' \in Nat /\ Asking' \in Nat /\ Allowing' \in Nat
         /\ serving = NoFrame /\ Head(input) = input[1]
         /\ Head(input) \in Request /\ Addressed(Head(input)) /\ Head(input).kind = kind
         /\ Len(input) \in Nat \ {0} /\ DOMAIN input = 1 .. Len(input)
         /\ DOMAIN input' = 1 .. Len(input) - 1
         /\ \A k \in DOMAIN input' : input'[k] = input[k + 1]
<1> DEFINE r == Head(input)
<1>1. input \in Seq(Request) /\ input # <<>> /\ input' = Tail(input) /\ serving = NoFrame
      /\ r.kind = kind
  BY DEF Take, PipesOK
<1>2. /\ Tail(input) \in Seq(Request) /\ r = input[1] /\ r \in Request /\ Addressed(r)
      /\ Len(input) \in Nat \ {0} /\ DOMAIN input = 1 .. Len(input)
      /\ DOMAIN Tail(input) = 1 .. Len(input) - 1
      /\ \A k \in DOMAIN Tail(input) : Tail(input)[k] = input[k + 1]
  BY <1>1, Removed DEF PipesOK
<1> HIDE DEF r
<1>3. \A R : Count(input, R) = IF r \in R THEN Count(Tail(input), R) + 1
                               ELSE Count(Tail(input), R)
  BY <1>1, CountTail DEF r
<1>4. \A R : Count(Tail(input), R) \in Nat
  BY <1>2, CountFinite
<1>5. Sending' = Count(input', Submits) /\ Asking' = Count(input', Journeys)
      /\ Allowing' = Count(input', Consents)
  BY DEF Sending, Asking, Allowing, Count, Holding
<1>6. (r \in Submits <=> kind = "submit") /\ (r \in Journeys <=> kind \in Navigation)
  BY <1>1, <1>2 DEF Submits, Journeys
<1>7. /\ Sending = Sending' + One(kind = "submit")
      /\ Asking = Asking' + One(kind \in Navigation)
      /\ Allowing = Allowing' + One(r \in Consents)
      /\ Sending' \in Nat /\ Asking' \in Nat /\ Allowing' \in Nat
  BY <1>1, <1>3, <1>4, <1>5, <1>6 DEF Sending, Asking, Allowing, One
<1> QED
  BY <1>1, <1>2, <1>7 DEF r

LEMMA Writes ==
  ASSUME PipesOK, NEW f \in Frame, ~quit, Written(f)
  PROVE  /\ Ending' = Ending + One(f \in Ends)
         /\ Telling' = Telling + One(f \in Arrivals)
         /\ Len(output) \in Nat /\ DOMAIN output = 1 .. Len(output)
         /\ DOMAIN output' = 1 .. Len(output) + 1
         /\ \A k \in DOMAIN output : output'[k] = output[k]
         /\ output'[Len(output) + 1] = f
         /\ Finished' <=> Finished \/ f \in Completions
<1>1. output \in Seq(Frame) /\ output' = Append(output, f)
  BY DEF PipesOK, Written
<1>2. /\ Count(Append(output, f), Ends) = Ending + One(f \in Ends)
      /\ Count(Append(output, f), Arrivals) = Telling + One(f \in Arrivals)
  <2>1. Ending \in Nat /\ Telling \in Nat
    BY CountsTyped
  <2>2. \A R : Count(Append(output, f), R)
                 = IF f \in R THEN Count(output, R) + 1 ELSE Count(output, R)
    BY <1>1, CountAppend
  <2> QED
    BY <2>1, <2>2 DEF Ending, Telling, One
<1>3. Ending' = Count(output', Ends) /\ Telling' = Count(output', Arrivals)
  BY DEF Ending, Telling, Count, Holding
<1>4. /\ Len(output) \in Nat /\ DOMAIN output = 1 .. Len(output)
      /\ DOMAIN output' = 1 .. Len(output) + 1
      /\ \A k \in DOMAIN output : output'[k] = output[k]
      /\ output'[Len(output) + 1] = f
  BY <1>1, Appended
<1>5. Finished' <=> Finished \/ f \in Completions
  BY <1>4 DEF Finished
<1> QED
  BY <1>1, <1>2, <1>3, <1>4, <1>5

LEMMA Reads ==
  ASSUME PipesOK, output # <<>>, output' = Tail(output)
  PROVE  LET f == Head(output) IN
         /\ Ending = Ending' + One(f \in Ends)
         /\ Telling = Telling' + One(f \in Arrivals)
         /\ Ending' \in Nat /\ Telling' \in Nat
         /\ f \in Frame /\ WellFormed(f) /\ f.type # "none" /\ f = output[1]
         /\ Len(output) \in Nat \ {0} /\ DOMAIN output = 1 .. Len(output)
         /\ DOMAIN output' = 1 .. Len(output) - 1
         /\ \A k \in DOMAIN output' : output'[k] = output[k + 1]
         /\ Finished <=> f \in Completions \/ Finished'
<1> DEFINE f == Head(output)
<1>1. output \in Seq(Frame)
  BY DEF PipesOK
<1>2. /\ Tail(output) \in Seq(Frame) /\ f = output[1] /\ f \in Frame
      /\ WellFormed(f) /\ f.type # "none"
      /\ Len(output) \in Nat \ {0} /\ DOMAIN output = 1 .. Len(output)
      /\ DOMAIN Tail(output) = 1 .. Len(output) - 1
      /\ \A k \in DOMAIN Tail(output) : Tail(output)[k] = output[k + 1]
  BY <1>1, Removed DEF PipesOK
<1> HIDE DEF f
<1>3. \A R : Count(output, R) = IF f \in R THEN Count(Tail(output), R) + 1
                                ELSE Count(Tail(output), R)
  BY <1>1, CountTail DEF f
<1>4. \A R : Count(Tail(output), R) \in Nat
  BY <1>2, CountFinite
<1>5. Ending' = Count(output', Ends) /\ Telling' = Count(output', Arrivals)
  BY DEF Ending, Telling, Count, Holding
<1>6. /\ Ending = Ending' + One(f \in Ends)
      /\ Telling = Telling' + One(f \in Arrivals)
      /\ Ending' \in Nat /\ Telling' \in Nat
  BY <1>3, <1>4, <1>5 DEF Ending, Telling, One
<1>7. Finished <=> f \in Completions \/ Finished'
  <2>1. Finished => f \in Completions \/ Finished'
    <3> SUFFICES ASSUME NEW k \in DOMAIN output, output[k] \in Completions, f \notin Completions
                 PROVE  Finished'
      BY DEF Finished
    <3>1. k # 1 /\ k - 1 \in DOMAIN output' /\ output'[k - 1] = output[k]
      BY <1>2
    <3> QED
      BY <3>1 DEF Finished
  <2>2. f \in Completions \/ Finished' => Finished
    BY <1>2 DEF Finished
  <2> QED
    BY <2>1, <2>2
<1> QED
  BY <1>2, <1>6, <1>7 DEF f

-----------------------------------------------------------------------------
(* What the counts exclude. *)

LEMMA Exclusive ==
  ASSUME TypeInv, CycleInv
  PROVE  /\ Running => /\ ui.busy /\ Sending = 0 /\ serving \notin Ends /\ Ending = 0 /\ ~Finished
                       /\ submitted \in Turn /\ Live(submitted)
         /\ Finished => /\ ui.busy /\ Ending = 1 /\ Sending = 0 /\ serving \notin Ends /\ ~Running
                        /\ submitted \in Turn
         /\ Sending # 0 => /\ ui.busy /\ Sending = 1 /\ ~Shown /\ serving \notin Ends /\ Ending = 0
         /\ ui.busy => /\ ~quit /\ ui.screen = "Chat" /\ ui.active \in Session
                       /\ Asking = 0 /\ Telling = 0 /\ serving \notin Arrivals
         /\ ~ui.busy => ~Shown /\ Sending = 0 /\ Ending = 0 /\ serving \notin Ends
         /\ ui.screen # "Loading" => Asking = 0 /\ Telling = 0 /\ serving \notin Arrivals
         /\ ui.approval # NoCall => ui.busy
<1>1. UiOK /\ PipesOK
  BY DEF TypeInv
<1>2. Sending \in Nat /\ Asking \in Nat /\ Ending \in Nat /\ Telling \in Nat
  BY <1>1, CountsTyped
<1>3. Sending + One(serving \in Ends) + Ending + One(Running) = One(ui.busy)
  BY DEF CycleInv, OneAtATime
<1>4. Finished => Ending # 0
  <2>1. Finished => \E k \in DOMAIN output : output[k] \in Ends
    BY DEF Finished, Ends
  <2> QED
    BY <1>1, <2>1, CountPositive DEF Ending, PipesOK
<1>5. Running => submitted \in Turn /\ Live(submitted)
  BY DEF CycleInv, OneAtATime, Running
<1>6. ui.busy => ui.screen = "Chat" /\ ~quit /\ ui.active \in Session /\ submitted \in Turn
  BY <1>1 DEF CycleInv, OneAtATime, OnScreen, NewModel, UiOK
<1>7. Asking + One(serving \in Arrivals) + Telling <= One(ui.screen = "Loading")
  BY DEF CycleInv, Navigating
<1>8. ui.screen # "Loading" => Asking = 0 /\ Telling = 0 /\ serving \notin Arrivals
  BY <1>2, <1>7 DEF One
<1>9. /\ Running => ui.busy /\ Sending = 0 /\ serving \notin Ends /\ Ending = 0
      /\ Ending # 0 => ui.busy /\ Ending = 1 /\ Sending = 0 /\ serving \notin Ends /\ ~Running
      /\ Sending # 0 => ui.busy /\ Sending = 1 /\ ~Running /\ serving \notin Ends /\ Ending = 0
      /\ ~ui.busy => ~Running /\ Sending = 0 /\ Ending = 0 /\ serving \notin Ends
  BY <1>2, <1>3 DEF One
<1>10. ui.approval # NoCall => Shown
  BY DEF CycleInv, OnScreen
<1> QED
  BY <1>4, <1>5, <1>6, <1>8, <1>9, <1>10 DEF Shown

LEMMA Absent ==
  ASSUME TypeInv
  PROVE  /\ Sending = 0 => \A k \in DOMAIN input : input[k].kind # "submit"
         /\ Asking = 0 => \A k \in DOMAIN input : input[k].kind \notin Navigation
<1>1. input \in Seq(Request) /\ \A k \in DOMAIN input : input[k] \in Request
  BY DEF TypeInv, PipesOK
<1>2. /\ Sending = 0 => \A k \in DOMAIN input : input[k] \notin Submits
      /\ Asking = 0 => \A k \in DOMAIN input : input[k] \notin Journeys
  BY <1>1, CountPositive DEF Sending, Asking
<1> QED
  BY <1>1, <1>2 DEF Submits, Journeys

\* While no turn runs, no session holds anything.
LEMMA NothingHeld ==
  ASSUME TypeInv, CycleInv, ~Running
  PROVE  /\ working = {}
         /\ \A s \in Session : control[s] = NoTurn /\ waiter[s] = NoCall
         /\ \A t \in Turn : decision[t] = "none"
<1>1. \A t \in Turn : phase[t] \in {"none", "done"}
  BY DEF Running, Live
<1>2. Held /\ HostOK
  BY DEF TypeInv, CycleInv
<1>3. \A s \in Session : waiter[s] # NoCall => TurnOf(waiter[s]) \in Turn
  BY <1>2, Values DEF HostOK
<1> QED
  BY <1>1, <1>2, <1>3 DEF Held, Holds, Busy

\* The steps of the turn tasks are of the turn submitted last, with the client there.
LEMMA TurnAlive ==
  ASSUME TypeInv, CycleInv, NEW t \in Turn, TurnTask(t)
  PROVE  Live(t) /\ Running /\ t = submitted /\ ~quit /\ home[t] \in Session /\ home[t] = ui.active
<1>1. Live(t)
  BY DEF TurnTask, TurnStart, Plan, Ask, Decide, EndTurn, GoIdle, ClearControl, Tell, Live
<1>2. Running /\ t = submitted
  BY <1>1 DEF Running, CycleInv, OneAtATime
<1>3. ui.busy /\ ~quit
  BY <1>2, Exclusive
<1>4. home[t] \in Session
  BY <1>1 DEF Live, TypeInv, TurnsOK
<1> QED
  BY <1>1, <1>2, <1>3, <1>4 DEF CycleInv, OnScreen, Shown

LEMMA StillRunning ==
  ASSUME TypeInv, CycleInv, NEW t \in Turn, TurnTask(t)
  PROVE  /\ \A u \in Turn \ {t} : phase'[u] = phase[u]
         /\ Tell(t) => ~Running' /\ Finished'
         /\ ~Tell(t) => Running' /\ Live(t)'
         /\ \A u \in Turn : Live(u)' => u = submitted'
<1>1. phase \in [Turn -> Phase] /\ Live(t) /\ t = submitted /\ ~quit /\ submitted' = submitted
  BY TurnAlive, TurnSide DEF TypeInv, TurnsOK
<1>2. \A u \in Turn : Live(u) => u = t
  BY <1>1 DEF CycleInv, OneAtATime
<1>3. \E p \in Phase : phase' = [phase EXCEPT ![t] = p] /\ (p \in {"none", "done"} <=> Tell(t))
  BY DEF TurnTask, TurnStart, Plan, Ask, Decide, EndTurn, GoIdle, ClearControl, Tell, Phase
<1>4. PICK p \in Phase : phase' = [phase EXCEPT ![t] = p] /\ (p \in {"none", "done"} <=> Tell(t))
  BY <1>3
<1>5. \A u \in Turn : phase'[u] = IF u = t THEN p ELSE phase[u]
  BY <1>1, <1>4
<1>6. ~Tell(t) => Running' /\ Live(t)'
  BY <1>4, <1>5 DEF Running, Live
<1>7. Tell(t) => ~Running'
  BY <1>2, <1>4, <1>5 DEF Running, Live
<1>8. Tell(t) => Finished'
  <2> SUFFICES ASSUME Tell(t) PROVE Finished'
    OBVIOUS
  <2> DEFINE f == Event("complete", home[t])
  <2>1. f \in Frame /\ f.kind = "complete"
    BY TurnAlive, EventFrame
  <2>2. f \in Completions /\ Written(f) /\ PipesOK
    BY <2>1 DEF Completions, Tell, TypeInv
  <2> HIDE DEF f
  <2> QED
    BY <1>1, <2>1, <2>2, Writes
<1>9. \A u \in Turn : Live(u)' => u = submitted'
  BY <1>1, <1>2, <1>5 DEF Live
<1> QED
  BY <1>5, <1>6, <1>7, <1>8, <1>9

\* A frame is read whole: what becomes of the view, and of the input.
LEMMA ReadCases ==
  ASSUME TypeInv, CycleInv, NoKeyRefused, ReadFrame, NEW f, f = Head(output)
  PROVE  /\ output # <<>> /\ output' = Tail(output) /\ ~quit /\ ~quit'
         /\ f \in Frame /\ WellFormed(f) /\ f = output[1] /\ 1 \in DOMAIN output
         /\ \/ /\ f.type = "event" /\ f.kind = "complete" /\ Finished
               /\ ui' = Completed /\ Sent("resume", ui.active, "none")
            \/ /\ f.type = "error" /\ f.kind \in Navigation \union {"submit"}
               /\ ui' = AfterError /\ input' = input
            \/ /\ f.type = "result" /\ f.kind = "list"
               /\ ui' = [ui EXCEPT !.sessions = f.sessions, !.screen = "Sessions"]
               /\ input' = input
            \/ /\ f.type = "result" /\ f.kind = "create" /\ f.session \in Session
               /\ ui' = [ui EXCEPT !.screen = "Loading"] /\ Sent("resume", f.session, "none")
            \/ /\ f.type = "result" /\ f.kind = "resume" /\ ~f.running
               /\ ui' = Resumed(f) /\ input' = input
            \/ /\ f.type = "result" /\ f.kind = "submit" /\ Shown
               /\ ui' = [ui EXCEPT !.busy = TRUE] /\ input' = input
            \/ /\ f.type = "result" /\ f.kind = "approval"
               /\ ui' = [ui EXCEPT !.approval = NoCall] /\ input' = input
            \/ /\ f.type = "result" /\ f.kind = "interrupt"
               /\ ui' = [ui EXCEPT !.interrupting = TRUE] /\ input' = input
            \/ /\ f.type = "event" /\ f.kind = "start" /\ Shown
               /\ ui' = [ui EXCEPT !.busy = TRUE] /\ input' = input
            \/ /\ f.type = "event" /\ f.kind = "request" /\ Shown
               /\ TurnOf(f.call) = submitted
               /\ ui' = [ui EXCEPT !.approval = f.call] /\ input' = input
<1>1. output # <<>> /\ ~quit
  BY DEF ReadFrame
<1>2. PipesOK /\ output \in Seq(Frame)
  BY DEF TypeInv, PipesOK
<1>3. /\ f \in Frame /\ WellFormed(f) /\ f.type # "none" /\ f = output[1]
      /\ 1 \in DOMAIN output
  BY <1>1, <1>2, Removed DEF PipesOK
<1>4. f.kind = "complete" => Finished /\ ui.active \in Session
  BY <1>3, Exclusive DEF Finished, Completions
<1>5. ui.active # NoSession \/ f.kind # "complete"
  BY <1>4, Values
<1>6. /\ ui' = AfterFrame(f) /\ output' = Tail(output) /\ ~quit'
      /\ IF Reloads(f) = NoSession THEN input' = input ELSE Sent("resume", Reloads(f), "none")
  BY <1>1, <1>5 DEF ReadFrame
<1>7. /\ f.type = "event" => f.session = ui.active
      /\ f.kind = "request" => TurnOf(f.call) = submitted
      /\ f \in TurnFrames => Shown
      /\ ~f.running
  BY <1>3 DEF CycleInv, InOrder, Navigating
<1>8. CASE f.type = "error"
  <2>1. f.kind \in Navigation \union {"submit"}
    BY <1>3, <1>8, Values DEF WellFormed, NoKeyRefused, Kind, Navigation
  <2> QED
    BY <1>1, <1>3, <1>6, <1>8, <2>1 DEF AfterFrame, Reloads
<1>9. CASE f.type = "result"
  <2>1. f.kind \in Kind /\ (f.kind \in {"create", "resume"} => f.session \in Session)
    BY <1>3, <1>9 DEF WellFormed
  <2>2. ui' = AfterResult(f)
    BY <1>6, <1>9 DEF AfterFrame
  <2>3. CASE f.kind = "create"
    BY <1>1, <1>3, <1>6, <1>9, <2>1, <2>2, <2>3, Values DEF AfterResult, Reloads
  <2>4. CASE f.kind # "create"
    <3>1. input' = input
      BY <1>6, <1>9, <2>4 DEF Reloads
    <3>2. f.kind = "submit" => Shown
      BY <1>3, <1>7, <1>9 DEF TurnFrames, Acceptances
    <3> QED
      BY <1>1, <1>3, <1>6, <1>7, <1>9, <2>1, <2>2, <2>4, <3>1, <3>2 DEF AfterResult, Kind
  <2> QED
    BY <2>3, <2>4
<1>10. CASE f.type = "event"
  <2>1. f.kind \in {"start", "request", "complete"} /\ Concerns(f)
    BY <1>3, <1>7, <1>10 DEF WellFormed, Concerns
  <2>2. ui' = AfterEvent(f)
    BY <1>6, <1>10 DEF AfterFrame
  <2>3. CASE f.kind = "complete"
    BY <1>1, <1>3, <1>4, <1>5, <1>6, <1>10, <2>1, <2>2, <2>3 DEF AfterEvent, Reloads
  <2>4. CASE f.kind # "complete"
    <3>1. input' = input
      BY <1>6, <1>10, <2>4 DEF Reloads
    <3>2. Shown
      BY <1>3, <1>7, <2>1, <2>4 DEF TurnFrames
    <3> QED
      BY <1>1, <1>3, <1>6, <1>7, <1>10, <2>1, <2>2, <2>4, <3>1, <3>2 DEF AfterEvent
  <2> QED
    BY <2>3, <2>4
<1> QED
  BY <1>3, <1>8, <1>9, <1>10 DEF Frame

-----------------------------------------------------------------------------
(* One at a time. *)

LEMMA PhaseSame ==
  ASSUME UNCHANGED <<phase, submitted>>, OneAtATime
  PROVE  Running' = Running /\ \A t \in Turn : Live(t)' => t = submitted'
BY DEF Running, Live, OneAtATime

\* A key that asks for another screen, answers or interrupts.
LEMMA KeySends ==
  ASSUME TypeInv, User, ~Quit, ~Submit
  PROVE  \E kind \in Kind \ {"submit"}, s \in Session \union {NoSession},
            choice \in {"none", "allow", "deny"} :
           /\ kind \notin {"list", "create"} => s \in Session
           /\ Sent(kind, s, choice)
           /\ ui'.busy = ui.busy
           /\ kind \in Navigation => ui.screen \in {"Sessions", "Chat"} /\ ui'.screen = "Loading"
           /\ kind \notin Navigation => ui'.screen = ui.screen /\ ui.screen = "Chat"
           /\ UNCHANGED <<quit, output, submitted>>
           /\ ~quit
<1> USE DEF Kind
<1>1. UiOK /\ ui \in AppModel
  BY DEF TypeInv, UiOK
<1>2. CASE \E s \in Session : PickSession(s)
  <2>1. PICK s \in Session : PickSession(s)
    BY <1>2
  <2> WITNESS "resume" \in Kind \ {"submit"}, s \in Session \union {NoSession},
              "none" \in {"none", "allow", "deny"}
  <2> QED
    BY <1>1, <2>1 DEF PickSession, MayPress, history, Navigation, AppModel
<1>3. CASE NewSession
  <2> WITNESS "create" \in Kind \ {"submit"}, NoSession \in Session \union {NoSession},
              "none" \in {"none", "allow", "deny"}
  <2> QED
    BY <1>1, <1>3 DEF NewSession, MayPress, history, Navigation, AppModel
<1>4. CASE OpenPicker
  <2> WITNESS "list" \in Kind \ {"submit"}, NoSession \in Session \union {NoSession},
              "none" \in {"none", "allow", "deny"}
  <2> QED
    BY <1>1, <1>4 DEF OpenPicker, MayPress, history, Navigation, AppModel
<1>5. CASE \E choice \in {"allow", "deny"} : Answer(choice)
  <2>1. PICK choice \in {"allow", "deny"} : Answer(choice)
    BY <1>5
  <2>2. ui.active \in Session
    BY <1>1, <2>1 DEF UiOK, Answer
  <2> WITNESS "approval" \in Kind \ {"submit"}, ui.active \in Session \union {NoSession},
              choice \in {"none", "allow", "deny"}
  <2> QED
    BY <1>1, <2>1, <2>2 DEF Answer, MayPress, Navigation, AppModel
<1>6. CASE Interrupt
  <2>1. ui.active \in Session
    BY <1>1, <1>6 DEF UiOK, Interrupt
  <2> WITNESS "interrupt" \in Kind \ {"submit"}, ui.active \in Session \union {NoSession},
              "none" \in {"none", "allow", "deny"}
  <2> QED
    BY <1>1, <1>6, <2>1 DEF Interrupt, MayPress, Navigation, AppModel
<1> QED
  BY <1>2, <1>3, <1>4, <1>5, <1>6 DEF User

\* A request taken, but not a submission: its answer ends nothing.
LEMMA ServeKinds ==
  ASSUME TypeInv, CycleInv, NoKeyRefused, MainTask, ~Reply, ~EndOfInput
  PROVE  \E kind \in Kind :
           /\ Take(kind)
           /\ serving' \in Frame /\ serving'.kind = kind
           /\ serving'.type \in {"result", "error"}
           /\ serving'.type = "error" => kind \in Navigation \union {"submit"}
           /\ kind = "submit" /\ serving'.type = "result" => ServeSubmit
           /\ ~(kind = "submit" /\ serving'.type = "result") => UNCHANGED phase
           /\ ~serving'.running
           /\ UNCHANGED output
<1>1. PipesOK /\ PipesOK'
  BY PipeTypes DEF TypeInv, Next
<1>2. serving' \in Frame
  BY <1>1 DEF PipesOK
<1>3. CASE ServeError
  <2>1. PICK kind \in Failing : Take(kind) /\ serving' = Refusal(kind)
    BY <1>3 DEF ServeError
  <2>2. kind \in Kind /\ kind \in Navigation \union {"submit"}
    BY Values DEF NoKeyRefused, Kind, Navigation
  <2> QED
    BY <1>2, <1>3, <2>1, <2>2, RefusalFrame DEF ServeError, turns
<1>4. CASE ServeList
  <2>1. stored \in SUBSET Session
    BY DEF TypeInv, HostOK
  <2>2. Take("list") /\ serving' = [Result("list", NoSession) EXCEPT !.sessions = stored]
        /\ UNCHANGED <<output, phase>>
    BY <1>4 DEF ServeList, turns
  <2> QED
    BY <1>2, <2>1, <2>2, ListFrame DEF Kind
<1>5. CASE ServeCreate
  <2>1. PICK s \in Session : serving' = Result("create", s)
    BY <1>5 DEF ServeCreate
  <2>2. Take("create") /\ UNCHANGED <<output, phase>>
    BY <1>5 DEF ServeCreate, turns
  <2> QED
    BY <1>2, <2>1, <2>2, ResultFrame DEF Kind
<1>6. CASE ServeResume
  <2> DEFINE s == Head(input).session
  <2>1. Take("resume") /\ serving' = [Result("resume", s) EXCEPT !.running = (s \in working)]
        /\ UNCHANGED <<output, phase>>
    BY <1>6 DEF ServeResume, turns
  <2>2. s \in Session /\ Asking # 0
    <3>1. "resume" \in Kind
      BY DEF Kind
    <3>2. /\ Asking = Asking' + One("resume" \in Navigation) /\ Asking' \in Nat
          /\ Head(input).kind = "resume" /\ Addressed(Head(input))
      <4>1. Take("resume")
        BY <2>1
      <4> HIDE DEF s
      <4> QED
        BY <1>1, <3>1, <4>1, Takes
    <3>3. "resume" \in Navigation
      BY DEF Navigation
    <3>4. Asking = Asking' + 1 /\ Asking' \in Nat /\ Asking \in Nat
      BY <1>1, <3>2, <3>3, CountsTyped DEF One
    <3>5. Head(input).session \in Session
      BY <3>2 DEF Addressed
    <3>6. Asking # 0
      BY <3>4 DEF Asking
    <3> QED
      BY <3>5, <3>6
  <2>3. s \notin working
    BY <2>2, Exclusive, NothingHeld
  <2> HIDE DEF s
  <2>4. (s \in working) \in BOOLEAN /\ (s \in working) = FALSE
    BY <2>3
  <2>5. LET f == [Result("resume", s) EXCEPT !.running = (s \in working)] IN
          f.type = "result" /\ f.kind = "resume" /\ f.running = (s \in working)
    BY <2>2, <2>4, ResumeFrame
  <2> QED
    BY <1>2, <2>1, <2>4, <2>5 DEF Kind
<1>7. CASE ServeSubmit
  <2> DEFINE s == Head(input).session
  <2>1. /\ Take("submit") /\ UNCHANGED output
        /\ serving' = Refusal("submit") \/ serving' = Result("submit", s)
        /\ (serving' = Refusal("submit") /\ UNCHANGED phase) \/ serving' = Result("submit", s)
    BY <1>7 DEF ServeSubmit
  <2>2. s \in Session
    BY <1>7, ArrivingTyped
  <2> HIDE DEF s
  <2>3. Refusal("submit").type = "error" /\ Refusal("submit").kind = "submit"
        /\ ~Refusal("submit").running
    BY RefusalFrame
  <2>4. Result("submit", s).type = "result" /\ Result("submit", s).kind = "submit"
        /\ ~Result("submit", s).running
    BY <2>2, ResultFrame DEF Kind
  <2> QED
    BY <1>2, <1>7, <2>1, <2>3, <2>4 DEF Kind
<1>8. CASE ServeApproval \/ ServeInterrupt
  <2> DEFINE s == Head(input).session
  <2>1. \E kind \in {"approval", "interrupt"} :
          Take(kind) /\ serving' = Result(kind, s) /\ UNCHANGED <<output, phase>>
    BY <1>8 DEF ServeApproval, ServeInterrupt
  <2>2. PICK kind \in {"approval", "interrupt"} :
          Take(kind) /\ serving' = Result(kind, s) /\ UNCHANGED <<output, phase>>
    BY <2>1
  <2>3. s \in Session
    BY <1>1, <2>2, Takes DEF Kind, Addressed
  <2> HIDE DEF s
  <2> QED
    BY <1>2, <2>2, <2>3, ResultFrame DEF Kind
<1> QED
  BY <1>3, <1>4, <1>5, <1>6, <1>7, <1>8 DEF MainTask

\* A submission that is served is accepted: nothing runs, so no session is busy.
LEMMA SubmitServed ==
  ASSUME TypeInv, CycleInv, ServeSubmit
  PROVE  LET s == Head(input).session IN
         /\ s \in Session /\ s = ui.active /\ submitted \in Turn
         /\ ui.busy /\ ~Shown /\ Sending = 1 /\ Ending = 0
         /\ serving' = Result("submit", s)
         /\ working' = working \union {s}
         /\ control' = [control EXCEPT ![s] = submitted]
         /\ phase' = [phase EXCEPT ![submitted] = "accepted"]
         /\ home' = [home EXCEPT ![submitted] = s]
         /\ \A t \in Turn : Live(t)' <=> t = submitted
         /\ Running'
<1> DEFINE s == Head(input).session
<1>1. PipesOK /\ Take("submit") /\ "submit" \in Kind
  BY DEF TypeInv, ServeSubmit, Kind
<1>2. s \in Session /\ Arriving \in Turn
  BY ArrivingTyped
<1>3. /\ Head(input).kind = "submit" /\ Head(input) = input[1] /\ 1 \in DOMAIN input
      /\ Head(input) \in Request
  BY <1>1, Takes
<1>4. Sending # 0
  <2>1. Sending \in Nat /\ (Sending = 0 => \A k \in DOMAIN input : input[k].kind # "submit")
    BY <1>1, CountsTyped, Absent
  <2> QED
    BY <1>3, <2>1
<1>5. ui.busy /\ ~Shown /\ Sending = 1 /\ Ending = 0
  BY <1>4, Exclusive
<1>6. s = ui.active
  BY <1>3 DEF CycleInv, OnScreen
<1>7. s \notin working
  BY <1>5, NothingHeld DEF Shown
<1>8. Arriving = submitted
  <2>1. {k \in DOMAIN input : input[k].kind = "submit"} = Holding(input, Submits)
    BY <1>1 DEF Holding, Submits, PipesOK
  <2>2. Arriving = submitted - Sending + 1
    BY <2>1 DEF Arriving, Sending, Count
  <2>3. submitted \in Nat
    BY Values DEF TypeInv, HistoryOK
  <2> QED
    BY <1>5, <2>2, <2>3
<1>9. /\ serving' = Result("submit", s)
      /\ working' = working \union {s}
      /\ control' = [control EXCEPT ![s] = submitted]
      /\ phase' = [phase EXCEPT ![submitted] = "accepted"]
      /\ home' = [home EXCEPT ![submitted] = s]
  BY <1>7, <1>8 DEF ServeSubmit
<1>10. \A t \in Turn : Live(t)' <=> t = submitted
  <2>1. phase \in [Turn -> Phase] /\ \A t \in Turn : ~Live(t)
    BY <1>5 DEF Shown, Running, TypeInv, TurnsOK
  <2>2. \A t \in Turn : phase'[t] = IF t = submitted THEN "accepted" ELSE phase[t]
    BY <1>2, <1>8, <1>9, <2>1
  <2> QED
    BY <2>1, <2>2 DEF Live
<1>11. Running'
  BY <1>2, <1>8, <1>10 DEF Running
<1> QED
  BY <1>2, <1>5, <1>6, <1>8, <1>9, <1>10, <1>11

\* The sum of the counts after a step.
LEMMA Balance ==
  ASSUME TypeInv, CycleInv, NEW a \in Nat, NEW b \in BOOLEAN, NEW c \in Nat, NEW d \in BOOLEAN,
         Sending' = a, (serving' \in Ends) = b, Ending' = c, Running' = d,
         a + One(b) + c + One(d) = One(ui'.busy),
         \A t \in Turn : Live(t)' => t = submitted',
         quit' => output' = <<>> /\ ui' = NewModel
  PROVE  OneAtATime'
<1>1. One(serving \in Ends)' = One(b) /\ One(Running)' = One(d)
  BY DEF One
<1> QED
  BY <1>1 DEF OneAtATime, Sending, Ending

LEMMA OneStep ==
  ASSUME TypeInv, CycleInv, NoKeyRefused, Next
  PROVE  OneAtATime'
<1> DEFINE a == Sending
           b == serving \in Ends
           c == Ending
           d == Running
<1>1. /\ PipesOK /\ UiOK /\ OneAtATime
      /\ a \in Nat /\ c \in Nat /\ b \in BOOLEAN /\ d \in BOOLEAN
      /\ a + One(b) + c + One(d) = One(ui.busy)
      /\ quit => output = <<>> /\ ui = NewModel
  <2>1. PipesOK /\ UiOK /\ OneAtATime
    BY DEF TypeInv, CycleInv
  <2>2. a \in Nat /\ c \in Nat
    BY <2>1, CountsTyped
  <2>3. b \in BOOLEAN /\ d \in BOOLEAN
    BY DEF Running
  <2> QED
    BY <2>1, <2>2, <2>3 DEF OneAtATime
<1> HIDE DEF a, b, c, d
<1>2. CASE User
  <2>1. UNCHANGED <<serving, phase>>
    BY <1>2, ClientSide DEF turns
  <2>2. CASE ~Quit /\ ~Submit
    <3>1. Sending' = a /\ ui'.busy = ui.busy /\ UNCHANGED <<quit, output, submitted>> /\ ~quit
      <4>1. PICK kind \in Kind \ {"submit"}, s \in Session \union {NoSession},
                 choice \in {"none", "allow", "deny"} :
              /\ kind \notin {"list", "create"} => s \in Session
              /\ Sent(kind, s, choice)
              /\ ui'.busy = ui.busy
              /\ UNCHANGED <<quit, output, submitted>>
              /\ ~quit
        BY <1>2, <2>2, KeySends
      <4>2. Sending' = Sending + One(kind = "submit")
        BY <1>1, <4>1, Sends
      <4>3. One(kind = "submit") = 0
        BY DEF One
      <4> QED
        BY <1>1, <4>1, <4>2, <4>3 DEF a, Sending
    <3>2. Ending' = c /\ (serving' \in Ends) = b
      BY <2>1, <3>1, OutputSame DEF b, c
    <3>3. Running' = d /\ \A t \in Turn : Live(t)' => t = submitted'
      BY <1>1, <2>1, <3>1, PhaseSame DEF d
    <3> QED
      BY <1>1, <3>1, <3>2, <3>3, Balance
  <2>3. CASE Submit
    <3>1. /\ ~ui.busy /\ ~quit /\ ui.active \in Session
          /\ Sent("submit", ui.active, "none")
          /\ ui'.busy /\ UNCHANGED <<quit, output>>
      BY <1>1, <2>3 DEF Submit, BeginSubmit, MayPress, UiOK, AppModel
    <3>2. ~Running /\ a = 0 /\ c = 0 /\ b = FALSE
      BY <3>1, Exclusive DEF Shown, a, b, c
    <3>3. Sending' = 1
      <4>1. "submit" \in Kind /\ One("submit" = "submit") = 1
        BY DEF Kind, One
      <4>2. Sending' = Sending + One("submit" = "submit")
        BY <1>1, <3>1, <4>1, Sends
      <4> QED
        BY <3>2, <4>1, <4>2 DEF a, Sending
    <3>4. Ending' = c /\ (serving' \in Ends) = b
      BY <2>1, <3>1, OutputSame DEF b, c
    <3>5. Running' = FALSE /\ \A t \in Turn : Live(t)' => t = submitted'
      BY <2>1, <3>2 DEF Running, Live
    <3>6. 1 + One(FALSE) + 0 + One(FALSE) = One(ui'.busy)
      BY <3>1 DEF One
    <3> QED
      BY <3>1, <3>2, <3>3, <3>4, <3>5, <3>6, Balance
  <2>4. CASE Quit
    <3>1. /\ ui.screen = "Chat" => ~ui.busy
          /\ ui' = NewModel /\ output' = <<>>
          /\ UNCHANGED <<input, submitted>>
      BY <2>4 DEF Quit, Leave, history
    <3>2. ~Running /\ a = 0 /\ b = FALSE
      BY <3>1, Exclusive DEF Shown, a, b
    <3>3. Sending' = 0 /\ (serving' \in Ends) = FALSE
      BY <2>1, <3>1, <3>2, InputSame DEF a, b
    <3>4. Ending' = 0
      <4>1. Count(<<>>, Ends) = 0
        <5>1. Holding(<<>>, Ends) = {}
          BY DEF Holding
        <5> QED
          BY <5>1, FS_EmptySet DEF Count
      <4> QED
        BY <3>1, <4>1 DEF Ending, Count, Holding
    <3>5. Running' = FALSE /\ \A t \in Turn : Live(t)' => t = submitted'
      BY <1>1, <2>1, <3>1, <3>2, PhaseSame
    <3>6. 0 + One(FALSE) + 0 + One(FALSE) = One(ui'.busy)
      BY <3>1 DEF One, NewModel
    <3> QED
      BY <3>1, <3>3, <3>4, <3>5, <3>6, Balance
  <2> QED
    BY <1>2, <2>2, <2>3, <2>4
<1>3. CASE ReadFrame
  <2> DEFINE f == Head(output)
  <2>1. UNCHANGED <<serving, phase, submitted>>
    BY <1>3, ClientSide DEF turns, ReadFrame, history
  <2>2. (serving' \in Ends) = b /\ Running' = d /\ \A t \in Turn : Live(t)' => t = submitted'
    BY <1>1, <2>1, PhaseSame DEF b, d
  <2>3. /\ output # <<>> /\ output' = Tail(output) /\ ~quit' /\ f \in Frame
        /\ \/ f.type = "event" /\ f.kind = "complete" /\ ui' = Completed
              /\ Sent("resume", ui.active, "none") /\ Finished
           \/ f.type = "error" /\ f.kind \in Navigation \union {"submit"} /\ ui' = AfterError
              /\ input' = input
           \/ f.type = "result" /\ f.kind = "create" /\ f.session \in Session
              /\ ui'.busy = ui.busy /\ Sent("resume", f.session, "none")
           \/ f.type = "result" /\ f.kind = "resume" /\ ~f.running /\ ui' = Resumed(f)
              /\ input' = input
           \/ f.type # "error" /\ f.kind # "complete" /\ ui'.busy = ui.busy /\ input' = input
           \/ f.type # "error" /\ f.kind # "complete" /\ Shown /\ ui'.busy /\ input' = input
    <3> HIDE DEF f
    <3>1. f = Head(output)
      BY DEF f
    <3>2. ui \in AppModel
      BY <1>1 DEF UiOK
    <3> QED
      BY <1>3, <3>1, <3>2, ReadCases DEF AppModel
  <2> HIDE DEF f
  <2>4. Sending' = a
    <3>1. CASE input' = input
      BY <3>1, InputSame DEF a
    <3>2. ASSUME NEW s \in Session, Sent("resume", s, "none") PROVE Sending' = a
      <4>1. "resume" \in Kind /\ One("resume" = "submit") = 0
        BY DEF Kind, One
      <4>2. Sending' = Sending + One("resume" = "submit")
        BY <1>1, <3>2, <4>1, Sends
      <4> QED
        BY <1>1, <4>1, <4>2 DEF a, Sending
    <3>3. Finished => ui.active \in Session
      BY Exclusive
    <3> QED
      BY <2>3, <3>1, <3>2, <3>3
  <2>5. /\ Ending = Ending' + One(f \in Ends) /\ Ending' \in Nat
        /\ Telling = Telling' + One(f \in Arrivals) /\ Telling' \in Nat
    BY <1>1, <2>3, Reads DEF f
  <2>6. PICK e \in Nat : Ending' = e
    BY <2>5
  <2>7. c = e + One(f \in Ends)
    BY <2>5, <2>6 DEF c
  <2>8. f \in Arrivals => ~ui.busy
    <3>1. PICK n \in Nat : Telling' = n
      BY <2>5
    <3>2. Telling = n + One(f \in Arrivals)
      BY <2>5, <3>1
    <3>3. f \in Arrivals => Telling # 0
      BY <3>2 DEF One
    <3> QED
      BY <3>3, Exclusive
  <2>9. a + One(b) + e + One(d) = One(ui'.busy)
    <3>1. CASE f \in Ends
      <4>1. ui'.busy = FALSE
        BY <1>1, <2>3, <3>1 DEF Ends, Refusals, Completions, Completed, AfterError, UiOK, AppModel
      <4> QED
        BY <1>1, <2>7, <3>1, <4>1 DEF One
    <3>2. CASE f \notin Ends
      <4>1. f.kind # "complete" /\ (f.type = "error" => f \in Arrivals)
        BY <2>3, <3>2 DEF Ends, Refusals, Completions, Arrivals
      <4>2. f.kind = "resume" => f \in Arrivals
        BY <2>3 DEF Arrivals, Navigation
      <4>3. ui'.busy = ui.busy
        <5>1. Shown => ui.busy
          BY Exclusive
        <5>2. ui.busy \in BOOLEAN /\ ui'.busy \in BOOLEAN
          BY <1>1, <1>3, UiTypes DEF UiOK, AppModel, Next
        <5> QED
          BY <1>1, <2>3, <2>8, <4>1, <4>2, <5>1, <5>2 DEF AfterError, Resumed, UiOK, AppModel
      <4> QED
        BY <1>1, <2>7, <3>2, <4>3 DEF One
    <3> QED
      BY <3>1, <3>2
  <2> QED
    BY <1>1, <2>2, <2>3, <2>4, <2>6, <2>9, Balance
<1>4. CASE MainTask
  <2>1. UNCHANGED <<ui, quit, submitted>>
    BY <1>4, MainSide DEF history
  <2>2. CASE Reply
    <3>1. /\ Written(serving) /\ serving' = NoFrame /\ input' = input
          /\ serving \in Frame
      BY <1>1, <2>2 DEF Reply, PipesOK
    <3>2. Sending' = a /\ (serving' \in Ends) = FALSE
      BY <3>1, InputSame, NoFrameFacts DEF a, Ends, Refusals, Completions
    <3>3. Running' = d /\ \A t \in Turn : Live(t)' => t = submitted'
      <4>1. phase' = [t \in Turn |-> IF phase[t] = "accepted" THEN "spawned" ELSE phase[t]]
        BY <2>2 DEF Reply
      <4>2. \A t \in Turn : Live(t)' = Live(t)
        BY <4>1 DEF Live
      <4> QED
        BY <1>1, <2>1, <4>2 DEF Running, OneAtATime, d
    <3>4. CASE quit
      <4>1. output' = output /\ ~ui.busy
        BY <1>1, <3>1, <3>4 DEF Written, NewModel
      <4>2. Ending' = c /\ b = FALSE
        BY <4>1, OutputSame, Exclusive DEF b, c
      <4>3. a + One(FALSE) + c + One(d) = One(ui'.busy)
        BY <1>1, <2>1, <4>2
      <4> QED
        BY <1>1, <2>1, <3>2, <3>3, <4>1, <4>2, <4>3, Balance
    <3>5. CASE ~quit
      <4>1. Ending' = Ending + One(serving \in Ends)
        BY <1>1, <3>1, <3>5, Writes
      <4>2. One(serving \in Ends) = One(b) /\ One(b) \in Nat
        BY DEF One, b
      <4>3. Ending' = c + One(b) /\ c + One(b) \in Nat
        BY <1>1, <4>1, <4>2 DEF c
      <4>4. a + One(FALSE) + (c + One(b)) + One(d) = One(ui'.busy)
        BY <1>1, <2>1 DEF One
      <4> QED
        BY <1>1, <2>1, <3>2, <3>3, <3>5, <4>3, <4>4, Balance
    <3> QED
      BY <3>4, <3>5
  <2>3. CASE EndOfInput
    <3>1. UNCHANGED <<input, output, serving, phase>>
      BY <2>3 DEF EndOfInput, pipes
    <3>2. Sending' = a /\ Ending' = c /\ (serving' \in Ends) = b
      BY <3>1, InputSame, OutputSame DEF a, b, c
    <3>3. Running' = d /\ \A t \in Turn : Live(t)' => t = submitted'
      BY <1>1, <2>1, <3>1, PhaseSame DEF d
    <3> QED
      BY <1>1, <2>1, <3>1, <3>2, <3>3, Balance
  <2>4. CASE ~Reply /\ ~EndOfInput
    <3>1. PICK kind \in Kind :
           /\ Take(kind)
           /\ serving' \in Frame /\ serving'.kind = kind
           /\ serving'.type \in {"result", "error"}
           /\ serving'.type = "error" => kind \in Navigation \union {"submit"}
           /\ kind = "submit" /\ serving'.type = "result" => ServeSubmit
           /\ ~(kind = "submit" /\ serving'.type = "result") => UNCHANGED phase
           /\ ~serving'.running
           /\ UNCHANGED output
      BY <1>4, <2>4, ServeKinds
    <3>2. Sending = Sending' + One(kind = "submit") /\ Sending' \in Nat /\ serving = NoFrame
      BY <1>1, <3>1, Takes
    <3>3. PICK n \in Nat : Sending' = n
      BY <3>2
    <3>4. a = n + One(kind = "submit")
      BY <3>2, <3>3 DEF a
    <3>5. b = FALSE /\ Ending' = c
      BY <3>1, <3>2, OutputSame, NoFrameFacts DEF b, c, Ends, Refusals, Completions
    <3>6. (serving' \in Ends) = (kind = "submit" /\ serving'.type = "error")
      BY <3>1 DEF Ends, Refusals, Completions, Kind
    <3>7. CASE ~(kind = "submit" /\ serving'.type = "result")
      <4>1. Running' = d /\ \A t \in Turn : Live(t)' => t = submitted'
        BY <1>1, <2>1, <3>1, <3>7, PhaseSame DEF d
      <4>2. (serving' \in Ends) = (kind = "submit")
        BY <3>1, <3>6, <3>7
      <4>3. n + One(kind = "submit") + c + One(d) = One(ui'.busy)
        BY <1>1, <2>1, <3>4, <3>5 DEF One
      <4> QED
        BY <1>1, <2>1, <3>1, <3>3, <3>5, <4>1, <4>2, <4>3, Balance
    <3>8. CASE kind = "submit" /\ serving'.type = "result"
      <4>1. ServeSubmit
        BY <3>1, <3>8
      <4>2. a = 1 /\ c = 0 /\ ui.busy
        BY <4>1, SubmitServed DEF a, c
      <4>3. n = 0
        BY <3>4, <3>8, <4>2 DEF One
      <4>4. Running' = TRUE /\ \A t \in Turn : Live(t)' => t = submitted'
        BY <2>1, <4>1, SubmitServed
      <4>5. (serving' \in Ends) = FALSE
        BY <3>6, <3>8
      <4>6. 0 + One(FALSE) + 0 + One(TRUE) = One(ui'.busy)
        BY <2>1, <4>2 DEF One
      <4> QED
        BY <1>1, <2>1, <3>1, <3>3, <3>5, <4>2, <4>3, <4>4, <4>5, <4>6, Balance
    <3> QED
      BY <3>7, <3>8
  <2> QED
    BY <2>2, <2>3, <2>4
<1>5. ASSUME NEW t \in Turn, TurnTask(t) PROVE OneAtATime'
  <2>1. UNCHANGED <<ui, quit, input, serving, submitted>>
    BY <1>5, TurnSide
  <2>2. Running /\ ~quit /\ home[t] \in Session
    BY <1>5, TurnAlive
  <2>3. Sending' = a /\ (serving' \in Ends) = b /\ d = TRUE
    BY <2>1, <2>2, InputSame DEF a, b, d
  <2>4. \A u \in Turn : Live(u)' => u = submitted'
    BY <1>5, StillRunning
  <2>5. CASE Tell(t)
    <3> DEFINE f == Event("complete", home[t])
    <3>1. f \in Frame /\ f.kind = "complete" /\ Written(f)
      BY <2>2, <2>5, EventFrame DEF Tell
    <3> HIDE DEF f
    <3>2. Ending' = Ending + One(f \in Ends) /\ One(f \in Ends) = 1
      BY <1>1, <2>2, <3>1, Writes DEF Ends, Completions, One
    <3>3. Ending' = c + 1
      BY <3>2 DEF c
    <3>4. Running' = FALSE
      BY <1>5, <2>5, StillRunning
    <3>5. a + One(b) + (c + 1) + One(FALSE) = One(ui'.busy) /\ c + 1 \in Nat
      BY <1>1, <2>1, <2>3 DEF One
    <3> QED
      BY <1>1, <2>1, <2>2, <2>3, <2>4, <3>3, <3>4, <3>5, Balance
  <2>6. CASE ~Tell(t)
    <3>1. Running' = d
      BY <1>5, <2>3, <2>6, StillRunning
    <3>2. Ending' = c
      <4>1. CASE TurnStart(t) \/ Ask(t)
        <5>1. \E f \in Frame : f \notin Ends /\ Written(f)
          <6>1. CASE TurnStart(t)
            BY <2>2, <6>1, EventFrame DEF TurnStart, Ends, Refusals, Completions
          <6>2. CASE Ask(t)
            <7> DEFINE g == [Event("request", home[t]) EXCEPT !.call = <<t, asks[t]>>]
            <7>1. <<t, asks[t]>> \in Call
              BY <6>2, Values DEF Ask, TypeInv, TurnsOK, Call
            <7>2. g \in Frame /\ g.type = "event" /\ g.kind = "request"
              BY <2>2, <7>1, RequestFrame
            <7>3. Written(g)
              BY <6>2 DEF Ask
            <7> HIDE DEF g
            <7> QED
              BY <7>2, <7>3 DEF Ends, Refusals, Completions
          <6> QED
            BY <4>1, <6>1, <6>2
        <5>2. PICK f \in Frame : f \notin Ends /\ Written(f)
          BY <5>1
        <5>3. Ending' = Ending + One(f \in Ends) /\ One(f \in Ends) = 0
          BY <1>1, <2>2, <5>2, Writes DEF One
        <5> QED
          BY <1>1, <5>3 DEF c, Ending
      <4>2. CASE ~TurnStart(t) /\ ~Ask(t)
        <5>1. output' = output
          BY <1>5, <2>6, <4>2 DEF TurnTask, Plan, Decide, EndTurn, GoIdle, ClearControl, pipes
        <5> QED
          BY <5>1, OutputSame DEF c
      <4> QED
        BY <4>1, <4>2
    <3> QED
      BY <1>1, <2>1, <2>2, <2>3, <2>4, <3>1, <3>2, Balance
  <2> QED
    BY <2>5, <2>6
<1> QED
  BY <1>2, <1>3, <1>4, <1>5 DEF Next

-----------------------------------------------------------------------------
(* The other screen, and the frames of a turn. *)

LEMMA TurnWrites ==
  ASSUME TypeInv, CycleInv, NEW t \in Turn, TurnTask(t)
  PROVE  \/ output' = output /\ ~Tell(t)
         \/ \E f \in Frame :
              /\ Written(f) /\ f.type = "event" /\ f.session = home[t] /\ ~f.running
              /\ f.kind \in {"start", "request", "complete"}
              /\ f.kind = "complete" <=> Tell(t)
              /\ f.kind = "request" => TurnOf(f.call) = t
<1>1. home[t] \in Session
  BY TurnAlive
<1>2. CASE TurnStart(t)
  <2>1. ~Tell(t) /\ Written(Event("start", home[t]))
    BY <1>2 DEF TurnStart, Tell
  <2> QED
    BY <1>1, <2>1, EventFrame
<1>3. CASE Ask(t)
  <2> DEFINE g == [Event("request", home[t]) EXCEPT !.call = <<t, asks[t]>>]
  <2>1. <<t, asks[t]>> \in Call /\ TurnOf(<<t, asks[t]>>) = t
    BY <1>3, Values DEF Ask, TypeInv, TurnsOK, Call, TurnOf
  <2>2. g \in Frame /\ g.type = "event" /\ g.kind = "request" /\ g.session = home[t]
        /\ ~g.running /\ g.call = <<t, asks[t]>>
    BY <1>1, <2>1, RequestFrame
  <2>3. ~Tell(t) /\ Written(g)
    BY <1>3 DEF Ask, Tell
  <2> HIDE DEF g
  <2> QED
    BY <2>1, <2>2, <2>3
<1>4. CASE Tell(t)
  BY <1>1, <1>4, EventFrame DEF Tell
<1>5. CASE Plan(t) \/ Decide(t) \/ EndTurn(t) \/ GoIdle(t) \/ ClearControl(t)
  BY <1>5 DEF Plan, Decide, EndTurn, GoIdle, ClearControl, pipes, Tell
<1> QED
  BY <1>2, <1>3, <1>4, <1>5 DEF TurnTask

LEMMA BalanceScreen ==
  ASSUME NEW a \in Nat, NEW b \in BOOLEAN, NEW c \in Nat,
         Asking' = a, (serving' \in Arrivals) = b, Telling' = c,
         a + One(b) + c <= One(ui'.screen = "Loading"),
         ~serving'.running,
         \A k \in DOMAIN output' : ~output'[k].running
  PROVE  Navigating'
<1>1. One(serving \in Arrivals)' = One(b)
  BY DEF One
<1> QED
  BY <1>1 DEF Navigating, Asking, Telling

LEMMA NavigatingStep ==
  ASSUME TypeInv, CycleInv, NoKeyRefused, Next
  PROVE  Navigating'
<1> DEFINE a == Asking
           b == serving \in Arrivals
           c == Telling
<1>1. /\ PipesOK /\ ui \in AppModel
      /\ a \in Nat /\ c \in Nat /\ b \in BOOLEAN
      /\ a + One(b) + c <= One(ui.screen = "Loading")
      /\ ~serving.running /\ \A k \in DOMAIN output : ~output[k].running
  <2>1. PipesOK /\ ui \in AppModel /\ Navigating
    BY DEF TypeInv, CycleInv, UiOK
  <2>2. a \in Nat /\ c \in Nat
    BY <2>1, CountsTyped
  <2> QED
    BY <2>1, <2>2 DEF Navigating
<1> HIDE DEF a, b, c
<1>2. CASE User
  <2>1. serving' = serving /\ (serving' \in Arrivals) = b
    BY <1>2, ClientSide DEF b
  <2>2. CASE ~Quit /\ ~Submit
    <3>1. PICK kind \in Kind \ {"submit"}, s \in Session \union {NoSession},
               choice \in {"none", "allow", "deny"} :
            /\ kind \notin {"list", "create"} => s \in Session
            /\ Sent(kind, s, choice)
            /\ kind \in Navigation => ui.screen \in {"Sessions", "Chat"} /\ ui'.screen = "Loading"
            /\ kind \notin Navigation => ui'.screen = ui.screen /\ ui.screen = "Chat"
            /\ UNCHANGED <<quit, output, submitted>>
      BY <1>2, <2>2, KeySends
    <3>2. Asking' = Asking + One(kind \in Navigation)
      BY <1>1, <3>1, Sends
    <3>3. Telling' = c
      BY <3>1, OutputSame DEF c
    <3>4. ui.screen # "Loading" => a = 0 /\ b = FALSE /\ c = 0
      BY Exclusive DEF a, b, c
    <3>5. a = 0 /\ b = FALSE /\ c = 0
      BY <3>1, <3>4
    <3>6. One(kind \in Navigation) \in Nat
          /\ One(kind \in Navigation) + One(FALSE) + 0 <= One(ui'.screen = "Loading")
      BY <3>1 DEF One
    <3>7. Asking' = One(kind \in Navigation)
      BY <3>2, <3>5, <3>6 DEF a, Asking
    <3> QED
      BY <1>1, <2>1, <3>1, <3>3, <3>5, <3>6, <3>7, BalanceScreen
  <2>3. CASE Submit
    <3>1. /\ ui.screen = "Chat" /\ ui'.screen = "Chat" /\ ui.active \in Session
          /\ Sent("submit", ui.active, "none") /\ output' = output
      BY <1>1, <2>3 DEF Submit, BeginSubmit, TypeInv, UiOK, AppModel
    <3>2. a = 0 /\ b = FALSE /\ c = 0
      BY <3>1, Exclusive DEF a, b, c
    <3>3. Asking' = 0
      <4>1. "submit" \in Kind /\ One("submit" \in Navigation) = 0
        BY DEF Kind, One, Navigation
      <4>2. Asking' = Asking + One("submit" \in Navigation)
        BY <1>1, <3>1, <4>1, Sends
      <4> QED
        BY <3>2, <4>1, <4>2 DEF a, Asking
    <3>4. Telling' = 0
      BY <3>1, <3>2, OutputSame DEF c
    <3>5. 0 + One(FALSE) + 0 <= One(ui'.screen = "Loading")
      BY DEF One
    <3> QED
      BY <1>1, <2>1, <3>1, <3>2, <3>3, <3>4, <3>5, BalanceScreen
  <2>4. CASE Quit
    <3>1. ui' = NewModel /\ output' = <<>> /\ input' = input
      BY <2>4 DEF Quit, Leave
    <3>2. Asking' = a
      BY <3>1, InputSame DEF a
    <3>3. Telling' = 0
      <4>1. Holding(<<>>, Arrivals) = {}
        BY DEF Holding
      <4> QED
        BY <3>1, <4>1, FS_EmptySet DEF Telling, Count
    <3>4. a + One(b) + 0 <= One(ui'.screen = "Loading")
      BY <1>1, <3>1 DEF One, NewModel
    <3> QED
      BY <1>1, <2>1, <3>1, <3>2, <3>3, <3>4, BalanceScreen
  <2> QED
    BY <1>2, <2>2, <2>3, <2>4
<1>3. CASE ReadFrame
  <2> DEFINE f == Head(output)
  <2>1. serving' = serving /\ (serving' \in Arrivals) = b
    BY <1>3, ClientSide DEF b
  <2>2. /\ output # <<>> /\ output' = Tail(output) /\ f \in Frame
        /\ \/ f.kind = "complete" /\ Finished
              /\ ui'.screen = "Loading" /\ \E s \in Session : Sent("resume", s, "none")
           \/ f.kind = "create"
              /\ ui'.screen = "Loading" /\ \E s \in Session : Sent("resume", s, "none")
           \/ f.kind \in Navigation /\ input' = input
           \/ ui'.screen = ui.screen /\ input' = input
    <3> HIDE DEF f
    <3>1. f = Head(output)
      BY DEF f
    <3>2. Finished => ui.active \in Session
      BY Exclusive
    <3> QED
      BY <1>1, <1>3, <3>1, <3>2, ReadCases DEF AppModel, Completed, AfterError, Navigation
  <2> HIDE DEF f
  <2>3. /\ Telling = Telling' + One(f \in Arrivals) /\ Telling' \in Nat
        /\ \A k \in DOMAIN output' : k + 1 \in DOMAIN output /\ output'[k] = output[k + 1]
    BY <1>1, <2>2, Reads DEF f
  <2>4. PICK n \in Nat : Telling' = n
    BY <2>3
  <2>5. c = n + One(f \in Arrivals)
    BY <2>3, <2>4 DEF c
  <2>6. \A k \in DOMAIN output' : ~output'[k].running
    BY <1>1, <2>3
  <2>7. ASSUME NEW s \in Session, Sent("resume", s, "none") PROVE Asking' = a + 1
    <3>1. "resume" \in Kind /\ One("resume" \in Navigation) = 1
      BY DEF Kind, One, Navigation
    <3>2. Asking' = Asking + One("resume" \in Navigation)
      BY <1>1, <2>7, <3>1, Sends
    <3> QED
      BY <1>1, <3>1, <3>2 DEF a, Asking
  <2>8. CASE f.kind = "complete" /\ Finished
             /\ ui'.screen = "Loading" /\ \E s \in Session : Sent("resume", s, "none")
    <3>1. Asking' = a + 1
      BY <2>7, <2>8
    <3>2. a = 0 /\ b = FALSE /\ c = 0
      BY <2>8, Exclusive DEF a, b, c
    <3>3. n = 0
      BY <2>5, <3>2 DEF One
    <3>4. a + 1 \in Nat /\ (a + 1) + One(b) + n <= One(ui'.screen = "Loading")
      BY <2>8, <3>2, <3>3 DEF One
    <3> QED
      BY <1>1, <2>1, <2>4, <2>6, <3>1, <3>4, BalanceScreen
  <2>9. CASE f.kind = "create"
             /\ ui'.screen = "Loading" /\ \E s \in Session : Sent("resume", s, "none")
    <3>1. Asking' = a + 1
      BY <2>7, <2>9
    <3>2. One(f \in Arrivals) = 1
      BY <2>2, <2>9 DEF One, Arrivals, Navigation
    <3>3. a + 1 \in Nat /\ (a + 1) + One(b) + n <= One(ui'.screen = "Loading")
      BY <1>1, <2>5, <2>9, <3>2 DEF One
    <3> QED
      BY <1>1, <2>1, <2>4, <2>6, <3>1, <3>3, BalanceScreen
  <2>10. CASE f.kind \in Navigation /\ input' = input
    <3>1. Asking' = a
      BY <2>10, InputSame DEF a
    <3>2. One(f \in Arrivals) = 1
      BY <2>2, <2>10 DEF One, Arrivals
    <3>3. a + One(b) + n <= One(ui'.screen = "Loading")
      BY <1>1, <2>5, <3>2 DEF One
    <3> QED
      BY <1>1, <2>1, <2>4, <2>6, <3>1, <3>3, BalanceScreen
  <2>11. CASE ui'.screen = ui.screen /\ input' = input
    <3>1. Asking' = a
      BY <2>11, InputSame DEF a
    <3>2. One(f \in Arrivals) \in {0, 1}
      BY DEF One
    <3>3. a + One(b) + n <= One(ui'.screen = "Loading")
      BY <1>1, <2>5, <2>11, <3>2 DEF One
    <3> QED
      BY <1>1, <2>1, <2>4, <2>6, <3>1, <3>3, BalanceScreen
  <2> QED
    BY <2>2, <2>8, <2>9, <2>10, <2>11
<1>4. CASE MainTask
  <2>1. UNCHANGED <<ui, quit, submitted>>
    BY <1>4, MainSide DEF history
  <2>2. CASE Reply
    <3>1. /\ Written(serving) /\ serving' = NoFrame /\ input' = input
          /\ serving \in Frame
      BY <1>1, <2>2 DEF Reply, PipesOK
    <3>2. Asking' = a /\ (serving' \in Arrivals) = FALSE /\ ~serving'.running
      BY <3>1, InputSame, NoFrameFacts DEF a, Arrivals, Navigation
    <3>3. CASE quit
      <4>1. output' = output
        BY <3>1, <3>3 DEF Written
      <4>2. Telling' = c
        BY <4>1, OutputSame DEF c
      <4>3. a + One(FALSE) + c <= One(ui'.screen = "Loading")
        BY <1>1, <2>1 DEF One
      <4> QED
        BY <1>1, <3>2, <4>1, <4>2, <4>3, BalanceScreen
    <3>4. CASE ~quit
      <4>1. /\ Telling' = Telling + One(serving \in Arrivals)
            /\ \A k \in DOMAIN output' : output'[k] = serving \/ (k \in DOMAIN output /\ output'[k] = output[k])
        BY <1>1, <3>1, <3>4, Writes
      <4>2. One(serving \in Arrivals) = One(b) /\ One(b) \in Nat
        BY DEF One, b
      <4>3. Telling' = c + One(b) /\ c + One(b) \in Nat
        BY <1>1, <4>1, <4>2 DEF c
      <4>4. a + One(FALSE) + (c + One(b)) <= One(ui'.screen = "Loading")
        BY <1>1, <2>1 DEF One
      <4>5. \A k \in DOMAIN output' : ~output'[k].running
        BY <1>1, <4>1
      <4> QED
        BY <1>1, <3>2, <4>3, <4>4, <4>5, BalanceScreen
    <3> QED
      BY <3>3, <3>4
  <2>3. CASE EndOfInput
    <3>1. UNCHANGED <<input, output, serving, phase>>
      BY <2>3 DEF EndOfInput, pipes
    <3>2. Asking' = a /\ Telling' = c /\ (serving' \in Arrivals) = b
      BY <3>1, InputSame, OutputSame DEF a, b, c
    <3> QED
      BY <1>1, <2>1, <3>1, <3>2, BalanceScreen
  <2>4. CASE ~Reply /\ ~EndOfInput
    <3>1. PICK kind \in Kind :
           /\ Take(kind)
           /\ serving' \in Frame /\ serving'.kind = kind
           /\ ~serving'.running
           /\ UNCHANGED output
      BY <1>4, <2>4, ServeKinds
    <3>2. Asking = Asking' + One(kind \in Navigation) /\ Asking' \in Nat /\ serving = NoFrame
      BY <1>1, <3>1, Takes
    <3>3. PICK n \in Nat : Asking' = n
      BY <3>2
    <3>4. a = n + One(kind \in Navigation)
      BY <3>2, <3>3 DEF a
    <3>5. b = FALSE /\ Telling' = c
      BY <3>1, <3>2, OutputSame, NoFrameFacts DEF b, c, Arrivals, Navigation
    <3>6. (serving' \in Arrivals) = (kind \in Navigation)
      BY <3>1 DEF Arrivals
    <3>7. n + One(kind \in Navigation) + c <= One(ui'.screen = "Loading")
      BY <1>1, <2>1, <3>4, <3>5 DEF One
    <3> DEFINE d == kind \in Navigation
    <3>8. /\ d \in BOOLEAN /\ (serving' \in Arrivals) = d
          /\ n + One(d) + c <= One(ui'.screen = "Loading")
      BY <3>6, <3>7
    <3>9. \A k \in DOMAIN output' : ~output'[k].running
      BY <1>1, <3>1
    <3> HIDE DEF d
    <3> QED
      BY <1>1, <3>1, <3>3, <3>5, <3>8, <3>9, BalanceScreen
  <2> QED
    BY <2>2, <2>3, <2>4
<1>5. ASSUME NEW t \in Turn, TurnTask(t) PROVE Navigating'
  <2>1. UNCHANGED <<ui, quit, input, serving, submitted>>
    BY <1>5, TurnSide
  <2>2. Asking' = a /\ (serving' \in Arrivals) = b
    BY <2>1, InputSame DEF a, b
  <2>3. Telling' = c /\ \A k \in DOMAIN output' : ~output'[k].running
    <3>1. CASE output' = output
      BY <1>1, <3>1, OutputSame DEF c
    <3>2. ASSUME NEW f \in Frame, Written(f), f.kind \in {"start", "request", "complete"}, ~f.running
          PROVE  Telling' = c /\ \A k \in DOMAIN output' : ~output'[k].running
      <4>1. /\ Telling' = Telling + One(f \in Arrivals)
            /\ \A k \in DOMAIN output' : output'[k] = f \/ (k \in DOMAIN output /\ output'[k] = output[k])
        BY <1>1, <1>5, <3>2, TurnAlive, Writes
      <4>2. One(f \in Arrivals) = 0
        BY <3>2 DEF One, Arrivals, Navigation
      <4>3. Telling' = c
        BY <1>1, <4>1, <4>2 DEF c, Telling
      <4> QED
        BY <1>1, <3>2, <4>1, <4>3
    <3> QED
      BY <1>5, <3>1, <3>2, TurnWrites
  <2> QED
    BY <1>1, <2>1, <2>2, <2>3, BalanceScreen
<1> QED
  BY <1>2, <1>3, <1>4, <1>5 DEF Next

-----------------------------------------------------------------------------
(* What a session holds is of the turn that runs. *)

LEMMA RunsOn ==
  ASSUME UNCHANGED phase
  PROVE  Running' = Running
BY DEF Running, Live

LEMMA HeldMain ==
  ASSUME TypeInv, CycleInv, NoKeyRefused, MainTask
  PROVE  Held'
<1>1. /\ Held /\ HostOK /\ TurnsOK
      /\ \A s \in Session : waiter[s] # NoCall => TurnOf(waiter[s]) \in Turn
  BY Values DEF TypeInv, CycleInv, HostOK
<1>2. submitted' = submitted
  BY MainSide DEF history
<1>3. CASE ServeError \/ ServeList \/ ServeCreate \/ ServeResume
  <2>1. UNCHANGED <<working, control, waiter, phase, home, decision>>
    BY <1>3 DEF ServeError, ServeList, ServeCreate, ServeResume, host, turns
  <2> QED
    BY <1>1, <1>2, <2>1 DEF Held, Holds
<1>4. CASE ServeSubmit
  <2> DEFINE s == Head(input).session
  <2>1. /\ s \in Session /\ submitted \in Turn /\ ~Running
        /\ working' = working \union {s}
        /\ control' = [control EXCEPT ![s] = submitted]
        /\ home' = [home EXCEPT ![submitted] = s]
        /\ phase' = [phase EXCEPT ![submitted] = "accepted"]
    BY <1>4, SubmitServed DEF Shown
  <2> HIDE DEF s
  <2>2. UNCHANGED <<waiter, decision>>
    BY <1>4 DEF ServeSubmit
  <2>3. /\ \A r \in Session : control[r] = NoTurn /\ waiter'[r] = NoCall
        /\ \A t \in Turn : decision'[t] = "none"
        /\ working' = {s}
    BY <2>1, <2>2, NothingHeld
  <2>4. /\ \A r \in Session : control'[r] # NoTurn => r = s /\ control'[r] = submitted
        /\ home'[submitted] = s /\ phase'[submitted] = "accepted"
    BY <1>1, <2>1, <2>3 DEF HostOK, TurnsOK
  <2> QED
    BY <1>2, <2>1, <2>3, <2>4 DEF Held, Holds, Busy
<1>5. CASE ServeApproval
  <2> DEFINE s == Head(input).session
  <2>1. UNCHANGED <<working, control, phase, home>>
    BY <1>5 DEF ServeApproval
  <2>2. s \in Session /\ Head(input) \in Request
    BY <1>1, <1>5, Removed DEF ServeApproval, Take, TypeInv, PipesOK, Addressed
  <2>3. waiter' = [waiter EXCEPT ![s] = NoCall]
    BY <1>5 DEF ServeApproval
  <2>4. decision' = IF waiter[s] = NoCall THEN decision
                    ELSE [decision EXCEPT ![TurnOf(waiter[s])] = Head(input).choice]
    BY <1>5 DEF ServeApproval
  <2> HIDE DEF s
  <2>5. waiter[s] # NoCall => /\ home[TurnOf(waiter[s])] = s /\ TurnOf(waiter[s]) \in Turn
                              /\ phase[TurnOf(waiter[s])] \in {"planned", "waiting"}
    BY <1>1, <2>2 DEF Held
  <2>6. ASSUME NEW r \in Session, waiter'[r] # NoCall
        PROVE  /\ waiter'[r] = waiter[r]
               /\ decision'[TurnOf(waiter[r])] = decision[TurnOf(waiter[r])]
    <3>1. r # s /\ waiter'[r] = waiter[r]
      BY <1>1, <2>2, <2>3, <2>6 DEF HostOK
    <3>2. home[TurnOf(waiter[r])] = r
      BY <2>6, <3>1, <1>1 DEF Held
    <3> QED
      BY <1>1, <2>4, <2>5, <3>1, <3>2 DEF TurnsOK
  <2>7. ASSUME NEW t \in Turn, decision'[t] # "none" PROVE phase[t] \in {"planned", "waiting"}
    <3>1. CASE decision'[t] = decision[t]
      BY <1>1, <2>7, <3>1 DEF Held
    <3>2. CASE decision'[t] # decision[t]
      <4>1. waiter[s] # NoCall /\ t = TurnOf(waiter[s])
        BY <1>1, <2>4, <3>2 DEF TurnsOK
      <4> QED
        BY <2>5, <4>1
    <3> QED
      BY <3>1, <3>2
  <2> QED
    BY <1>1, <1>2, <2>1, <2>6, <2>7 DEF Held, Holds
<1>6. CASE ServeInterrupt \/ EndOfInput
  <2>1. UNCHANGED <<working, phase, home>>
    BY <1>6 DEF ServeInterrupt, EndOfInput
  <2>2. PICK S \in SUBSET Session : InterruptSessions(S)
    <3>1. ServeInterrupt => Head(input).session \in Session
      BY <1>1, Removed DEF ServeInterrupt, Take, TypeInv, PipesOK, Addressed
    <3> QED
      BY <1>6, <3>1 DEF ServeInterrupt, EndOfInput
  <2>3. /\ \A r \in Session : control'[r] = IF r \in S THEN NoTurn ELSE control[r]
        /\ \A r \in Session : waiter'[r] = IF r \in S THEN NoCall ELSE waiter[r]
        /\ \A t \in Turn : decision'[t] = IF \E s \in S : waiter[s] # NoCall /\ TurnOf(waiter[s]) = t
                                          THEN "deny" ELSE decision[t]
    BY <2>2 DEF InterruptSessions
  <2>4. ASSUME NEW r \in Session, waiter'[r] # NoCall
        PROVE  /\ waiter'[r] = waiter[r]
               /\ decision'[TurnOf(waiter[r])] = decision[TurnOf(waiter[r])]
    <3>1. r \notin S /\ waiter'[r] = waiter[r]
      BY <2>3, <2>4
    <3>2. home[TurnOf(waiter[r])] = r /\ TurnOf(waiter[r]) \in Turn
      BY <1>1, <2>4, <3>1 DEF Held
    <3>3. \A s \in S : waiter[s] # NoCall => home[TurnOf(waiter[s])] = s
      BY <1>1 DEF Held
    <3> QED
      BY <2>3, <3>1, <3>2, <3>3
  <2>5. ASSUME NEW t \in Turn, decision'[t] # "none" PROVE phase[t] \in {"planned", "waiting"}
    <3>1. CASE \E s \in S : waiter[s] # NoCall /\ TurnOf(waiter[s]) = t
      BY <1>1, <3>1 DEF Held
    <3>2. CASE ~ \E s \in S : waiter[s] # NoCall /\ TurnOf(waiter[s]) = t
      BY <1>1, <2>3, <2>5, <3>2 DEF Held
    <3> QED
      BY <3>1, <3>2
  <2>6. \A r \in Session : control'[r] # NoTurn => control'[r] = control[r]
    BY <2>3
  <2> QED
    BY <1>1, <1>2, <2>1, <2>4, <2>5, <2>6 DEF Held, Holds
<1>7. CASE Reply
  <2>1. UNCHANGED <<working, control, waiter, home, decision>>
    BY <1>7 DEF Reply, host
  <2>2. \A t \in Turn : phase'[t] = IF phase[t] = "accepted" THEN "spawned" ELSE phase[t]
    BY <1>7 DEF Reply
  <2> QED
    BY <1>1, <1>2, <2>1, <2>2 DEF Held, Holds, Busy
<1> QED
  BY <1>3, <1>4, <1>5, <1>6, <1>7 DEF MainTask

LEMMA HeldTurn ==
  ASSUME TypeInv, CycleInv, NEW t \in Turn, TurnTask(t)
  PROVE  Held'
<1>1. /\ Held /\ HostOK /\ TurnsOK
      /\ t = submitted /\ submitted' = submitted /\ home[t] \in Session
      /\ \A u \in Turn : phase[u] \notin {"none", "done"} => u = t
  BY TurnAlive, TurnSide DEF TypeInv, CycleInv, OneAtATime, Live
<1>2. ASSUME NEW s \in Session, waiter[s] # NoCall
      PROVE  /\ TurnOf(waiter[s]) = t /\ s = home[t] /\ phase[t] \in {"planned", "waiting"}
             /\ decision[t] = "none"
  <2>1. TurnOf(waiter[s]) \in Turn
    BY <1>1, <1>2, Values DEF HostOK
  <2>2. /\ home[TurnOf(waiter[s])] = s /\ phase[TurnOf(waiter[s])] \in {"planned", "waiting"}
        /\ decision[TurnOf(waiter[s])] = "none"
    BY <1>1, <1>2 DEF Held
  <2>3. TurnOf(waiter[s]) = t
    BY <1>1, <2>1, <2>2
  <2> QED
    BY <2>2, <2>3
<1>3. \A u \in Turn : decision[u] # "none" => u = t /\ phase[t] \in {"planned", "waiting"}
  BY <1>1 DEF Held
<1>4. /\ \A s \in working : s = home[t] /\ phase[t] \in Busy
      /\ \A s \in Session : control[s] # NoTurn =>
           control[s] = t /\ s = home[t] /\ phase[t] \in Busy \union {"idle"}
  BY <1>1 DEF Held, Holds
<1>5. SUFFICES
        /\ home'[t] = home[t] /\ phase'[t] \in Phase
        /\ \A s \in working' : s = home[t] /\ phase'[t] \in Busy
        /\ \A s \in Session : control'[s] # NoTurn =>
             control'[s] = t /\ s = home[t] /\ phase'[t] \in Busy \union {"idle"}
        /\ \A s \in Session : waiter'[s] # NoCall =>
             /\ TurnOf(waiter'[s]) = t /\ s = home[t] /\ phase'[t] \in {"planned", "waiting"}
             /\ decision'[t] = "none"
        /\ \A u \in Turn : decision'[u] # "none" => u = t /\ phase'[t] \in {"planned", "waiting"}
  BY <1>1 DEF Held, Holds
<1> USE DEF Busy, Phase
<1>6. CASE TurnStart(t)
  <2>1. phase'[t] = "working" /\ phase[t] = "spawned"
        /\ UNCHANGED <<working, control, waiter, home, decision>>
    BY <1>1, <1>6 DEF TurnStart, host, TurnsOK
  <2> QED
    BY <1>2, <1>3, <1>4, <2>1
<1>7. CASE Plan(t)
  <2>1. /\ phase'[t] = "planned" /\ phase[t] = "working"
        /\ UNCHANGED <<working, control, home, decision>>
        /\ waiter' = [waiter EXCEPT ![home[t]] = <<t, asks[t] + 1>>]
    BY <1>1, <1>7 DEF Plan, TurnsOK
  <2>2. \A s \in Session : waiter'[s] # NoCall => s = home[t] /\ waiter'[s] = <<t, asks[t] + 1>>
    BY <1>1, <1>2, <2>1 DEF HostOK
  <2>3. TurnOf(<<t, asks[t] + 1>>) = t
    BY DEF TurnOf
  <2>4. \A u \in Turn : decision'[u] = "none"
    BY <1>3, <2>1
  <2> QED
    BY <1>4, <2>1, <2>2, <2>3, <2>4
<1>8. CASE Ask(t)
  <2>1. phase'[t] = "waiting" /\ phase[t] = "planned"
        /\ UNCHANGED <<working, control, waiter, home, decision>>
    BY <1>1, <1>8 DEF Ask, host, TurnsOK
  <2> QED
    BY <1>2, <1>3, <1>4, <2>1
<1>9. CASE Decide(t)
  <2>1. /\ phase'[t] = "working" /\ phase[t] = "waiting" /\ decision[t] # "none"
        /\ UNCHANGED <<working, control, waiter, home>>
        /\ decision' = [decision EXCEPT ![t] = "none"]
    BY <1>1, <1>9 DEF Decide, host, TurnsOK
  <2>2. \A s \in Session : waiter'[s] = NoCall
    BY <1>2, <2>1
  <2>3. \A u \in Turn : decision'[u] = "none"
    BY <1>1, <1>3, <2>1 DEF TurnsOK
  <2> QED
    BY <1>4, <2>1, <2>2, <2>3
<1>10. CASE EndTurn(t)
  <2>1. /\ phase'[t] = "ended" /\ phase[t] \in {"working", "planned", "waiting"}
        /\ UNCHANGED <<working, control, home>>
        /\ decision' = [decision EXCEPT ![t] = "none"]
        /\ waiter' = [waiter EXCEPT ![home[t]] =
                        IF TurnOf(waiter[home[t]]) = t THEN NoCall ELSE waiter[home[t]]]
    BY <1>1, <1>10 DEF EndTurn, TurnsOK
  <2>2. \A s \in Session : waiter'[s] = NoCall
    BY <1>1, <1>2, <2>1 DEF HostOK
  <2>3. \A u \in Turn : decision'[u] = "none"
    BY <1>1, <1>3, <2>1 DEF TurnsOK
  <2> QED
    BY <1>4, <2>1, <2>2, <2>3
<1>11. CASE GoIdle(t)
  <2>1. phase'[t] = "idle" /\ phase[t] = "ended" /\ working' = working \ {home[t]}
        /\ UNCHANGED <<control, waiter, home, decision>>
    BY <1>1, <1>11 DEF GoIdle, TurnsOK
  <2> QED
    BY <1>2, <1>3, <1>4, <2>1
<1>12. CASE ClearControl(t)
  <2>1. phase'[t] = "cleared" /\ phase[t] = "idle" /\ control' = [control EXCEPT ![home[t]] = NoTurn]
        /\ UNCHANGED <<working, waiter, home, decision>>
    BY <1>1, <1>12 DEF ClearControl, TurnsOK
  <2>2. \A s \in Session : control'[s] = NoTurn
    BY <1>1, <1>4, <2>1 DEF HostOK
  <2> QED
    BY <1>2, <1>3, <1>4, <2>1, <2>2
<1>13. CASE Tell(t)
  <2>1. phase'[t] = "done" /\ phase[t] = "cleared"
        /\ UNCHANGED <<working, control, waiter, home, decision>>
    BY <1>1, <1>13 DEF Tell, host, TurnsOK
  <2> QED
    BY <1>2, <1>3, <1>4, <2>1
<1> QED
  BY <1>6, <1>7, <1>8, <1>9, <1>10, <1>11, <1>12, <1>13 DEF TurnTask

LEMMA HeldStep ==
  ASSUME TypeInv, CycleInv, NoKeyRefused, Next
  PROVE  Held'
<1>1. CASE User \/ ReadFrame
  <2>1. UNCHANGED <<working, control, waiter, phase, home, decision>>
    BY <1>1, ClientSide DEF host, turns
  <2>2. CASE submitted' = submitted
    BY <2>1, <2>2 DEF CycleInv, Held, Holds
  <2>3. CASE Submit
    <3>1. ~Running
      BY <2>3, Exclusive DEF Submit, Shown
    <3> QED
      BY <2>1, <3>1, NothingHeld DEF Held
  <2> QED
    BY <1>1, <2>2, <2>3 DEF User, PickSession, NewSession, OpenPicker, Answer, Interrupt, Quit,
       ReadFrame, history
<1> QED
  BY <1>1, HeldMain, HeldTurn DEF Next

-----------------------------------------------------------------------------
(* The turn on screen, and the order of its frames. *)

\* A response is not the end of a turn.
LEMMA ResponseKinds ==
  ASSUME TypeInv
  PROVE  /\ serving \notin Completions
         /\ serving \in TurnFrames => serving \in Acceptances
         /\ serving.type # "event" /\ serving.kind # "request"
<1>1. serving \in Frame /\ WellFormed(serving) /\ serving.type # "event" /\ Failing \subseteq Kind
  BY Values DEF TypeInv, PipesOK
<1>2. serving.type = "none" => serving.kind = "none"
  BY <1>1, NoFrameFacts DEF WellFormed
<1>3. serving.type \in {"result", "error"} => serving.kind \in Kind
  BY <1>1 DEF WellFormed, Kind
<1>4. serving.kind \notin {"start", "request", "complete"}
  BY <1>1, <1>2, <1>3 DEF Kind, Frame
<1> QED
  BY <1>1, <1>4 DEF Completions, TurnFrames

LEMMA ShownSame ==
  ASSUME UNCHANGED <<phase, output>>
  PROVE  Shown' = Shown /\ Finished' = Finished /\ Running' = Running
BY OutputSame, RunsOn DEF Shown

LEMMA MainShows ==
  ASSUME TypeInv, CycleInv, NoKeyRefused, MainTask
  PROVE  /\ Finished' = Finished
         /\ ServeSubmit \/ Running' = Running
         /\ Shown => Shown'
         /\ Shown' => Shown \/ ServeSubmit
<1>1. CASE Reply
  <2>1. Finished' = Finished
    <3>1. serving \in Frame /\ serving \notin Completions /\ Written(serving) /\ PipesOK
      BY <1>1, ResponseKinds DEF Reply, TypeInv, PipesOK
    <3>2. CASE quit
      BY <3>1, <3>2, OutputSame DEF Written
    <3>3. CASE ~quit
      BY <3>1, <3>3, Writes DEF Finished
    <3> QED
      BY <3>2, <3>3
  <2>2. \A t \in Turn : Live(t)' = Live(t)
    BY <1>1 DEF Reply, Live
  <2>3. Running' = Running
    BY <2>2 DEF Running
  <2> QED
    BY <2>1, <2>3 DEF Shown
<1>2. CASE ServeSubmit
  <2>1. output' = output /\ Running' /\ ~Shown
    BY <1>2, SubmitServed DEF ServeSubmit
  <2> QED
    BY <1>2, <2>1, OutputSame DEF Shown
<1>3. CASE ~Reply /\ ~ServeSubmit
  <2>1. UNCHANGED <<phase, output>>
    BY <1>3 DEF MainTask, ServeError, ServeList, ServeCreate, ServeResume, ServeApproval,
       ServeInterrupt, EndOfInput, pipes, turns
  <2> QED
    BY <2>1, ShownSame
<1> QED
  BY <1>1, <1>2, <1>3

\* What the screen shows of a turn changes with the key or the frame.
LEMMA OnScreenUser ==
  ASSUME TypeInv, CycleInv, NoKeyRefused, User
  PROVE  OnScreen' /\ InOrder'
<1>1. /\ UNCHANGED <<serving, phase, home>> /\ PipesOK /\ ui \in AppModel
      /\ OnScreen /\ InOrder
  BY ClientSide DEF turns, TypeInv, UiOK, CycleInv
<1>2. CASE ~Quit /\ ~Submit
  <2>1. PICK kind \in Kind \ {"submit"}, s \in Session \union {NoSession},
             choice \in {"none", "allow", "deny"} :
          /\ kind \notin {"list", "create"} => s \in Session
          /\ Sent(kind, s, choice)
          /\ UNCHANGED <<quit, output, submitted>>
    BY <1>2, KeySends
  <2>2. Shown' = Shown
    BY <1>1, <2>1, ShownSame
  <2>3. /\ ui'.active = ui.active /\ ui'.approval = ui.approval /\ ui'.busy = ui.busy
        /\ latest' = latest
        /\ ui'.busy => ui'.screen = "Chat"
    <3>1. ui.busy => ui.screen = "Chat"
      BY <1>1 DEF OnScreen
    <3>2. CASE \E r \in Session : PickSession(r)
      BY <1>1, <3>1, <3>2 DEF PickSession, history, AppModel
    <3>3. CASE NewSession
      BY <1>1, <3>1, <3>3 DEF NewSession, history, AppModel
    <3>4. CASE OpenPicker
      BY <1>1, <3>4 DEF OpenPicker, history, AppModel
    <3>5. CASE \E c \in {"allow", "deny"} : Answer(c)
      BY <1>1, <3>1, <3>5 DEF Answer, history, AppModel
    <3>6. CASE Interrupt
      BY <1>1, <3>1, <3>6 DEF Interrupt, history, AppModel
    <3> QED
      BY <1>2, <3>2, <3>3, <3>4, <3>5, <3>6 DEF User
  <2>4. \A k \in DOMAIN input' : input'[k].kind = "submit" => input'[k].session = ui'.active
    <3>1. /\ DOMAIN input = 1 .. Len(input) /\ Len(input) \in Nat
          /\ DOMAIN input' = 1 .. Len(input) + 1
          /\ \A k \in DOMAIN input : input'[k] = input[k]
          /\ input'[Len(input) + 1].kind = kind
      BY <1>1, <2>1, Sends
    <3> QED
      BY <1>1, <2>1, <2>3, <3>1 DEF OnScreen
  <2>5. OnScreen'
    BY <1>1, <2>1, <2>2, <2>3, <2>4 DEF OnScreen
  <2>6. InOrder'
    BY <1>1, <2>1, <2>2, <2>3 DEF InOrder
  <2> QED
    BY <2>5, <2>6
<1>3. CASE Submit
  <2>1. /\ ui.screen = "Chat" /\ ui.approval = NoCall /\ ~ui.busy /\ ui.active \in Session
        /\ ui' = [ui EXCEPT !.busy = TRUE, !.interrupting = FALSE, !.error = FALSE]
        /\ Sent("submit", ui.active, "none")
        /\ submitted' = submitted + 1 /\ submitted < TurnBound /\ output' = output
        /\ latest' = [latest EXCEPT ![ui.active] = submitted + 1]
    BY <1>3 DEF Submit, BeginSubmit, TypeInv, UiOK
  <2>2. ~Shown /\ Sending = 0
    BY <2>1, Exclusive
  <2>3. ~Shown' /\ ~Running
    BY <1>1, <2>1, <2>2, ShownSame DEF Shown
  <2>4. /\ ui'.busy /\ ui'.screen = "Chat" /\ ui'.active = ui.active /\ ui'.approval = NoCall
    BY <1>1, <2>1 DEF AppModel
  <2>5. submitted' \in Turn /\ latest'[ui.active] = submitted'
    BY <2>1, Values DEF TypeInv, HistoryOK
  <2>6. \A k \in DOMAIN input' : input'[k].kind = "submit" => input'[k].session = ui'.active
    <3>1. "submit" \in Kind
      BY DEF Kind
    <3>2. /\ DOMAIN input = 1 .. Len(input) /\ Len(input) \in Nat
          /\ DOMAIN input' = 1 .. Len(input) + 1
          /\ \A k \in DOMAIN input : input'[k] = input[k]
          /\ input'[Len(input) + 1].session = ui.active
      BY <1>1, <2>1, <3>1, Sends
    <3>3. \A k \in DOMAIN input : input[k].kind # "submit"
      BY <2>2, Absent
    <3> QED
      BY <2>4, <3>2, <3>3
  <2>7. OnScreen'
    BY <2>3, <2>4, <2>5, <2>6 DEF OnScreen
  <2>8. \A k \in DOMAIN output : output[k] \in Frame /\ output[k] \notin TurnFrames
    BY <1>1, <2>2 DEF PipesOK, InOrder
  <2>9. \A k \in DOMAIN output : output[k].kind # "request"
    BY <2>8 DEF TurnFrames
  <2>10. serving \notin Acceptances
    BY <1>1, <2>3 DEF InOrder, Running, Live
  <2>11. InOrder'
    BY <1>1, <2>1, <2>4, <2>8, <2>9, <2>10 DEF InOrder
  <2> QED
    BY <2>7, <2>11
<1>4. CASE Quit
  <2>1. /\ ui.screen = "Chat" => ~ui.busy
        /\ ui' = NewModel /\ output' = <<>> /\ UNCHANGED <<input, submitted>>
    BY <1>4 DEF Quit, Leave, history
  <2>2. ~ui.busy
    BY <2>1, Exclusive
  <2>3. ~Shown /\ Sending = 0
    BY <2>2, Exclusive
  <2>4. ~Shown'
    <3>1. ~Finished'
      BY <2>1 DEF Finished
    <3> QED
      BY <1>1, <2>3, <3>1, RunsOn DEF Shown
  <2>5. \A k \in DOMAIN input : input[k].kind # "submit"
    BY <2>3, Absent
  <2>6. OnScreen'
    BY <2>1, <2>4, <2>5 DEF OnScreen, NewModel
  <2>7. InOrder'
    BY <1>1, <2>1 DEF InOrder
  <2> QED
    BY <2>6, <2>7
<1> QED
  BY <1>2, <1>3, <1>4

LEMMA OnScreenRead ==
  ASSUME TypeInv, CycleInv, NoKeyRefused, ReadFrame
  PROVE  OnScreen' /\ InOrder'
<1> DEFINE f == Head(output)
<1>1. /\ UNCHANGED <<serving, phase, home, submitted, latest>> /\ PipesOK /\ ui \in AppModel
      /\ OnScreen /\ InOrder
  BY ClientSide DEF turns, TypeInv, UiOK, CycleInv, ReadFrame, history
<1>2. /\ output # <<>> /\ output' = Tail(output) /\ f \in Frame
      /\ \/ /\ f.kind = "complete" /\ Finished
            /\ ~ui'.busy /\ ui'.approval = NoCall /\ ui'.active = ui.active
            /\ \E s \in Session : Sent("resume", s, "none")
         \/ /\ f.kind # "complete" /\ ~ui'.busy
            /\ ui'.approval = ui.approval /\ ui'.active = ui.active /\ input' = input
         \/ /\ f.kind = "list" /\ ui'.busy = ui.busy
            /\ ui'.approval = ui.approval /\ ui'.active = ui.active /\ input' = input
         \/ /\ f.kind = "create" /\ ui'.busy = ui.busy
            /\ ui'.approval = ui.approval /\ ui'.active = ui.active
            /\ \E s \in Session : Sent("resume", s, "none")
         \/ /\ f.kind = "resume" /\ ~ui'.busy /\ ui'.approval = NoCall /\ input' = input
         \/ /\ f.kind # "complete" /\ Shown /\ ui'.busy /\ ui'.screen = ui.screen
            /\ ui'.approval = ui.approval /\ ui'.active = ui.active /\ input' = input
         \/ /\ f.kind # "complete" /\ ui'.busy = ui.busy /\ ui'.screen = ui.screen
            /\ ui'.approval \in {ui.approval, NoCall} /\ ui'.active = ui.active /\ input' = input
         \/ /\ f.kind # "complete" /\ ui'.busy = ui.busy /\ ui'.screen = ui.screen /\ Shown
            /\ TurnOf(ui'.approval) = submitted /\ ui'.active = ui.active /\ input' = input
  <2> HIDE DEF f
  <2>1. f = Head(output)
    BY DEF f
  <2>2. Finished => ui.active \in Session
    BY Exclusive
  <2> QED
    BY <1>1, <2>1, <2>2, ReadCases DEF AppModel, Completed, AfterError, Resumed, Navigation
<1> HIDE DEF f
<1>3. /\ Finished <=> f \in Completions \/ Finished'
      /\ Telling = Telling' + One(f \in Arrivals) /\ Telling' \in Nat
      /\ Ending = Ending' + One(f \in Ends) /\ Ending' \in Nat
      /\ f = output[1] /\ Len(output) \in Nat \ {0} /\ DOMAIN output = 1 .. Len(output)
      /\ DOMAIN output' = 1 .. Len(output) - 1
      /\ \A k \in DOMAIN output' : output'[k] = output[k + 1]
  BY <1>1, <1>2, Reads DEF f
<1>4. f.kind # "complete" => Shown' = Shown
  BY <1>1, <1>2, <1>3, RunsOn DEF Shown, Completions
<1>5. f.kind = "complete" => ~Shown' /\ Sending = 0
  <2> SUFFICES ASSUME f.kind = "complete" PROVE ~Shown' /\ Sending = 0
    OBVIOUS
  <2>1. f \in Completions /\ One(f \in Ends) = 1
    BY <1>2 DEF Completions, Ends, One
  <2>2. Finished /\ Ending = 1 /\ ~Running /\ Sending = 0
    BY <1>3, <2>1, Exclusive
  <2>3. PICK n \in Nat : Ending' = n
    BY <1>3
  <2>4. n = 0
    BY <1>3, <2>1, <2>2, <2>3
  <2>5. ~Finished'
    <3>1. output' \in Seq(Frame)
      BY <1>1, <1>2, Removed DEF PipesOK
    <3>2. Count(output', Ends) = 0
      BY <2>3, <2>4 DEF Ending, Count, Holding
    <3>3. \A k \in DOMAIN output' : output'[k] \notin Ends
      BY <3>1, <3>2, CountPositive
    <3> QED
      BY <3>3 DEF Finished, Ends
  <2> QED
    BY <1>1, <2>2, <2>5, RunsOn DEF Shown
<1>6. f.kind \in Navigation => ~ui.busy /\ ~Shown /\ Sending = 0
  <2>1. PICK n \in Nat : Telling' = n
    BY <1>3
  <2>2. f.kind \in Navigation => One(f \in Arrivals) = 1
    BY <1>2 DEF Arrivals, One
  <2>3. f.kind \in Navigation => Telling # 0
    BY <1>3, <2>1, <2>2
  <2> QED
    BY <2>3, Exclusive
<1>7. \A k \in DOMAIN input' : input'[k].kind = "submit" => k \in DOMAIN input /\ input'[k] = input[k]
  <2>1. CASE input' = input
    BY <2>1
  <2>2. ASSUME NEW s \in Session, Sent("resume", s, "none")
        PROVE  \A k \in DOMAIN input' :
                 input'[k].kind = "submit" => k \in DOMAIN input /\ input'[k] = input[k]
    <3>1. "resume" \in Kind
      BY DEF Kind
    <3>2. /\ DOMAIN input = 1 .. Len(input) /\ Len(input) \in Nat
          /\ DOMAIN input' = 1 .. Len(input) + 1
          /\ \A k \in DOMAIN input : input'[k] = input[k]
          /\ input'[Len(input) + 1].kind = "resume"
      BY <1>1, <2>2, <3>1, Sends
    <3> QED
      BY <3>2
  <2> QED
    BY <1>2, <2>1, <2>2
<1>8. \A k \in DOMAIN input' : input'[k].kind = "submit" => input'[k].session = ui'.active
  <2>1. CASE ui'.active = ui.active
    BY <1>1, <1>7, <2>1 DEF OnScreen
  <2>2. CASE f.kind = "resume"
    <3>1. Sending = 0
      BY <1>6, <2>2 DEF Navigation
    <3> QED
      BY <1>7, <3>1, Absent
  <2> QED
    BY <1>2, <2>1, <2>2
<1>9. ui'.busy => ui.busy /\ ui'.screen = ui.screen /\ ui'.active = ui.active
  <2>1. Shown => ui.busy
    BY Exclusive
  <2> QED
    BY <1>2, <1>6, <2>1 DEF Navigation
<1>10. ui'.approval # NoCall => Shown' /\ TurnOf(ui'.approval) = submitted
  BY <1>1, <1>2, <1>4 DEF OnScreen
<1>11. Shown' => Shown /\ ui'.active = ui.active
  BY <1>2, <1>4, <1>5, <1>6 DEF Navigation
<1>12. OnScreen'
  BY <1>1, <1>8, <1>9, <1>10, <1>11 DEF OnScreen
<1>13. ASSUME NEW k \in DOMAIN output'
       PROVE  /\ output'[k].type = "event" => output'[k].session = ui'.active
              /\ output'[k].kind = "request" => TurnOf(output'[k].call) = submitted
              /\ output'[k] \in TurnFrames => Shown'
  <2> DEFINE g == output[k + 1]
  <2>1. output'[k] = g /\ k + 1 \in DOMAIN output /\ 1 \in DOMAIN output /\ 1 < k + 1
    BY <1>3
  <2>2. /\ g.type = "event" => g.session = ui.active
        /\ g.kind = "request" => TurnOf(g.call) = submitted
        /\ g \in TurnFrames => Shown
        /\ f \in Completions => g \notin TurnFrames
    BY <1>1, <1>3, <2>1 DEF InOrder
  <2>3. g \in Frame /\ WellFormed(g)
    BY <1>1, <2>1 DEF PipesOK
  <2>4. g.type = "event" => g \in TurnFrames \/ g \in Completions
    BY <2>3 DEF WellFormed, TurnFrames, Completions
  <2>5. g \in Completions => Shown
    BY <2>1 DEF Shown, Finished
  <2>6. f.kind = "complete" => f \in Completions
    BY <1>2 DEF Completions
  <2> HIDE DEF g
  <2>7. g.type = "event" => ui'.active = ui.active
    BY <1>2, <1>6, <2>2, <2>4, <2>5 DEF Navigation
  <2> QED
    BY <1>4, <2>1, <2>2, <2>6, <2>7
<1>14. \A i, j \in DOMAIN output' :
         output'[i] \in Completions /\ i < j => output'[j] \notin TurnFrames
  BY <1>1, <1>3 DEF InOrder
<1>15. InOrder'
  BY <1>1, <1>13, <1>14 DEF InOrder
<1> QED
  BY <1>12, <1>15

LEMMA OnScreenMain ==
  ASSUME TypeInv, CycleInv, NoKeyRefused, MainTask
  PROVE  OnScreen' /\ InOrder'
<1>1. /\ UNCHANGED <<ui, quit, submitted, latest>> /\ PipesOK /\ OnScreen /\ InOrder
  BY MainSide DEF history, TypeInv, CycleInv
<1>2. (Shown => Shown') /\ (Shown' => Shown \/ ServeSubmit)
  BY MainShows
<1>3. Shown' => home'[submitted] = ui.active
  <2>1. CASE ServeSubmit
    <3> DEFINE s == Head(input).session
    <3>1. /\ s = ui.active /\ submitted \in Turn
          /\ home' = [home EXCEPT ![submitted] = s]
      BY <2>1, SubmitServed
    <3> QED
      BY <3>1 DEF TypeInv, TurnsOK
  <2>2. CASE ~ServeSubmit
    <3>1. home' = home
      BY <2>2 DEF MainTask, ServeError, ServeList, ServeCreate, ServeResume, ServeApproval,
         ServeInterrupt, Reply, EndOfInput, turns
    <3> QED
      BY <1>1, <1>2, <2>2, <3>1 DEF OnScreen
  <2> QED
    BY <2>1, <2>2
<1>4. \A k \in DOMAIN input' : input'[k].kind = "submit" => input'[k].session = ui.active
  <2>1. CASE input' = input
    BY <1>1, <2>1 DEF OnScreen
  <2>2. CASE ~Reply /\ ~EndOfInput
    <3>1. PICK kind \in Kind : Take(kind)
      BY <2>2, ServeKinds
    <3>2. /\ DOMAIN input = 1 .. Len(input) /\ Len(input) \in Nat \ {0}
          /\ DOMAIN input' = 1 .. Len(input) - 1
          /\ \A k \in DOMAIN input' : input'[k] = input[k + 1]
      BY <1>1, <3>1, Takes
    <3>3. \A k \in DOMAIN input' : k + 1 \in DOMAIN input
      BY <3>2
    <3> QED
      BY <1>1, <3>2, <3>3 DEF OnScreen
  <2> QED
    BY <2>1, <2>2 DEF Reply, EndOfInput, pipes
<1>5. OnScreen'
  BY <1>1, <1>2, <1>3, <1>4 DEF OnScreen
<1>6. CASE Reply
  <2>1. /\ Written(serving) /\ serving' = NoFrame /\ serving \in Frame
        /\ serving.type # "event" /\ serving.kind # "request" /\ serving \notin Completions
        /\ serving \in TurnFrames => serving \in Acceptances
    BY <1>1, <1>6, ResponseKinds DEF Reply, PipesOK
  <2>2. serving' \notin Acceptances
    BY <2>1, NoFrameFacts DEF Acceptances
  <2>3. serving \in Acceptances => Shown /\ ~Finished
    <3>1. serving \in Acceptances => Running
      BY <1>1 DEF InOrder, Running, Live
    <3> QED
      BY <3>1, Exclusive DEF Shown
  <2>4. CASE quit
    <3>1. output' = output
      BY <2>1, <2>4 DEF Written
    <3> QED
      BY <1>1, <1>2, <2>2, <3>1, <1>5 DEF InOrder
  <2>5. CASE ~quit
    <3>1. /\ Len(output) \in Nat /\ DOMAIN output = 1 .. Len(output)
          /\ DOMAIN output' = 1 .. Len(output) + 1
          /\ \A k \in DOMAIN output : output'[k] = output[k]
          /\ output'[Len(output) + 1] = serving
      BY <1>1, <2>1, <2>5, Writes
    <3>2. \A k \in DOMAIN output' :
            /\ output'[k].type = "event" => output'[k].session = ui.active
            /\ output'[k].kind = "request" => TurnOf(output'[k].call) = submitted
            /\ output'[k] \in TurnFrames => Shown'
      BY <1>1, <1>2, <2>1, <2>3, <3>1 DEF InOrder
    <3>3. \A i, j \in DOMAIN output' :
            output'[i] \in Completions /\ i < j => output'[j] \notin TurnFrames
      <4> SUFFICES ASSUME NEW i \in DOMAIN output', NEW j \in DOMAIN output',
                          output'[i] \in Completions, i < j
                   PROVE  output'[j] \notin TurnFrames
        OBVIOUS
      <4>1. i \in DOMAIN output /\ output[i] \in Completions
        BY <2>1, <3>1
      <4>2. CASE j \in DOMAIN output
        BY <1>1, <3>1, <4>1, <4>2 DEF InOrder
      <4>3. CASE j = Len(output) + 1
        BY <2>1, <2>3, <3>1, <4>1, <4>3 DEF Finished
      <4> QED
        BY <3>1, <4>2, <4>3
    <3> QED
      BY <1>1, <2>2, <3>2, <3>3, <1>5 DEF InOrder
  <2> QED
    BY <2>4, <2>5
<1>7. CASE EndOfInput
  <2>1. UNCHANGED <<output, serving, phase>>
    BY <1>7 DEF EndOfInput, pipes
  <2> QED
    BY <1>1, <1>2, <2>1, <1>5 DEF InOrder
<1>8. CASE ~Reply /\ ~EndOfInput
  <2>1. PICK kind \in Kind :
           /\ serving' \in Frame /\ serving'.kind = kind
           /\ kind = "submit" /\ serving'.type = "result" => ServeSubmit
           /\ UNCHANGED output
    BY <1>8, ServeKinds
  <2>2. serving' \in Acceptances => submitted \in Turn /\ phase'[submitted] = "accepted"
    <3>1. serving' \in Acceptances => ServeSubmit
      BY <2>1 DEF Acceptances
    <3>2. ServeSubmit => submitted \in Turn /\ phase' = [phase EXCEPT ![submitted] = "accepted"]
      BY SubmitServed
    <3> QED
      BY <3>1, <3>2 DEF TypeInv, TurnsOK
  <2> QED
    BY <1>1, <1>2, <2>1, <2>2, <1>5 DEF InOrder
<1> QED
  BY <1>5, <1>6, <1>7, <1>8

LEMMA OnScreenTurn ==
  ASSUME TypeInv, CycleInv, NEW t \in Turn, TurnTask(t)
  PROVE  OnScreen' /\ InOrder'
<1>1. /\ UNCHANGED <<ui, quit, input, serving, submitted, latest>> /\ PipesOK
      /\ OnScreen /\ InOrder
  BY TurnSide DEF TypeInv, CycleInv
<1>2. t = submitted /\ Running /\ ~quit /\ home[t] = ui.active
  BY TurnAlive
<1>3. Shown'
  BY StillRunning DEF Shown
<1>4. home' = home
  BY DEF TurnTask, TurnStart, Plan, Ask, Decide, EndTurn, GoIdle, ClearControl, Tell
<1>5. OnScreen'
  BY <1>1, <1>2, <1>3, <1>4 DEF OnScreen, Shown
<1>6. serving \notin Acceptances
  <2>1. phase[t] # "accepted"
    BY DEF TurnTask, TurnStart, Plan, Ask, Decide, EndTurn, GoIdle, ClearControl, Tell
  <2> QED
    BY <1>1, <1>2, <2>1 DEF InOrder
<1>7. CASE output' = output
  BY <1>1, <1>3, <1>6, <1>7, <1>5 DEF InOrder
<1>8. ASSUME NEW f \in Frame, Written(f), f.type = "event", f.session = home[t],
             f.kind = "request" => TurnOf(f.call) = t
      PROVE  InOrder'
  <2>1. /\ Len(output) \in Nat /\ DOMAIN output = 1 .. Len(output)
        /\ DOMAIN output' = 1 .. Len(output) + 1
        /\ \A k \in DOMAIN output : output'[k] = output[k]
        /\ output'[Len(output) + 1] = f
    BY <1>1, <1>2, <1>8, Writes
  <2>2. \A k \in DOMAIN output' :
          /\ output'[k].type = "event" => output'[k].session = ui.active
          /\ output'[k].kind = "request" => TurnOf(output'[k].call) = submitted
    BY <1>1, <1>2, <1>8, <2>1 DEF InOrder
  <2>3. \A k \in DOMAIN output : output[k] \notin Completions
    BY <1>2, Exclusive DEF Finished
  <2>4. \A i, j \in DOMAIN output' :
          output'[i] \in Completions /\ i < j => output'[j] \notin TurnFrames
    BY <2>1, <2>3
  <2> QED
    BY <1>1, <1>3, <1>6, <2>2, <2>4 DEF InOrder
<1> QED
  BY <1>5, <1>7, <1>8, TurnWrites

-----------------------------------------------------------------------------
(* Interrupts and answers, in the order they were pressed. *)

LEMMA StoppingStep ==
  ASSUME TypeInv, CycleInv, NoKeyRefused, Next
  PROVE  Stopping'
<1>1. Stopping /\ PipesOK /\ HostOK /\ Held
  BY DEF TypeInv, CycleInv
<1>2. CASE User
  <2>1. UNCHANGED <<phase, cancelled>> /\ Running' = Running
    BY <1>2, ClientSide, RunsOn DEF turns
  <2>2. CASE Quit
    BY <1>1, <2>1, <2>2 DEF Quit, history, Stopping, Behind
  <2>3. CASE Interrupt
    <3>1. /\ ui.approval # NoCall \/ ui.busy
          /\ ui.active \in Session /\ Sent("interrupt", ui.active, "none")
          /\ stopped' = stopped \union {latest[ui.active]} /\ submitted' = submitted
      BY <2>3 DEF Interrupt, TypeInv, UiOK
    <3>2. submitted \in stopped'
      BY <3>1, Exclusive DEF CycleInv, OnScreen
    <3> QED
      BY <1>1, <2>1, <3>1, <3>2 DEF Stopping
  <2>4. CASE Submit
    <3>1. /\ ~ui.busy /\ ui.active \in Session /\ Sent("submit", ui.active, "none")
          /\ stopped' = stopped
      BY <2>4 DEF Submit, TypeInv, UiOK
    <3>2. ~Running' /\ Sending = 0
      BY <2>1, <3>1, Exclusive DEF Shown
    <3>3. "submit" \in Kind
      BY DEF Kind
    <3>4. /\ DOMAIN input = 1 .. Len(input) /\ Len(input) \in Nat
          /\ DOMAIN input' = 1 .. Len(input) + 1
          /\ \A k \in DOMAIN input : input'[k] = input[k]
          /\ input'[Len(input) + 1].kind = "submit"
      BY <1>1, <3>1, <3>3, Sends
    <3>5. \A k \in DOMAIN input' : input'[k].kind = "interrupt" => ~Behind(k)'
      <4>1. \A k \in DOMAIN input : input[k].kind # "submit"
        BY <3>2, Absent
      <4> QED
        BY <3>4, <4>1 DEF Behind
    <3> QED
      BY <1>1, <2>1, <3>1, <3>2, <3>5 DEF Stopping
  <2>5. CASE ~Quit /\ ~Interrupt /\ ~Submit
    <3>1. PICK kind \in Kind \ {"submit"}, s \in Session \union {NoSession},
               choice \in {"none", "allow", "deny"} :
            /\ kind \notin {"list", "create"} => s \in Session
            /\ Sent(kind, s, choice)
            /\ submitted' = submitted
      BY <1>2, <2>5, KeySends
    <3>2. kind # "interrupt" /\ stopped' = stopped
      <4>1. CASE \E r \in Session : PickSession(r)
        BY <3>1, <4>1 DEF PickSession, Sent, history
      <4>2. CASE NewSession
        BY <3>1, <4>2 DEF NewSession, Sent, history
      <4>3. CASE OpenPicker
        BY <3>1, <4>3 DEF OpenPicker, Sent, history
      <4>4. CASE \E c \in {"allow", "deny"} : Answer(c)
        BY <3>1, <4>4 DEF Answer, Sent, history
      <4> QED
        BY <1>2, <2>5, <4>1, <4>2, <4>3, <4>4 DEF User
    <3>3. /\ DOMAIN input = 1 .. Len(input) /\ Len(input) \in Nat
          /\ DOMAIN input' = 1 .. Len(input) + 1
          /\ \A k \in DOMAIN input : input'[k] = input[k]
          /\ input'[Len(input) + 1].kind = kind
      BY <1>1, <3>1, Sends
    <3>4. \A k \in DOMAIN input' : input'[k].kind = "interrupt" =>
            k \in DOMAIN input /\ input[k].kind = "interrupt" /\ (Behind(k)' => Behind(k))
      BY <3>2, <3>3 DEF Behind
    <3> QED
      BY <1>1, <2>1, <3>1, <3>2, <3>4 DEF Stopping
  <2> QED
    BY <2>2, <2>3, <2>4, <2>5
<1>3. CASE ReadFrame
  <2>1. UNCHANGED <<phase, cancelled, submitted, stopped>> /\ Running' = Running
    BY <1>3, ClientSide, RunsOn DEF turns, ReadFrame, history
  <2>2. CASE input' = input
    BY <1>1, <2>1, <2>2 DEF Stopping, Behind
  <2>3. ASSUME NEW s \in Session, Sent("resume", s, "none") PROVE Stopping'
    <3>1. "resume" \in Kind
      BY DEF Kind
    <3>2. /\ DOMAIN input = 1 .. Len(input) /\ Len(input) \in Nat
          /\ DOMAIN input' = 1 .. Len(input) + 1
          /\ \A k \in DOMAIN input : input'[k] = input[k]
          /\ input'[Len(input) + 1].kind = "resume"
      BY <1>1, <2>3, <3>1, Sends
    <3>3. \A k \in DOMAIN input' : input'[k].kind = "interrupt" =>
            k \in DOMAIN input /\ input[k].kind = "interrupt" /\ (Behind(k)' => Behind(k))
      BY <3>2 DEF Behind
    <3> QED
      BY <1>1, <2>1, <3>3 DEF Stopping
  <2>4. Finished => ui.active \in Session
    BY Exclusive
  <2> QED
    BY <1>3, <2>2, <2>3, <2>4, ReadCases
<1>4. CASE MainTask
  <2>1. UNCHANGED <<submitted, stopped>>
    BY <1>4, MainSide DEF history
  <2>2. \A k \in DOMAIN input' :
          input'[k].kind = "interrupt" /\ (Running' \/ Behind(k)') => submitted \in stopped
    <3>1. CASE Reply \/ EndOfInput
      <4>1. input' = input /\ ~ServeSubmit
        BY <3>1 DEF Reply, EndOfInput, pipes, ServeSubmit, Take
      <4>2. Running' = Running
        BY <1>4, <4>1, MainShows
      <4> QED
        BY <1>1, <4>1, <4>2 DEF Stopping, Behind
    <3>2. CASE ~Reply /\ ~EndOfInput
      <4>1. PICK kind \in Kind : Take(kind)
        BY <1>4, <3>2, ServeKinds
      <4>2. /\ DOMAIN input = 1 .. Len(input) /\ Len(input) \in Nat \ {0}
            /\ DOMAIN input' = 1 .. Len(input) - 1
            /\ \A k \in DOMAIN input' : input'[k] = input[k + 1]
            /\ Head(input) = input[1]
        BY <1>1, <4>1, Takes
      <4>3. ASSUME NEW k \in DOMAIN input'
            PROVE  /\ k + 1 \in DOMAIN input /\ input'[k] = input[k + 1]
                   /\ Behind(k)' => Behind(k + 1)
                   /\ Head(input).kind = "submit" => Behind(k + 1)
        <5>1. k + 1 \in DOMAIN input /\ input'[k] = input[k + 1]
          BY <4>2
        <5>2. ASSUME NEW j \in DOMAIN input', j < k, input'[j].kind = "submit" PROVE Behind(k + 1)
          <6>1. j + 1 \in DOMAIN input /\ j + 1 < k + 1 /\ input[j + 1].kind = "submit"
            BY <4>2, <5>2
          <6> QED
            BY <6>1 DEF Behind
        <5>3. Head(input).kind = "submit" => Behind(k + 1)
          BY <4>2 DEF Behind
        <5> QED
          BY <5>1, <5>2, <5>3 DEF Behind
      <4>4. Running' => Running \/ Head(input).kind = "submit"
        BY <1>4, MainShows DEF ServeSubmit, Take
      <4> QED
        BY <1>1, <4>3, <4>4 DEF Stopping
    <3> QED
      BY <3>1, <3>2
  <2>3. cancelled' \subseteq stopped
    <3>1. CASE ServeInterrupt
      <4> DEFINE s == Head(input).session
      <4>1. /\ Head(input).kind = "interrupt" /\ Head(input) = input[1] /\ 1 \in DOMAIN input
            /\ s \in Session
        BY <1>1, <3>1, Removed DEF ServeInterrupt, Take, PipesOK, Addressed
      <4>2. cancelled' = cancelled \union ({control[r] : r \in {s}} \ {NoTurn})
        BY <3>1 DEF ServeInterrupt, InterruptSessions
      <4> HIDE DEF s
      <4>3. cancelled' \subseteq cancelled \union ({control[s]} \ {NoTurn})
        BY <4>2
      <4>4. control[s] # NoTurn => control[s] = submitted /\ Running
        BY <1>1, <4>1, NothingHeld DEF Held
      <4>5. Running => submitted \in stopped
        BY <1>1, <4>1 DEF Stopping
      <4> QED
        BY <1>1, <4>3, <4>4, <4>5 DEF Stopping
    <3>2. CASE EndOfInput
      <4>1. quit /\ ~Running
        BY <3>2, Exclusive DEF EndOfInput
      <4>2. cancelled' = cancelled \union ({control[r] : r \in Session} \ {NoTurn})
        BY <3>2 DEF EndOfInput, InterruptSessions
      <4>3. cancelled' \subseteq cancelled
        BY <4>1, <4>2, NothingHeld
      <4> QED
        BY <1>1, <4>3 DEF Stopping
    <3>3. CASE ~ServeInterrupt /\ ~EndOfInput
      <4>1. cancelled' = cancelled
        BY <1>4, <3>3 DEF MainTask, ServeError, ServeList, ServeCreate, ServeResume, ServeSubmit,
           ServeApproval, Reply, turns
      <4> QED
        BY <1>1, <4>1 DEF Stopping
    <3> QED
      BY <3>1, <3>2, <3>3
  <2> QED
    BY <2>1, <2>2, <2>3 DEF Stopping
<1>5. ASSUME NEW t \in Turn, TurnTask(t) PROVE Stopping'
  <2>1. UNCHANGED <<input, submitted, stopped>>
    BY <1>5, TurnSide
  <2>2. Running /\ t = submitted /\ home[t] \in Session
    BY <1>5, TurnAlive
  <2>3. cancelled' \subseteq cancelled
    <3>1. CASE ClearControl(t)
      <4>1. control[home[t]] \in {NoTurn, t}
        BY <1>1, <2>2 DEF Held
      <4> QED
        BY <3>1, <4>1 DEF ClearControl
    <3>2. CASE ~ClearControl(t)
      BY <1>5, <3>2 DEF TurnTask, TurnStart, Plan, Ask, Decide, EndTurn, GoIdle, Tell
    <3> QED
      BY <3>1, <3>2
  <2> QED
    BY <1>1, <2>1, <2>2, <2>3 DEF Stopping, Behind
<1> QED
  BY <1>2, <1>3, <1>4, <1>5 DEF Next

LEMMA AnswersStep ==
  ASSUME TypeInv, CycleInv, NoKeyRefused, Next
  PROVE  AnswersInTime'
<1>1. AnswersInTime /\ PipesOK
  BY DEF TypeInv, CycleInv
<1>2. CASE User
  <2>1. UNCHANGED phase
    BY <1>2, ClientSide DEF turns
  <2>2. CASE Quit
    BY <1>1, <2>1, <2>2 DEF Quit, Leave, AnswersInTime
  <2>3. ASSUME NEW kind \in Kind, NEW s \in Session \union {NoSession},
               NEW choice \in {"none", "allow", "deny"},
               kind \notin {"list", "create"} => s \in Session,
               Sent(kind, s, choice), UNCHANGED <<quit, output>>,
               kind = "approval" => Shown
        PROVE  AnswersInTime'
    <3>1. Shown' = Shown
      BY <2>1, <2>3, ShownSame
    <3>2. /\ DOMAIN input = 1 .. Len(input) /\ Len(input) \in Nat
          /\ DOMAIN input' = 1 .. Len(input) + 1
          /\ \A k \in DOMAIN input : input'[k] = input[k]
          /\ input'[Len(input) + 1].kind = kind
      BY <1>1, <2>3, Sends
    <3>3. ASSUME NEW k \in DOMAIN input', input'[k].kind = "approval"
          PROVE  \/ quit' \/ Shown'
                 \/ \E j \in DOMAIN input' : k < j /\ input'[j].kind = "resume"
      <4>1. CASE k \in DOMAIN input
        <5>1. \/ quit \/ Shown
              \/ \E j \in DOMAIN input : k < j /\ input[j].kind = "resume"
          BY <1>1, <3>2, <3>3, <4>1 DEF AnswersInTime
        <5> QED
          BY <2>3, <3>1, <3>2, <5>1
      <4>2. CASE k = Len(input) + 1
        BY <2>3, <3>1, <3>2, <3>3, <4>2
      <4> QED
        BY <3>2, <4>1, <4>2
    <3> QED
      BY <3>3 DEF AnswersInTime
  <2>4. CASE Submit
    <3>1. "submit" \in Kind /\ ui.active \in Session
      BY <2>4 DEF Submit, Kind, TypeInv, UiOK
    <3> QED
      BY <2>3, <2>4, <3>1 DEF Submit
  <2>5. CASE ~Quit /\ ~Submit
    <3>1. PICK kind \in Kind \ {"submit"}, s \in Session \union {NoSession},
               choice \in {"none", "allow", "deny"} :
            /\ kind \notin {"list", "create"} => s \in Session
            /\ Sent(kind, s, choice)
            /\ UNCHANGED <<quit, output>>
      BY <1>2, <2>5, KeySends
    <3>2. kind = "approval" => Shown
      <4>1. CASE \E r \in Session : PickSession(r)
        BY <3>1, <4>1 DEF PickSession, Sent
      <4>2. CASE NewSession
        BY <3>1, <4>2 DEF NewSession, Sent
      <4>3. CASE OpenPicker
        BY <3>1, <4>3 DEF OpenPicker, Sent
      <4>4. CASE \E c \in {"allow", "deny"} : Answer(c)
        BY <4>4 DEF Answer, CycleInv, OnScreen
      <4>5. CASE Interrupt
        BY <3>1, <4>5 DEF Interrupt, Sent
      <4> QED
        BY <1>2, <2>5, <4>1, <4>2, <4>3, <4>4, <4>5 DEF User
    <3> QED
      BY <2>3, <3>1, <3>2
  <2> QED
    BY <2>2, <2>4, <2>5
<1>3. CASE ReadFrame
  <2> DEFINE f == Head(output)
  <2>1. /\ output # <<>> /\ output' = Tail(output) /\ f \in Frame
        /\ \/ input' = input /\ f.kind # "complete"
           \/ \E s \in Session : Sent("resume", s, "none")
    <3> HIDE DEF f
    <3>1. f = Head(output)
      BY DEF f
    <3>2. Finished => ui.active \in Session
      BY Exclusive
    <3> QED
      BY <1>3, <3>1, <3>2, ReadCases DEF Navigation
  <2> HIDE DEF f
  <2>2. CASE input' = input /\ f.kind # "complete"
    <3>1. Finished <=> f \in Completions \/ Finished'
      BY <1>1, <2>1, Reads DEF f
    <3>2. UNCHANGED phase
      BY <1>3, ClientSide DEF turns
    <3>3. Shown' = Shown
      BY <2>2, <3>1, <3>2, RunsOn DEF Shown, Completions
    <3>4. ~quit
      BY <1>3 DEF ReadFrame
    <3> QED
      BY <1>1, <2>2, <3>3, <3>4 DEF AnswersInTime
  <2>3. ASSUME NEW s \in Session, Sent("resume", s, "none") PROVE AnswersInTime'
    <3>1. "resume" \in Kind
      BY DEF Kind
    <3>2. /\ DOMAIN input = 1 .. Len(input) /\ Len(input) \in Nat
          /\ DOMAIN input' = 1 .. Len(input) + 1
          /\ input'[Len(input) + 1].kind = "resume"
      BY <1>1, <2>3, <3>1, Sends
    <3>3. \A k \in DOMAIN input' : input'[k].kind = "approval" =>
            Len(input) + 1 \in DOMAIN input' /\ k < Len(input) + 1
      BY <3>2
    <3> QED
      BY <3>2, <3>3 DEF AnswersInTime
  <2> QED
    BY <2>1, <2>2, <2>3
<1>4. CASE MainTask
  <2>1. quit' = quit /\ (Shown => Shown')
    BY <1>4, MainSide, MainShows
  <2>2. CASE Reply \/ EndOfInput
    <3>1. input' = input
      BY <2>2 DEF Reply, EndOfInput, pipes
    <3> QED
      BY <1>1, <2>1, <3>1 DEF AnswersInTime
  <2>3. CASE ~Reply /\ ~EndOfInput
    <3>1. PICK kind \in Kind : Take(kind)
      BY <1>4, <2>3, ServeKinds
    <3>2. /\ DOMAIN input = 1 .. Len(input) /\ Len(input) \in Nat \ {0}
          /\ DOMAIN input' = 1 .. Len(input) - 1
          /\ \A k \in DOMAIN input' : input'[k] = input[k + 1]
      BY <1>1, <3>1, Takes
    <3>3. ASSUME NEW k \in DOMAIN input', input'[k].kind = "approval", ~(quit \/ Shown)
          PROVE  \E j \in DOMAIN input' : k < j /\ input'[j].kind = "resume"
      <4>1. k + 1 \in DOMAIN input /\ input[k + 1].kind = "approval"
        BY <3>2, <3>3
      <4>2. PICK j \in DOMAIN input : k + 1 < j /\ input[j].kind = "resume"
        BY <1>1, <3>3, <4>1 DEF AnswersInTime
      <4>3. j - 1 \in DOMAIN input' /\ k < j - 1 /\ input'[j - 1] = input[j]
        BY <3>2, <3>3, <4>2
      <4> QED
        BY <4>2, <4>3
    <3> QED
      BY <2>1, <3>3 DEF AnswersInTime
  <2> QED
    BY <2>2, <2>3
<1>5. ASSUME NEW t \in Turn, TurnTask(t) PROVE AnswersInTime'
  <2>1. Shown'
    BY <1>5, StillRunning DEF Shown
  <2> QED
    BY <2>1 DEF AnswersInTime
<1> QED
  BY <1>2, <1>3, <1>4, <1>5 DEF Next

-----------------------------------------------------------------------------
(* Keys that allow, and commands started. *)

LEMMA CreditTyped ==
  ASSUME TypeInv, NEW t \in Turn
  PROVE  /\ credit[t] \in Int /\ asks[t] \in 0 .. AskBound /\ AskBound \in Nat
         /\ phase[t] \in Asks => asks[t] >= 1
         /\ Given(t) \in {0, 1} /\ Allowing \in Nat
         /\ Left(t) = AskBound - asks[t] + One(phase[t] \in Asks)
<1>1. Allowing \in Nat
  BY CountsTyped DEF TypeInv
<1>2. AskBound \in Nat
  BY ClientAssumption
<1> QED
  BY <1>1, <1>2 DEF TypeInv, TurnsOK, HistoryOK, Asks, Given, Left, One

LEMMA PaidBy ==
  ASSUME NEW t \in Turn, NEW g \in Int, NEW a \in Int, NEW l \in Int, NEW c \in Int,
         Given(t)' = g, Allowing' = a, Left(t)' = l, credit'[t] = c, c >= 0,
         phase'[t] \in MayAsk => c >= g + a \/ c >= l
  PROVE  Paid(t)'
BY DEF Paid

\* Nothing is spent and nothing comes to be asked.
LEMMA PaidKept ==
  ASSUME TypeInv, NEW t \in Turn, Paid(t), NEW b \in Nat, Allowing' = b, b <= Allowing,
         credit'[t] = credit[t], asks'[t] = asks[t],
         decision'[t] = "allow" => decision[t] = "allow",
         phase'[t] \in Asks <=> phase[t] \in Asks,
         phase'[t] \in MayAsk => phase[t] \in MayAsk
  PROVE  Paid(t)'
<1>1. /\ credit[t] \in Int /\ asks[t] \in 0 .. AskBound /\ AskBound \in Nat
      /\ Given(t) \in {0, 1} /\ Allowing \in Nat
  BY CreditTyped
<1>2. Given(t)' <= Given(t) /\ Given(t)' \in {0, 1} /\ Left(t)' = Left(t)
  BY DEF Given, Left, One
<1>3. Left(t) \in Int
  BY <1>1 DEF Left, One
<1>4. PICK g \in {0, 1} : Given(t)' = g
  BY <1>2
<1> QED
  BY <1>1, <1>2, <1>3, <1>4 DEF Paid

LEMMA ConsentUser ==
  ASSUME TypeInv, CycleInv, NoKeyRefused, User
  PROVE  Consent'
<1>1. UNCHANGED <<phase, decision, asks>> /\ Consent /\ PipesOK /\ Allowing \in Nat
  BY ClientSide, CountsTyped DEF turns, TypeInv, CycleInv
<1>2. ASSUME NEW kind \in Kind, NEW s \in Session \union {NoSession},
             NEW choice \in {"none", "allow", "deny"},
             kind \notin {"list", "create"} => s \in Session,
             Sent(kind, s, choice), kind = "approval" => choice # "allow",
             credit' = credit
      PROVE  Consent'
  <2>1. Allowing' = Allowing
    BY <1>1, <1>2, Sends DEF One
  <2> QED
    BY <1>1, <1>2, <2>1, PaidKept DEF Consent
<1>3. CASE Quit
  <2>1. Allowing' = Allowing /\ credit' = credit
    BY <1>3, InputSame DEF Quit, history
  <2> QED
    BY <1>1, <2>1, PaidKept DEF Consent
<1>4. CASE Submit
  <2>1. "submit" \in Kind /\ ui.active \in Session /\ credit' = credit
    BY <1>4 DEF Submit, Kind, TypeInv, UiOK
  <2> QED
    BY <1>2, <1>4, <2>1 DEF Submit
<1>5. CASE \E c \in {"allow", "deny"} : Answer(c)
  <2>1. PICK c \in {"allow", "deny"} : Answer(c)
    BY <1>5
  <2>2. /\ Sent("approval", ui.active, c) /\ ui.active \in Session /\ "approval" \in Kind
        /\ ui.approval # NoCall
    BY <2>1 DEF Answer, Kind, TypeInv, UiOK
  <2>3. CASE c = "deny"
    <3>1. credit' = credit
      BY <2>1, <2>3 DEF Answer
    <3> QED
      BY <1>2, <2>2, <2>3, <3>1
  <2>4. CASE c = "allow"
    <3>1. PICK u \in Turn : u = TurnOf(ui.approval) /\ u = submitted
      <4>1. Shown /\ TurnOf(ui.approval) = submitted
        BY <2>2 DEF CycleInv, OnScreen
      <4> QED
        BY <4>1, Exclusive DEF Shown
    <3>2. credit' = IF credit[u] < AskBound THEN [credit EXCEPT ![u] = @ + 1] ELSE credit
      BY <2>1, <2>4, <3>1 DEF Answer
    <3>3. Allowing' = Allowing + 1
      BY <1>1, <2>2, <2>4, Sends DEF One
    <3>4. credit \in [Turn -> Int]
      BY DEF TypeInv, HistoryOK
    <3>5. ASSUME NEW t \in Turn, t # u PROVE Paid(t)'
      <4>1. ~Live(t)
        BY <3>1, <3>5 DEF CycleInv, OneAtATime
      <4>2. phase'[t] \notin MayAsk
        BY <1>1, <4>1 DEF Live, MayAsk, Asks
      <4>3. credit'[t] = credit[t]
        BY <3>1, <3>2, <3>4, <3>5
      <4> QED
        BY <1>1, <4>2, <4>3 DEF Consent, Paid
    <3>6. Paid(u)'
      <4>1. /\ credit[u] \in Int /\ asks[u] \in 0 .. AskBound /\ AskBound \in Nat
            /\ phase[u] \in Asks => asks[u] >= 1
            /\ Given(u) \in {0, 1} /\ Allowing \in Nat
            /\ Left(u) = AskBound - asks[u] + One(phase[u] \in Asks)
        BY <3>1, CreditTyped
      <4>2. Given(u)' = Given(u) /\ Left(u)' = Left(u)
        BY <1>1 DEF Given, Left, One
      <4>3. Left(u) \in Int /\ Left(u) <= AskBound
        BY <4>1 DEF One
      <4>4. /\ credit[u] >= 0
            /\ phase[u] \in MayAsk => credit[u] >= Given(u) + Allowing \/ credit[u] >= Left(u)
        BY <1>1, <3>1 DEF Consent, Paid
      <4>5. credit'[u] = IF credit[u] < AskBound THEN credit[u] + 1 ELSE credit[u]
        BY <3>1, <3>2, <3>4
      <4>6. /\ credit'[u] >= 0
            /\ phase[u] \in MayAsk =>
                 credit'[u] >= Given(u) + (Allowing + 1) \/ credit'[u] >= Left(u)
        BY <4>1, <4>3, <4>4, <4>5
      <4> QED
        BY <1>1, <3>3, <4>1, <4>2, <4>3, <4>5, <4>6, PaidBy
    <3> QED
      BY <3>5, <3>6 DEF Consent
  <2> QED
    BY <2>3, <2>4
<1>6. CASE ~Quit /\ ~Submit /\ ~(\E c \in {"allow", "deny"} : Answer(c))
  <2>1. PICK kind \in Kind \ {"submit"}, s \in Session \union {NoSession},
             choice \in {"none", "allow", "deny"} :
          /\ kind \notin {"list", "create"} => s \in Session
          /\ Sent(kind, s, choice)
    BY <1>6, KeySends
  <2>2. kind # "approval" /\ credit' = credit
    <3>1. CASE \E r \in Session : PickSession(r)
      BY <2>1, <3>1 DEF PickSession, Sent, history
    <3>2. CASE NewSession
      BY <2>1, <3>2 DEF NewSession, Sent, history
    <3>3. CASE OpenPicker
      BY <2>1, <3>3 DEF OpenPicker, Sent, history
    <3>4. CASE Interrupt
      BY <2>1, <3>4 DEF Interrupt, Sent
    <3> QED
      BY <1>6, <3>1, <3>2, <3>3, <3>4 DEF User
  <2> QED
    BY <1>2, <2>1, <2>2
<1> QED
  BY <1>3, <1>4, <1>5, <1>6

LEMMA ConsentRead ==
  ASSUME TypeInv, CycleInv, NoKeyRefused, ReadFrame
  PROVE  Consent'
<1>1. UNCHANGED <<phase, decision, asks, credit>> /\ Consent /\ PipesOK /\ Allowing \in Nat
  BY ClientSide, CountsTyped DEF turns, TypeInv, CycleInv, ReadFrame, history
<1>2. ASSUME NEW s \in Session, Sent("resume", s, "none") PROVE Allowing' = Allowing
  <2>1. "resume" \in Kind
    BY DEF Kind
  <2> QED
    BY <1>1, <1>2, <2>1, Sends DEF One
<1>3. Allowing' = Allowing
  <2>1. input' = input \/ \E s \in Session : Sent("resume", s, "none")
    <3>1. Finished => ui.active \in Session
      BY Exclusive
    <3> QED
      BY <3>1, ReadCases
  <2> QED
    BY <1>2, <2>1, InputSame
<1> QED
  BY <1>1, <1>3, PaidKept DEF Consent

LEMMA ConsentMain ==
  ASSUME TypeInv, CycleInv, NoKeyRefused, MainTask
  PROVE  Consent'
<1>1. credit' = credit /\ Consent /\ PipesOK /\ Allowing \in Nat
  BY MainSide, CountsTyped DEF TypeInv, CycleInv, history
<1>2. CASE ServeSubmit
  <2> DEFINE s == Head(input).session
  <2>1. /\ submitted \in Turn /\ ui.busy /\ ~Shown
        /\ phase' = [phase EXCEPT ![submitted] = "accepted"]
        /\ \A t \in Turn : Live(t)' <=> t = submitted
    BY <1>2, SubmitServed
  <2> HIDE DEF s
  <2>2. Allowing = 0
    <3>1. ~quit /\ Asking = 0
      BY <2>1, Exclusive
    <3>2. \A k \in DOMAIN input : input[k].kind # "resume"
      BY <3>1, Absent DEF Navigation
    <3>3. \A k \in DOMAIN input : input[k].kind # "approval"
      BY <2>1, <3>1, <3>2 DEF CycleInv, AnswersInTime
    <3>4. \A k \in DOMAIN input : input[k] \notin Consents
      BY <3>3 DEF Consents
    <3>5. input \in Seq(Request)
      BY <1>1 DEF PipesOK
    <3> QED
      BY <3>4, <3>5, CountPositive DEF Allowing
  <2>3. Allowing' = 0
    <3>1. "submit" \in Kind /\ Take("submit")
      BY <1>2 DEF Kind, ServeSubmit
    <3>2. Allowing = Allowing' + One(Head(input) \in Consents) /\ Allowing' \in Nat
      BY <1>1, <3>1, Takes
    <3>3. Head(input) \notin Consents
      BY <3>1 DEF Take, Consents
    <3> QED
      BY <2>2, <3>2, <3>3 DEF One, Allowing
  <2>4. \A t \in Turn : decision'[t] # "allow"
    BY <1>2, <2>1, NothingHeld DEF Shown, ServeSubmit
  <2>5. \A t \in Turn : credit'[t] >= 0
    BY <1>1 DEF Consent, Paid
  <2>6. \A t \in Turn : Given(t)' = 0
    BY <2>4 DEF Given, One
  <2> QED
    BY <2>3, <2>5, <2>6 DEF Consent, Paid
<1>3. CASE ServeApproval
  <2> DEFINE r == Head(input)
             s == r.session
             u == TurnOf(waiter[s])
  <2>1. /\ Allowing = Allowing' + One(r \in Consents) /\ Allowing' \in Nat
        /\ r \in Request /\ r.kind = "approval" /\ s \in Session
    <3>1. Take("approval") /\ "approval" \in Kind
      BY <1>3 DEF ServeApproval, Kind
    <3> QED
      BY <1>1, <3>1, Takes DEF Addressed
  <2>2. /\ UNCHANGED <<phase, asks>>
        /\ decision' = IF waiter[s] = NoCall THEN decision
                       ELSE [decision EXCEPT ![u] = r.choice]
    BY <1>3 DEF ServeApproval
  <2> HIDE DEF r
  <2>3. r \in Consents <=> r.choice = "allow"
    BY <2>1 DEF Consents
  <2>4. waiter[s] # NoCall => u \in Turn /\ decision[u] = "none"
    <3>1. waiter[s] # NoCall => decision[u] = "none"
      BY <2>1 DEF CycleInv, Held
    <3>2. waiter[s] \in Call \union {NoCall}
      BY <2>1 DEF TypeInv, HostOK
    <3> QED
      BY <3>1, <3>2, Values
  <2>5. PICK b \in Nat : Allowing' = b /\ b <= Allowing /\ Allowing = b + One(r \in Consents)
    BY <2>1 DEF One, Allowing
  <2>6. decision \in [Turn -> {"none", "allow", "deny"}]
    BY DEF TypeInv, TurnsOK
  <2> HIDE DEF s, u
  <2>7. ASSUME NEW t \in Turn PROVE Paid(t)'
    <3>1. CASE waiter[s] = NoCall \/ t # u
      <4>1. decision'[t] = decision[t]
        BY <2>2, <2>4, <2>6, <3>1
      <4> QED
        BY <1>1, <2>2, <2>5, <4>1, PaidKept DEF Consent
    <3>2. CASE waiter[s] # NoCall /\ t = u
      <4>1. decision'[t] = r.choice /\ decision[t] = "none"
        BY <2>2, <2>4, <2>6, <3>2
      <4>2. Given(t) = 0 /\ Given(t)' = One(r \in Consents) /\ Left(t)' = Left(t)
        BY <2>2, <2>3, <4>1 DEF Given, Left, One
      <4>3. /\ credit[t] \in Int /\ asks[t] \in 0 .. AskBound /\ AskBound \in Nat
            /\ Left(t) = AskBound - asks[t] + One(phase[t] \in Asks)
        BY CreditTyped
      <4>4. Left(t) \in Int /\ Paid(t)
        BY <1>1, <4>3 DEF One, Consent
      <4>5. Given(t)' + b = Allowing
        BY <1>1, <2>5, <4>2 DEF One
      <4> QED
        BY <1>1, <2>2, <2>5, <4>2, <4>3, <4>4, <4>5 DEF Paid
    <3> QED
      BY <3>1, <3>2
  <2> QED
    BY <2>7 DEF Consent
<1>4. CASE ~ServeSubmit /\ ~ServeApproval
  <2>1. Allowing' \in Nat /\ Allowing' <= Allowing
    <3>1. CASE Reply \/ EndOfInput
      <4>1. input' = input
        BY <3>1 DEF Reply, EndOfInput, pipes
      <4> QED
        BY <1>1, <4>1, InputSame
    <3>2. CASE ~Reply /\ ~EndOfInput
      <4>1. PICK kind \in Kind : Take(kind)
        BY <3>2, ServeKinds
      <4>2. Allowing = Allowing' + One(Head(input) \in Consents) /\ Allowing' \in Nat
        BY <1>1, <4>1, Takes
      <4> QED
        BY <4>2 DEF One, Allowing
    <3> QED
      BY <3>1, <3>2
  <2>2. PICK b \in Nat : Allowing' = b /\ b <= Allowing
    BY <2>1
  <2>3. /\ asks' = asks
        /\ \A t \in Turn : decision'[t] = "allow" => decision[t] = "allow"
        /\ \A t \in Turn : /\ phase'[t] \in Asks <=> phase[t] \in Asks
                           /\ phase'[t] \in MayAsk => phase[t] \in MayAsk
    <3>1. CASE Reply
      BY <3>1 DEF Reply, Asks, MayAsk
    <3>2. CASE EndOfInput \/ ServeInterrupt
      BY <3>2 DEF EndOfInput, ServeInterrupt, InterruptSessions
    <3>3. CASE ~Reply /\ ~EndOfInput /\ ~ServeInterrupt
      BY <1>4, <3>3 DEF MainTask, ServeError, ServeList, ServeCreate, ServeResume, turns
    <3> QED
      BY <3>1, <3>2, <3>3
  <2> QED
    BY <1>1, <2>2, <2>3, PaidKept DEF Consent
<1> QED
  BY <1>2, <1>3, <1>4

LEMMA ConsentTurn ==
  ASSUME TypeInv, CycleInv, NEW t \in Turn, TurnTask(t)
  PROVE  Consent'
<1>1. /\ Consent /\ Allowing' = Allowing /\ Allowing \in Nat
      /\ phase \in [Turn -> Phase] /\ asks \in [Turn -> 0 .. AskBound]
      /\ decision \in [Turn -> {"none", "allow", "deny"}] /\ credit \in [Turn -> Int]
  BY TurnSide, InputSame, CountsTyped DEF TypeInv, CycleInv, TurnsOK, HistoryOK
<1>2. ASSUME NEW u \in Turn, u # t PROVE Paid(u)'
  <2>1. /\ phase'[u] = phase[u] /\ asks'[u] = asks[u]
        /\ decision'[u] = decision[u] /\ credit'[u] = credit[u]
    BY <1>1, <1>2 DEF TurnTask, TurnStart, Plan, Ask, Decide, EndTurn, GoIdle, ClearControl, Tell,
       history
  <2> QED
    BY <1>1, <2>1, PaidKept DEF Consent
<1>3. /\ Paid(t) /\ credit[t] \in Int /\ asks[t] \in 0 .. AskBound /\ AskBound \in Nat
      /\ Given(t) \in {0, 1} /\ Left(t) = AskBound - asks[t] + One(phase[t] \in Asks)
  BY <1>1, CreditTyped DEF Consent
<1>4. ASSUME Plan(t) PROVE Paid(t)'
  <2>1. /\ phase[t] = "working" /\ phase'[t] = "planned" /\ asks'[t] = asks[t] + 1
        /\ decision' = decision /\ credit' = credit
    BY <1>1, <1>4 DEF Plan, history
  <2>2. Given(t)' = Given(t) /\ Left(t)' = Left(t)
    BY <1>3, <2>1 DEF Given, Left, One, Asks
  <2> QED
    <3>1. /\ credit[t] >= 0
          /\ credit[t] >= Given(t) + Allowing \/ credit[t] >= Left(t)
      BY <1>3, <2>1 DEF Paid, MayAsk
    <3>2. Left(t) \in Int
      BY <1>3 DEF One
    <3> QED
      BY <1>1, <1>3, <2>1, <2>2, <3>1, <3>2, PaidBy
<1>5. ASSUME Decide(t) PROVE Paid(t)'
  <2>1. /\ phase[t] = "waiting" /\ phase'[t] = "working" /\ asks' = asks
        /\ decision'[t] = "none"
        /\ credit'[t] = IF decision[t] = "allow" THEN credit[t] - 1 ELSE credit[t]
    BY <1>1, <1>5 DEF Decide
  <2>2. /\ Given(t) = One(decision[t] = "allow") /\ Given(t)' = 0
        /\ Left(t)' = AskBound - asks[t] /\ Left(t) = AskBound - asks[t] + 1
    BY <1>3, <2>1 DEF Given, Left, One, Asks
  <2>3. credit[t] >= 0 /\ (credit[t] >= Given(t) + Allowing \/ credit[t] >= Left(t))
    BY <1>3, <2>1 DEF Paid, MayAsk, Asks
  <2>4. credit'[t] >= 0 /\ (credit'[t] >= 0 + Allowing \/ credit'[t] >= AskBound - asks[t])
    BY <1>1, <1>3, <2>1, <2>2, <2>3 DEF One
  <2> QED
    BY <1>1, <1>3, <2>1, <2>2, <2>4, PaidBy
<1>6. ASSUME EndTurn(t) PROVE Paid(t)'
  <2>1. phase'[t] = "ended" /\ credit' = credit
    BY <1>1, <1>6 DEF EndTurn, history
  <2> QED
    <3>1. credit'[t] >= 0 /\ phase'[t] \notin MayAsk
      BY <1>3, <2>1 DEF Paid, MayAsk, Asks
    <3> QED
      BY <3>1 DEF Paid
<1>7. ASSUME ~Plan(t) /\ ~Decide(t) /\ ~EndTurn(t) PROVE Paid(t)'
  <2>1. /\ asks' = asks /\ decision' = decision /\ credit' = credit
        /\ phase'[t] \in Asks <=> phase[t] \in Asks
        /\ phase'[t] \in MayAsk => phase[t] \in MayAsk
    BY <1>1, <1>7 DEF TurnTask, TurnStart, Ask, GoIdle, ClearControl, Tell, history, Asks, MayAsk
  <2> QED
    BY <1>1, <1>3, <2>1, PaidKept DEF Allowing
<1>8. Paid(t)'
  BY <1>4, <1>5, <1>6, <1>7
<1> QED
  BY <1>2, <1>8 DEF Consent

-----------------------------------------------------------------------------
(* The cycle is kept, and what follows from it. *)

LEMMA ConsentStep ==
  ASSUME TypeInv, CycleInv, NoKeyRefused, Next
  PROVE  Consent'
BY ConsentUser, ConsentRead, ConsentMain, ConsentTurn DEF Next

LEMMA ScreenStep ==
  ASSUME TypeInv, CycleInv, NoKeyRefused, Next
  PROVE  OnScreen' /\ InOrder'
BY OnScreenUser, OnScreenRead, OnScreenMain, OnScreenTurn DEF Next

LEMMA CycleInit == Init => CycleInv
<1> SUFFICES ASSUME Init PROVE CycleInv
  OBVIOUS
<1>1. TypeInv
  BY InitTypes
<1>2. /\ \A t \in Turn : phase[t] = "none" /\ decision[t] = "none" /\ credit[t] = 0
      /\ ui = NewModel /\ quit = FALSE /\ output = <<>> /\ serving = NoFrame
      /\ working = {} /\ cancelled = {} /\ submitted = 0
      /\ \A s \in Session : control[s] = NoTurn /\ waiter[s] = NoCall
  BY DEF Init
<1>3. ~Running /\ ~Finished /\ ~Shown /\ DOMAIN output = {}
  BY <1>2 DEF Running, Live, Finished, Shown
<1>4. NoFrame.type = "none" /\ NoFrame.kind = "none" /\ ~NoFrame.running
  BY DEF NoFrame
<1>5. serving \notin Ends /\ serving \notin Arrivals /\ serving \notin Acceptances
      /\ ~serving.running
  BY <1>2, <1>4 DEF Ends, Refusals, Completions, Arrivals, Acceptances, Navigation
<1>6. Ending = 0 /\ Telling = 0
  BY <1>1, <1>3, CountPositive DEF Ending, Telling, TypeInv, PipesOK
<1> DEFINE r == [kind |-> "list", session |-> NoSession, choice |-> "none"]
<1>7. input = <<r>> /\ r.kind = "list" /\ r \in Request
  <2>1. "list" \in Kind
    BY DEF Kind
  <2> QED
    BY <2>1 DEF Init, Request
<1>8. DOMAIN input = {1} /\ input[1] = r /\ Len(input) = 1
  BY <1>7
<1>9. Sending = 0 /\ Asking = 1
  <2>1. input[1] \notin Submits
    BY <1>7, <1>8 DEF Submits
  <2>2. Sending = 0
    BY <1>1, <1>8, <2>1, CountPositive DEF Sending, TypeInv, PipesOK
  <2>3. r \in Journeys
    BY <1>7 DEF Journeys, Navigation
  <2>4. input = Append(<<>>, r) /\ <<>> \in Seq(Request) /\ DOMAIN <<>> = {}
    BY <1>7
  <2> HIDE DEF r
  <2>5. Count(<<>>, Journeys) = 0
    <3>1. Holding(<<>>, Journeys) = {}
      BY DEF Holding
    <3> QED
      BY <3>1, FS_EmptySet DEF Count
  <2>6. Count(Append(<<>>, r), Journeys) = 1
    <3>1. \A q \in Seq(Request) : Count(Append(q, r), Journeys)
                                    = IF r \in Journeys THEN Count(q, Journeys) + 1
                                      ELSE Count(q, Journeys)
      BY <1>7, CountAppend
    <3>2. Count(Append(<<>>, r), Journeys) = Count(<<>>, Journeys) + 1
      BY <2>3, <2>4, <3>1
    <3> QED
      BY <2>5, <3>2
  <2> QED
    BY <2>2, <2>4, <2>6 DEF Asking
<1> HIDE DEF r
<1>10. OneAtATime
  BY <1>2, <1>3, <1>5, <1>6, <1>9 DEF OneAtATime, One, Live, NewModel
<1>11. Navigating
  BY <1>2, <1>3, <1>5, <1>6, <1>9 DEF Navigating, One, NewModel
<1>12. OnScreen
  BY <1>2, <1>3, <1>7, <1>8 DEF OnScreen, NewModel
<1>13. InOrder
  BY <1>3, <1>5 DEF InOrder
<1>14. Held
  BY <1>2 DEF Held
<1>15. Stopping /\ AnswersInTime
  BY <1>2, <1>7, <1>8 DEF Stopping, AnswersInTime
<1>16. Consent
  BY <1>2 DEF Consent, Paid, MayAsk, Asks
<1> QED
  BY <1>10, <1>11, <1>12, <1>13, <1>14, <1>15, <1>16 DEF CycleInv

LEMMA CycleStep ==
  ASSUME NoKeyRefused, TypeInv, CycleInv, [Next]_vars
  PROVE  CycleInv'
<1>1. CASE Next
  BY <1>1, OneStep, NavigatingStep, ScreenStep, HeldStep, StoppingStep, AnswersStep, ConsentStep
  DEF CycleInv
<1>2. CASE UNCHANGED vars
  <2>1. /\ UNCHANGED <<ui, quit, input, output, serving, phase, home, decision, asks>>
        /\ UNCHANGED <<working, control, waiter, cancelled, submitted, latest, stopped, credit>>
    BY <1>2 DEF vars, pipes, host, turns, history
  <2>2. /\ Sending' = Sending /\ Asking' = Asking /\ Allowing' = Allowing
        /\ Ending' = Ending /\ Telling' = Telling /\ Running' = Running /\ Shown' = Shown
    BY <2>1, InputSame, OutputSame, ShownSame
  <2>3. OneAtATime'
    BY <2>1, <2>2 DEF CycleInv, OneAtATime, One, Live
  <2>4. Navigating'
    BY <2>1, <2>2 DEF CycleInv, Navigating, One
  <2>5. OnScreen' /\ InOrder'
    BY <2>1, <2>2 DEF CycleInv, OnScreen, InOrder
  <2>6. Held'
    BY <2>1 DEF CycleInv, Held, Holds
  <2>7. Stopping'
    BY <2>1, <2>2 DEF CycleInv, Stopping, Behind
  <2>8. AnswersInTime'
    BY <2>1, <2>2 DEF CycleInv, AnswersInTime
  <2>9. Consent'
    BY <2>1, <2>2 DEF CycleInv, Consent, Paid, Given, Left, One
  <2> QED
    BY <2>3, <2>4, <2>5, <2>6, <2>7, <2>8, <2>9 DEF CycleInv
<1> QED
  BY <1>1, <1>2

LEMMA SpecCycle ==
  ASSUME NoKeyRefused
  PROVE  Spec => []CycleInv
<1>1. TypeInv /\ CycleInv /\ [Next]_vars => CycleInv'
  BY CycleStep
<1> QED
  BY <1>1, CycleInit, SpecTypes, PTL DEF Spec

(* One key pressed over an overlay of a turn for each command it started,  *)
(* although neither the answer nor approval.respond names the turn: an     *)
(* answer read late finds a waiter of its own turn, or none (Consent).     *)
THEOREM ConsentHolds ==
  ASSUME NoKeyRefused
  PROVE  Spec => []StartedWithConsent
<1>1. CycleInv => StartedWithConsent
  BY DEF CycleInv, Consent, Paid, StartedWithConsent
<1> QED
  BY <1>1, SpecCycle, PTL

(* The gateway drops the sender of a turn only for an interrupt pressed    *)
(* while that turn was on screen, or at the end of its input: a later turn *)
(* never loses the sender to the clean-up of the one before (Held).        *)
THEOREM InterruptsAreAsked ==
  ASSUME NoKeyRefused
  PROVE  Spec => []InterruptedOnRequest
<1>1. CycleInv => InterruptedOnRequest
  BY DEF CycleInv, Stopping, InterruptedOnRequest
<1> QED
  BY <1>1, SpecCycle, PTL

(* With nothing unread in either pipe, the screen says that a turn runs    *)
(* exactly when one does, and shows no overlay but of that turn.           *)
THEOREM ViewIsTrue ==
  ASSUME NoKeyRefused
  PROVE  Spec => []ViewSettles
<1>1. TypeInv /\ CycleInv => ViewSettles
  <2> SUFFICES ASSUME TypeInv, CycleInv, Settled
               PROVE  /\ ui.busy = \E t \in Turn : RunsIn(t, ui.active)
                      /\ ui.approval # NoCall => RunsIn(TurnOf(ui.approval), ui.active)
    BY DEF ViewSettles
  <2>1. input = <<>> /\ output = <<>> /\ serving = NoFrame /\ \A t \in Turn : AtRest(t)
    BY DEF Settled, InFlight
  <2>2. Sending = 0 /\ Ending = 0 /\ ~Finished
    <3>1. DOMAIN input = {} /\ DOMAIN output = {}
      BY <2>1
    <3>2. input \in Seq(Request) /\ output \in Seq(Frame)
      BY DEF TypeInv, PipesOK
    <3>3. Sending = 0
      BY <3>1, <3>2, CountPositive DEF Sending
    <3>4. Ending = 0
      BY <3>1, <3>2, CountPositive DEF Ending
    <3> QED
      BY <3>1, <3>3, <3>4 DEF Finished
  <2>3. serving \notin Ends
    BY <2>1 DEF NoFrame, Ends, Refusals, Completions
  <2>4. ui \in AppModel
    BY DEF TypeInv, UiOK
  <2>5. ui.busy <=> Running
    BY <2>2, <2>3, <2>4 DEF CycleInv, OneAtATime, One, AppModel
  <2>6. \A t \in Turn : Live(t) <=> phase[t] \in {"working", "waiting"}
    BY <2>1 DEF AtRest, Live
  <2>7. Running => submitted \in Turn /\ RunsIn(submitted, ui.active)
    BY <2>6, Exclusive DEF RunsIn, Shown, CycleInv, OnScreen
  <2>8. (\E t \in Turn : RunsIn(t, ui.active)) => Running
    BY <2>6 DEF RunsIn, Running
  <2>9. ui.approval # NoCall => Running /\ TurnOf(ui.approval) = submitted
    BY <2>2 DEF CycleInv, OnScreen, Shown
  <2>10. ui.busy \in BOOLEAN
    BY <2>4 DEF AppModel
  <2> QED
    BY <2>5, <2>7, <2>8, <2>9, <2>10
<1> QED
  BY <1>1, SpecCycle, SpecTypes, PTL
=============================================================================

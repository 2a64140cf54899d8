--------------------------- MODULE TerminalClient ---------------------------
(* The terminal client and its gateway child, joined by two pipes: keys    *)
(* become requests, the gateway serves one request at a time, and the      *)
(* responses and the events of the turns come back in the order they were  *)
(* written.  The client's view trails the gateway by what the pipes hold.  *)
(*                                                                         *)
(* A turn is known here by the number of its submission, which is history: *)
(* neither a request nor a frame carries it.  Left out: the frames that    *)
(* only add text to the view, the draft's editing and its scrolling, and   *)
(* the kill that follows when the gateway does not exit within 5 seconds.  *)
EXTENDS Integers, Sequences, FiniteSets

CONSTANTS
  Session,
  NoSession,
  Stored,       \* the sessions in the database when the client starts
  Failing,      \* the requests the gateway may answer with an error
  TurnBound,    \* the submissions explored
  AskBound,     \* the commands a turn asks about
  FlightBound   \* no key is explored while so much is in the pipes

Kind == {"list", "create", "resume", "submit", "approval", "interrupt"}

ASSUME ClientAssumption ==
  /\ NoSession \notin Session
  /\ Stored \subseteq Session
  /\ Failing \subseteq Kind
  /\ TurnBound \in Nat
  /\ AskBound \in Nat
  /\ FlightBound \in Nat

Turn == 1 .. TurnBound
NoTurn == 0
Call == Turn \X (1 .. AskBound)
NoCall == <<NoTurn, 0>>
TurnOf(call) == call[1]

VARIABLES
  ui,         \* AppModel
  quit,       \* the client left its loop and closed the gateway's input
  input,      \* the requests in the gateway's standard input
  output,     \* the frames in its standard output
  stored,     \* the sessions in the database
  serving,    \* the response to the request being served
  working,    \* GatewayHost.busy
  control,    \* GatewayHost.controls: the turn whose sender a session has
  waiter,     \* ApprovalControl: the call a session's turn waits for
  closed,     \* the gateway read the end of its input
  phase,      \* per turn: where its task is
  home,       \* per turn: its session
  decision,   \* per turn: what the receiver of its waiter got
  asks,       \* per turn: the commands it asked about
  cancelled,  \* the turns whose sender is gone
  submitted,  \* history: the submissions sent
  latest,     \* history: a session's latest submission
  stopped,    \* history: the turns the user interrupted
  credit      \* history: per turn, keys that allowed a command less commands
              \* started (not counted past what the turn may ask)

pipes == <<input, output>>
host == <<stored, working, control, waiter, closed>>
turns == <<phase, home, decision, asks, cancelled>>
history == <<submitted, latest, stopped, credit>>
vars == <<ui, quit, pipes, serving, host, turns, history>>

Request == [kind : Kind, session : Session \union {NoSession},
            choice : {"none", "allow", "deny"}]

Frame == [type : {"event", "result", "error", "none"},
          kind : Kind \union {"start", "request", "complete", "none"},
          session : Session \union {NoSession},
          call : Call \union {NoCall},
          running : BOOLEAN,
          sessions : SUBSET Session]

NoFrame == [type |-> "none", kind |-> "none", session |-> NoSession,
            call |-> NoCall, running |-> FALSE, sessions |-> {}]

Event(kind, s) ==
  [NoFrame EXCEPT !.type = "event", !.kind = kind, !.session = s]
Result(kind, s) ==
  [NoFrame EXCEPT !.type = "result", !.kind = kind, !.session = s]
Refusal(kind) == [NoFrame EXCEPT !.type = "error", !.kind = kind]

AppModel == [screen : {"Loading", "Sessions", "Chat"},
             sessions : SUBSET Session,
             active : Session \union {NoSession},
             approval : Call \union {NoCall},
             busy : BOOLEAN,
             interrupting : BOOLEAN,
             error : BOOLEAN]

Phase == {"none", "accepted", "spawned", "working", "planned", "waiting",
          "ended", "idle", "cleared", "done"}

NewModel == [screen |-> "Loading", sessions |-> {}, active |-> NoSession,
             approval |-> NoCall, busy |-> FALSE, interrupting |-> FALSE,
             error |-> FALSE]

\* The client's first request goes out before anything is read or typed.
Init ==
  /\ ui = NewModel
  /\ quit = FALSE
  /\ input = <<[kind |-> "list", session |-> NoSession, choice |-> "none"]>>
  /\ output = <<>>
  /\ stored = Stored
  /\ serving = NoFrame
  /\ working = {}
  /\ control = [s \in Session |-> NoTurn]
  /\ waiter = [s \in Session |-> NoCall]
  /\ closed = FALSE
  /\ phase = [t \in Turn |-> "none"]
  /\ home = [t \in Turn |-> NoSession]
  /\ decision = [t \in Turn |-> "none"]
  /\ asks = [t \in Turn |-> 0]
  /\ cancelled = {}
  /\ submitted = 0
  /\ latest = [s \in Session |-> NoTurn]
  /\ stopped = {}
  /\ credit = [t \in Turn |-> 0]

-----------------------------------------------------------------------------
(* Keys.  Each is handled whole before the next frame or key is looked at. *)

MayPress == ~quit /\ Len(input) + Len(output) < FlightBound

Sent(kind, s, choice) ==
  input' = Append(input, [kind |-> kind, session |-> s, choice |-> choice])

PickSession(s) ==
  /\ MayPress
  /\ ui.screen = "Sessions"
  /\ s \in ui.sessions
  /\ ui' = [ui EXCEPT !.screen = "Loading"]
  /\ Sent("resume", s, "none")
  /\ UNCHANGED <<quit, output, serving, host, turns, history>>

\* "n"; as many creations are explored as there are sessions left.
NewSession ==
  /\ MayPress
  /\ ui.screen = "Sessions"
  /\ Cardinality(Session \ stored) >
       Cardinality({k \in DOMAIN input : input[k].kind = "create"})
  /\ ui' = [ui EXCEPT !.screen = "Loading"]
  /\ Sent("create", NoSession, "none")
  /\ UNCHANGED <<quit, output, serving, host, turns, history>>

\* F2
OpenPicker ==
  /\ MayPress
  /\ ui.screen = "Chat"
  /\ ui.approval = NoCall
  /\ ~ui.busy
  /\ ui' = [ui EXCEPT !.screen = "Loading"]
  /\ Sent("list", NoSession, "none")
  /\ UNCHANGED <<quit, output, serving, host, turns, history>>

BeginSubmit ==
  [ui EXCEPT !.busy = TRUE, !.interrupting = FALSE, !.error = FALSE]

\* Seeded fault: a draft can be submitted while the client shows a turn.
SubmitWhileBusy ==
  /\ MayPress
  /\ ui.screen = "Chat"
  /\ submitted < TurnBound
  /\ ui' = BeginSubmit
  /\ Sent("submit", ui.active, "none")
  /\ submitted' = submitted + 1
  /\ latest' = [latest EXCEPT ![ui.active] = submitted + 1]
  /\ UNCHANGED <<quit, output, serving, host, turns, stopped, credit>>

\* A draft and Enter: the view is changed before the gateway accepted it.
Submit ==
  /\ MayPress
  /\ ui.screen = "Chat"
  /\ ui.approval = NoCall
  /\ ~ui.busy
  /\ submitted < TurnBound
  /\ ui' = BeginSubmit
  /\ Sent("submit", ui.active, "none")
  /\ submitted' = submitted + 1
  /\ latest' = [latest EXCEPT ![ui.active] = submitted + 1]
  /\ UNCHANGED <<quit, output, serving, host, turns, stopped, credit>>

\* "y", "n", Esc or Enter over the overlay, which stays as it is.
Answer(choice) ==
  /\ MayPress
  /\ ui.screen = "Chat"
  /\ ui.approval # NoCall
  /\ Sent("approval", ui.active, choice)
  /\ credit' =
       IF choice = "allow" /\ credit[TurnOf(ui.approval)] < AskBound
       THEN [credit EXCEPT ![TurnOf(ui.approval)] = @ + 1]
       ELSE credit
  /\ UNCHANGED <<ui, quit, output, serving, host, turns, submitted, latest,
                 stopped>>

\* Ctrl-C over the overlay; Esc or Ctrl-C while a turn is shown as running.
Interrupt ==
  /\ MayPress
  /\ ui.screen = "Chat"
  /\ ui.approval # NoCall \/ ui.busy
  /\ ~ui.interrupting
  /\ ui' = [ui EXCEPT !.interrupting = TRUE]
  /\ Sent("interrupt", ui.active, "none")
  /\ stopped' = stopped \union {latest[ui.active]}
  /\ UNCHANGED <<quit, output, serving, host, turns, submitted, latest, credit>>

\* The loop returns and its model is dropped; frames are read no more.
Leave ==
  /\ quit' = TRUE
  /\ ui' = NewModel
  /\ output' = <<>>

Written(frame) == output' = IF quit THEN output ELSE Append(output, frame)

Quit ==
  /\ ~quit
  /\ ui.screen = "Chat" => ui.approval = NoCall /\ ~ui.busy
  /\ Leave
  /\ UNCHANGED <<input, serving, host, turns, history>>

-----------------------------------------------------------------------------
(* Frames: the reducer, and the request its model action sends. *)

AfterError == [ui EXCEPT !.busy = FALSE, !.interrupting = FALSE, !.error = TRUE]

Resumed(f) ==
  [ui EXCEPT !.active = f.session, !.approval = NoCall, !.busy = f.running,
             !.interrupting = FALSE, !.screen = "Chat"]

Completed ==
  [ui EXCEPT !.busy = FALSE, !.interrupting = FALSE, !.approval = NoCall,
             !.screen = "Loading"]

AfterResult(f) ==
  CASE f.kind = "list" ->
         [ui EXCEPT !.sessions = f.sessions, !.screen = "Sessions"]
    [] f.kind = "create" -> [ui EXCEPT !.screen = "Loading"]
    [] f.kind = "resume" -> Resumed(f)
    [] f.kind = "submit" -> [ui EXCEPT !.busy = TRUE]
    [] f.kind = "approval" -> [ui EXCEPT !.approval = NoCall]
    [] OTHER -> [ui EXCEPT !.interrupting = TRUE]

\* Events of a session that is not on screen are dropped.
Concerns(f) == ui.active = NoSession \/ ui.active = f.session

AfterEvent(f) ==
  IF ~Concerns(f) THEN ui
  ELSE CASE f.kind = "start" -> [ui EXCEPT !.busy = TRUE]
         [] f.kind = "request" -> [ui EXCEPT !.approval = f.call]
         [] OTHER -> Completed

AfterFrame(f) ==
  CASE f.type = "error" -> AfterError
    [] f.type = "result" -> AfterResult(f)
    [] OTHER -> AfterEvent(f)

\* ModelAction: a created session is resumed, a finished turn reloaded.
Reloads(f) ==
  CASE f.type = "result" /\ f.kind = "create" -> f.session
    [] f.type = "event" /\ f.kind = "complete" /\ Concerns(f) -> ui.active
    [] OTHER -> NoSession

ReadFrame ==
  /\ ~quit
  /\ output # <<>>
  /\ LET f == Head(output) IN
       IF f.kind = "complete" /\ ui.active = NoSession
       THEN Leave /\ UNCHANGED input  \* nothing to reload: the loop fails
       ELSE /\ ui' = AfterFrame(f)
            /\ output' = Tail(output)
            /\ IF Reloads(f) = NoSession
               THEN UNCHANGED input
               ELSE Sent("resume", Reloads(f), "none")
            /\ UNCHANGED quit
  /\ UNCHANGED <<serving, host, turns, history>>

-----------------------------------------------------------------------------
(* The gateway's main task: a request is taken from the input, acted on,   *)
(* and answered; the turns go on between the last two.                     *)

Take(kind) ==
  /\ serving = NoFrame
  /\ input # <<>>
  /\ Head(input).kind = kind
  /\ input' = Tail(input)

\* Storage, a foreign manifest, an unknown session: nothing was changed.
ServeError ==
  /\ \E kind \in Failing : Take(kind) /\ serving' = Refusal(kind)
  /\ UNCHANGED <<ui, quit, output, host, turns, history>>

ServeList ==
  /\ Take("list")
  /\ serving' = [Result("list", NoSession) EXCEPT !.sessions = stored]
  /\ UNCHANGED <<ui, quit, output, host, turns, history>>

ServeCreate ==
  /\ Take("create")
  /\ \E s \in Session \ stored :
       /\ stored' = stored \union {s}
       /\ serving' = Result("create", s)
  /\ UNCHANGED <<ui, quit, output, working, control, waiter, closed, turns,
                 history>>

\* Whether a turn runs is read here and written with the response.
ServeResume ==
  /\ Take("resume")
  /\ LET s == Head(input).session IN
       serving' = [Result("resume", s) EXCEPT !.running = (s \in working)]
  /\ UNCHANGED <<ui, quit, output, host, turns, history>>

\* The next submission still to be accepted or refused.
Arriving == submitted -
  Cardinality({k \in DOMAIN input : input[k].kind = "submit"}) + 1

ServeSubmit ==
  /\ Take("submit")
  /\ LET s == Head(input).session IN
       IF s \in working
       THEN /\ serving' = Refusal("submit")
            /\ UNCHANGED <<working, control, phase, home>>
       ELSE /\ serving' = Result("submit", s)
            /\ working' = working \union {s}
            /\ control' = [control EXCEPT ![s] = Arriving]
            /\ phase' = [phase EXCEPT ![Arriving] = "accepted"]
            /\ home' = [home EXCEPT ![Arriving] = s]
  /\ UNCHANGED <<ui, quit, output, stored, waiter, closed, decision, asks,
                 cancelled, history>>

\* ApprovalControl::respond: whatever call of the session waits.
ServeApproval ==
  /\ Take("approval")
  /\ LET s == Head(input).session IN
       /\ serving' = Result("approval", s)
       /\ waiter' = [waiter EXCEPT ![s] = NoCall]
       /\ decision' = IF waiter[s] = NoCall THEN decision
                      ELSE [decision EXCEPT ![TurnOf(waiter[s])] =
                              Head(input).choice]
  /\ UNCHANGED <<ui, quit, output, stored, working, control, closed, phase,
                 home, asks, cancelled, history>>

\* Every sender of the sessions is used, every waiter of theirs denied.
InterruptSessions(S) ==
  /\ cancelled' = cancelled \union ({control[s] : s \in S} \ {NoTurn})
  /\ control' = [s \in Session |-> IF s \in S THEN NoTurn ELSE control[s]]
  /\ waiter' = [s \in Session |-> IF s \in S THEN NoCall ELSE waiter[s]]
  /\ decision' = [t \in Turn |->
       IF \E s \in S : waiter[s] # NoCall /\ TurnOf(waiter[s]) = t
       THEN "deny" ELSE decision[t]]

ServeInterrupt ==
  /\ Take("interrupt")
  /\ serving' = Result("interrupt", Head(input).session)
  /\ InterruptSessions({Head(input).session})
  /\ UNCHANGED <<ui, quit, output, stored, working, closed, phase, home, asks,
                 history>>

\* The response is written; an accepted turn is spawned after its own.
Reply ==
  /\ serving # NoFrame
  /\ Written(serving)
  /\ serving' = NoFrame
  /\ phase' = [t \in Turn |->
                 IF phase[t] = "accepted" THEN "spawned" ELSE phase[t]]
  /\ UNCHANGED <<ui, quit, input, host, home, decision, asks, cancelled,
                 history>>

EndOfInput ==
  /\ quit
  /\ input = <<>>
  /\ serving = NoFrame
  /\ ~closed
  /\ closed' = TRUE
  /\ InterruptSessions(Session)
  /\ UNCHANGED <<ui, quit, pipes, serving, stored, working, phase, home, asks,
                 history>>

-----------------------------------------------------------------------------
(* The task of a turn, beside the main task. *)

TurnStart(t) ==
  /\ phase[t] = "spawned"
  /\ phase' = [phase EXCEPT ![t] = "working"]
  /\ Written(Event("start", home[t]))
  /\ UNCHANGED <<ui, quit, input, serving, host, home, decision, asks,
                 cancelled, history>>

\* Seeded fault: the waiter is registered under the call before.
PlanPrevious(t) ==
  /\ phase[t] = "working"
  /\ asks[t] < AskBound
  /\ phase' = [phase EXCEPT ![t] = "planned"]
  /\ asks' = [asks EXCEPT ![t] = @ + 1]
  /\ waiter' = [waiter EXCEPT ![home[t]] = <<t, asks[t]>>]
  /\ UNCHANGED <<ui, quit, pipes, serving, stored, working, control, closed,
                 home, decision, cancelled, history>>

\* The provider asked for a command: the waiter is registered, the plan
\* journalled, ...  An interrupt is looked at when the turn is polled next; the
\* poll under way goes on.
Plan(t) ==
  /\ phase[t] = "working"
  /\ asks[t] < AskBound
  /\ phase' = [phase EXCEPT ![t] = "planned"]
  /\ asks' = [asks EXCEPT ![t] = @ + 1]
  /\ waiter' = [waiter EXCEPT ![home[t]] = <<t, asks[t] + 1>>]
  /\ UNCHANGED <<ui, quit, pipes, serving, stored, working, control, closed,
                 home, decision, cancelled, history>>

\* ... and then the client is asked.
Ask(t) ==
  /\ phase[t] = "planned"
  /\ phase' = [phase EXCEPT ![t] = "waiting"]
  /\ Written([Event("request", home[t]) EXCEPT !.call = <<t, asks[t]>>])
  /\ UNCHANGED <<ui, quit, input, serving, host, home, decision, asks,
                 cancelled, history>>

\* Seeded fault: a decision outlives the call it was made for.
DecideAgain(t) ==
  /\ phase[t] = "waiting"
  /\ decision[t] # "none"
  /\ phase' = [phase EXCEPT ![t] = "working"]
  /\ credit' = IF decision[t] = "allow"
               THEN [credit EXCEPT ![t] = @ - 1] ELSE credit
  /\ UNCHANGED <<ui, quit, pipes, serving, host, home, decision, asks,
                 cancelled, submitted, latest, stopped>>

\* Also by the poll an interrupt finds under way; the next one ends the turn.
Decide(t) ==
  /\ phase[t] = "waiting"
  /\ decision[t] # "none"
  /\ phase' = [phase EXCEPT ![t] = "working"]
  /\ credit' = IF decision[t] = "allow"
               THEN [credit EXCEPT ![t] = @ - 1] ELSE credit
  /\ decision' = [decision EXCEPT ![t] = "none"]
  /\ UNCHANGED <<ui, quit, pipes, serving, host, home, asks, cancelled,
                 submitted, latest, stopped>>

\* Seeded fault: a turn that waits for a decision is not interrupted.
EndTurnWhenAwake(t) ==
  /\ phase[t] \in {"working", "planned"}
  /\ phase' = [phase EXCEPT ![t] = "ended"]
  /\ waiter' = [waiter EXCEPT ![home[t]] =
                  IF TurnOf(@) = t THEN NoCall ELSE @]
  /\ decision' = [decision EXCEPT ![t] = "none"]
  /\ asks' = [asks EXCEPT ![t] = 0]
  /\ UNCHANGED <<ui, quit, pipes, serving, stored, working, control, closed,
                 home, cancelled, history>>

\* Completed or failed, or dropped because its sender is gone; the broker
\* takes its waiter with it.
EndTurn(t) ==
  /\ \/ phase[t] \in {"working", "planned"}
     \/ phase[t] = "waiting" /\ t \in cancelled
  /\ phase' = [phase EXCEPT ![t] = "ended"]
  /\ waiter' = [waiter EXCEPT ![home[t]] =
                  IF TurnOf(@) = t THEN NoCall ELSE @]
  /\ decision' = [decision EXCEPT ![t] = "none"]
  /\ asks' = [asks EXCEPT ![t] = 0]
  /\ UNCHANGED <<ui, quit, pipes, serving, stored, working, control, closed,
                 home, cancelled, history>>

\* Seeded fault: the session stays busy after its turn.
StayBusy(t) ==
  /\ phase[t] = "ended"
  /\ phase' = [phase EXCEPT ![t] = "idle"]
  /\ UNCHANGED <<ui, quit, pipes, serving, host, home, decision, asks,
                 cancelled, history>>

GoIdle(t) ==
  /\ phase[t] = "ended"
  /\ phase' = [phase EXCEPT ![t] = "idle"]
  /\ working' = working \ {home[t]}
  /\ UNCHANGED <<ui, quit, pipes, serving, stored, control, waiter, closed,
                 home, decision, asks, cancelled, history>>

\* Whatever sender the session has by now is dropped: a later turn's, if one
\* was accepted since the session went idle.
ClearControl(t) ==
  /\ phase[t] = "idle"
  /\ phase' = [phase EXCEPT ![t] = "cleared"]
  /\ control' = [control EXCEPT ![home[t]] = NoTurn]
  /\ cancelled' = cancelled \union ({control[home[t]]} \ {NoTurn, t})
  /\ UNCHANGED <<ui, quit, pipes, serving, stored, working, waiter, closed,
                 home, decision, asks, history>>

Tell(t) ==
  /\ phase[t] = "cleared"
  /\ phase' = [phase EXCEPT ![t] = "done"]
  /\ Written(Event("complete", home[t]))
  /\ UNCHANGED <<ui, quit, input, serving, host, home, decision, asks,
                 cancelled, history>>

-----------------------------------------------------------------------------

User ==
  \/ \E s \in Session : PickSession(s)
  \/ NewSession
  \/ OpenPicker
  \/ Submit
  \/ \E choice \in {"allow", "deny"} : Answer(choice)
  \/ Interrupt
  \/ Quit

MainTask ==
  \/ ServeError
  \/ ServeList
  \/ ServeCreate
  \/ ServeResume
  \/ ServeSubmit
  \/ ServeApproval
  \/ ServeInterrupt
  \/ Reply
  \/ EndOfInput

TurnTask(t) ==
  \/ TurnStart(t)
  \/ Plan(t)
  \/ Ask(t)
  \/ Decide(t)
  \/ EndTurn(t)
  \/ GoIdle(t)
  \/ ClearControl(t)
  \/ Tell(t)

Next ==
  \/ User
  \/ ReadFrame
  \/ MainTask
  \/ \E t \in Turn : TurnTask(t)

Spec == Init /\ [][Next]_vars

(* The client's loop, the main task and every turn task are scheduled; the *)
(* user owes nothing.                                                      *)
FairSpec ==
  /\ Spec
  /\ WF_vars(ReadFrame)
  /\ WF_vars(MainTask)
  /\ \A t \in Turn : WF_vars(TurnTask(t))

-----------------------------------------------------------------------------
TypeOK ==
  /\ ui \in AppModel
  /\ quit \in BOOLEAN
  /\ closed \in BOOLEAN
  /\ input \in Seq(Request)
  /\ output \in Seq(Frame)
  /\ serving \in Frame
  /\ stored \subseteq Session
  /\ working \subseteq Session
  /\ control \in [Session -> Turn \union {NoTurn}]
  /\ waiter \in [Session -> Call \union {NoCall}]
  /\ phase \in [Turn -> Phase]
  /\ home \in [Turn -> Session \union {NoSession}]
  /\ decision \in [Turn -> {"none", "allow", "deny"}]
  /\ asks \in [Turn -> 0 .. AskBound]
  /\ cancelled \subseteq Turn

(* Every command that was started was allowed by a key pressed over an     *)
(* overlay of the same turn, one key for one command, although neither the *)
(* answer nor the overlay's event says which turn it is about              *)
(* (native-tui.md, "Protocol inventory").                                  *)
StartedWithConsent == \A t \in Turn : credit[t] >= 0

(* A turn is cancelled only by an interrupt pressed while it was on screen *)
(* or by closing down: with this client, which submits only after the      *)
(* reload, the gateway never drops the sender of a turn it accepted        *)
(* between going idle and clearing its controls.                           *)
InterruptedOnRequest == cancelled \subseteq stopped \/ closed

InFlight == input # <<>> \/ output # <<>> \/ serving # NoFrame

\* The turn owes neither the gateway nor the client a step.
AtRest(t) ==
  \/ phase[t] \in {"none", "done"}
  \/ phase[t] = "working" /\ t \notin cancelled
  \/ phase[t] = "waiting" /\ t \notin cancelled /\ decision[t] = "none"

Settled ==
  ~InFlight /\ ~quit /\ ui.screen = "Chat" /\ \A t \in Turn : AtRest(t)

RunsIn(t, s) == home[t] = s /\ phase[t] \in {"working", "waiting"}

(* When everything written was read, the view of the session on screen is  *)
(* the gateway's: busy exactly while a turn of it runs, and an overlay of  *)
(* no turn but that one.                                                   *)
ViewSettles ==
  Settled =>
    /\ ui.busy = \E t \in Turn : RunsIn(t, ui.active)
    /\ ui.approval # NoCall => RunsIn(TurnOf(ui.approval), ui.active)

BeingInterrupted == ui.busy /\ ui.interrupting
Loading == ui.screen = "Loading"

(* A turn shown as being interrupted comes to its end on screen, and a     *)
(* loading screen to another one, unless what it waited for was refused.   *)
(* (Without "busy" the first fails: an interrupt acknowledged after a      *)
(* refused submission leaves the flag up until the next one.)              *)
PendingViewEnds ==
  /\ BeingInterrupted ~> (~BeingInterrupted \/ quit)
  /\ Loading ~> (~Loading \/ ui.error \/ quit)

Unread(call) ==
  \E k \in DOMAIN output : output[k].kind = "request" /\ output[k].call = call

(* "Resolve the oldest approval shown for one session" (approval.rs:78): a *)
(* command is allowed by an answer only after its own request was shown.   *)
AllowedAfterShown ==
  \A t \in Turn :
    decision[t] = "allow" =>
      phase[t] = "waiting" /\ ~Unread(<<t, asks[t]>>)
=============================================================================

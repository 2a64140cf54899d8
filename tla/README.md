# hermes-rs: a verification development

TLA+ models of `hermesd`, the Rust kernel that owns agent sessions, turns, tool
effects, approvals and background delegations in one SQLite database. The
models are translated from the source under `src/`; TLC checks them on small
instances, and TLAPS proves every safety property and every refinement of every
component for all values of their constants (the terminal client's under one
named hypothesis).

## The system

One `hermesd gateway` process per database reads JSON requests line by line
from a client, starts one task per foreground turn, and runs a background
supervisor beside them. `hermesd chat` is a second program that may append to
the same sessions. Everything durable is in SQLite, written by immediate
transactions; everything else dies with the process.

| Component | State | Operations | Hard behaviour |
|---|---|---|---|
| Delegation store (`adapters/sqlite_delegation.rs`, `domain/delegation.rs`) | `delegations`, `delegation_completions`, the child session | create, create_with_child, claim, heartbeat, cancel, finish, complete_child, reconcile_*, claim/release/acknowledge completion | leases that expire, zombie workers with an old fence, a cancellation against a finish, batches that must not abort |
| Background supervisor (`cli/background.rs`) | the loop, one job per claim, the map of signal senders | reconcile, scan, claim, execute, heartbeat, poll, finish | crash at any point, a signal that arrives before its receiver, a scan that is stale when used |
| Foreground turn store (`adapters/sqlite_foreground.rs`) | `foreground_turns`, the transcript, the outbox | start_with_deliveries, complete, terminate, reconcile_running | another writer on the session, a completion claimed twice |
| Gateway host (`cli/gateway.rs`) | busy marks, interrupt senders, turn tasks | prompt.submit, session.interrupt, approval.respond, delegation.cancel, end of input | early returns half-way, an interrupt against a commit, the clean-up of one turn against the start of the next |
| Turn loop and tool host (`crates/runtime`) | attempts, conversation, invocation ids | plan, resolve, execute, retry | provider errors, reused call ids, dropped futures |
| Effect ledger (`adapters/sqlite.rs`) | `tool_effects` | record_plans, record_approvals, record_terminals, pending | a crash between a start and its result |
| Approval registry (`adapters/approval.rs`) | a queue of waiters per session | register, respond, remove, deny_session, deny_all | answers without a call id, waiters of ended turns, denial against interrupt |
| Agent, terminal and local tools (`adapters/agent_tools.rs`, `terminal.rs`, `local_tools.rs`) | processes, children, receivers | plan, resolve_approvals, execute, drop | concurrent children, processes killed with the turn |
| Codex engine and binding store (`adapters/codex/*`, `sqlite_codex_binding.rs`) | one app-server process per turn, its frames, `buffered_events`, the row of `worker_bindings` | start-up requests, event loop, interrupt, shutdown, load_current, save | events that overtake an answer, a worker silent for ever, a binding saved after another commit, threads of turns that were never committed |
| OpenAI provider and direct turn (`adapters/openai.rs`, `crates/runtime`, `domain/conversation.rs`) | the stream of one attempt, delta assembly, raw messages | request, pieces, end of stream, tool round, append | replies cut anywhere, calls in fragments, results out of order, a silent provider |
| Terminal client (`cli/tui/*`) | the `AppModel`, two ordered pipes to its gateway child | keys, responses, events, reloads | a view that trails the gateway, answers without a call id, a key pressed twice |

The remaining parts (`contracts.rs`, rendering, CLI parsing, ids and
serialisation) carry no shared state; `PROJECT.json` lists each with its reason.

What makes the components correct:

* a delegation is dispatched at most once, its terminal, its notice to the
  parent and the child's transcript change together, and only the current
  owner can settle it;
* work accepted is settled in the end, and a promised cancellation is kept;
* the transcript of a session is what completed turns appended to it, in
  order; what a client is told is what the database says;
* a completion is delivered to one prompt;
* no tool effect starts unless it was planned durably, no command unless the
  client allowed that very call, and a result in the ledger is the result of
  one start;
* a Codex worker reasons about exactly the committed session, and what is
  committed is all the worker said;
* the session holds what the provider said, no tool runs for half a reply, and
  a request to the provider carries a result for every call;
* the client's view comes to agree with the gateway, a command starts only with
  a key pressed for its turn, and a turn is cancelled only on request;
* an interrupt and a shutdown take effect although providers, commands and
  clients may be silent for ever; what may still hold a turn is named: a client
  that leaves an approval unanswered until it interrupts, and a Codex worker in
  three waits that have no timer.

## Modules

| Module | Models | How it corresponds to the code |
|---|---|---|
| `DelegationLifecycle` | what one delegation promises to someone who sees no lease, fence or generation | abstract specification, from the port trait; the store and the supervisor implement it |
| `DelegationStore` | the delegation store under arbitrary callers | one action per port method, one step per transaction; `delegations`, `completions` are the tables, `authority` is what each worker remembers of its claim |
| `DelegationStoreProofs` | theorems about it | |
| `BackgroundSupervisor` | the gateway process around that store: loop, jobs, gateway cancel task, signal channels, crash and restart | one step between any two awaits, unlocks or transactions that another actor can get in between |
| `BackgroundSupervisorProofs` | theorems about it | |
| `ForegroundStore` | sessions, foreground turns and the outbox under arbitrary callers | one action per store method; generation is the length of the transcript plus one |
| `ForegroundStoreProofs` | theorems about it | |
| `Gateway` | the gateway process over that store (EXTENDS it): submit in its separate transactions, the turn task with its clean-up order, interrupt, EOF, crash, restart | shown to implement `ForegroundStore` |
| `GatewayProofs` | theorems about it | |
| `EffectLifecycle` | what the ledger and the approvals promise of one tool invocation | abstract specification |
| `ToolEffects` | one session's turn loop, tool host, journal, approval registry, client and crash | the turn is one future; its suspension points are the only places where an interrupt is seen |
| `ToolEffectsProofs` | theorems about it | |
| `CodexTurns` | one session whose turns are reasoned by a Codex app-server: attempts of the gateway and of `hermesd chat`, their workers, the binding | one step per await of `run_inner` and per transaction around it; the worker is external, modelled from the requests the engine sends and the answers it provides for |
| `CodexTurnsProofs` | theorems about it | |
| `ProviderTurn` | turns of the direct engine: `OpenAiProvider`'s stream, `run_session_turn`'s attempts, `ToolHost`'s batches, the projection of the stored session into a request and back | one step per piece read from the body (taken, decoded and applied in one poll), per call that ends, and per end of the stream; `reply`/`sent` are the external provider, who may mean anything and stop anywhere |
| `ProviderTurnProofs` | theorems about it | |
| `TerminalClient` | the client's `AppModel` and reducer, the pipes, the gateway's main task, the turn tasks with their clean-up order, the approval registry | one step per key, per frame read, per request served, per response written, and per step of a turn between two awaits |
| `TerminalClientProofs` | theorems about it | |

`MCDelegationStore.tla` adds a symmetry set; the other modules need none and are
checked directly.  Operators marked "Seeded fault" are no part of a
specification: each is a plausible bug in the definition beside it, kept to show
that some property notices it.

### Abstractions worth knowing

* **Time.** `DelegationStore` takes an arbitrary timestamp from its callers in
  every call, so its theorems do not depend on clocks. `BackgroundSupervisor`
  has one monotone clock and counts the ticks a lease has left. `Gateway` has
  no clock: an expired delivery claim is a flag that may be raised any time.
* **Transcripts.** A session is the sequence of the turns that appended to it;
  messages are not modelled. The owner generation moves exactly with it.
* **Names.** Execution keys in `ToolEffects` are the pair of scope and call
  id, as in `allocate_invocation_ids`; scopes are the session generations, so
  a turn after a failed one reuses the scope, as in `run_session_turn`.
* **Errors.** A storage, provider or output error may happen wherever the code
  can meet one, and takes the arm the code takes.
* **The client in `ToolEffects`** answers each request it is shown once and
  sends nothing else until its answer was read. The protocol allows more (an
  answer carries no call id): in `TerminalClient` a key is sent as often as it
  is pressed, and `AllowedByClient` weakens there to `StartedWithConsent`, one
  key of the same turn for each command.
* **One delegation in the supervisor's run.** Delegations share only the loop,
  the map of channels (keyed by delegation) and the gateway task. Steps of the
  others are stutters to the rows, job and channel of one, so safety of several
  is safety of each; the proofs are for any set of them. Liveness is not the same: a claim refused because its scan
  is stale must be skipped for the loop to come to the next, hence the fairness
  of `ClaimDelegation(p) \/ ClaimFails(p)` for some `p` and not only for one.
* **A turn in `TerminalClient`** is the number of its submission. Neither a
  request nor a frame carries it; it is there to say which turn an overlay or a
  sender belonged to. Frames that only add text are left out, so are the
  editing of a draft and the kill of a gateway that outlives its input by 5
  seconds. A turn looks at an interrupt only when it is polled next; how far the
  poll under way gets is left open, so a cancelled turn may still register a
  waiter, ask, and use a decision before it ends.
* **A request that is hidden.** The overlay is cleared by the acknowledgement of
  an answer, whichever request it shows by then. The gateway may serve the answer,
  and the turn decide, plan and ask again, before the acknowledgement is written:
  the client then reads the new request first and the acknowledgement clears it.
  The turn waits with nothing shown, until the user interrupts it. `TerminalClient`
  has these behaviours (with a single key press, TLC reaches such a state on the
  instance of `terminal_answer`). No property here denies them: `ViewSettles`
  speaks of overlays that should not be there, not of one that is missing.
* **A reply in `ProviderTurn`** is a count of text pieces and up to `CallBound`
  calls, each a head and its arguments; id and name are one. A call whose argument
  pieces are missing has the empty arguments the code gives it. A piece the
  adapter refuses, arguments that are no JSON, a lost connection are one
  failure. A round may have to wait for the client first (a terminal command), which
  is left open; all its decisions are one step. `[DONE]` is assumed to come after the whole reply; a body that ends
  without it may end anywhere. The end "length" is not a failure when the reply
  has calls: the loop acts on them, and so does the model.
* **Children.** A child agent is one call that takes time; its own turn, under
  the scope of its parent's invocation, is not unfolded.
* **Codex threads.** A thread and its turn are named after the attempt that
  opened them; a thread is the sequence of turns it has seen. `Residue` is what
  a worker may add to a thread after Hermes' turn, the reason why a fork names
  the turn it goes through; the worker always adds it, the worst case.
* **Codex frames** are read whole. `"bad"` stands for any frame the engine
  refuses, and ends what the worker says. The `initialized` notification is part
  of initialize. A tool call of a worker is one pair of steps; how it is planned,
  allowed and executed is `ToolEffects`. A worker that dies with frames unread is
  a worker that stays silent after them, so `Die` is for an empty pipe. A write a
  worker does not read is cut by an interrupt and flushed by `shutdown`
  (`"stopping"`); a completed turn has left nothing to flush. Once stdin is closed,
  nothing the worker writes is looked at.
* **Ended attempts** of `CodexTurns` keep only their outcome. Workers share
  nothing while they run (attempts meet in the transcript, the binding and the
  committed threads), so `WorkerBound` = 1 loses no meeting of two attempts:
  loading, committing and saving still interleave freely.

## What is checked

| Run | Question | Instance and why it is enough |
|---|---|---|
| `delegation_store` | are the tables consistent under any callers, and do they implement the lifecycle? | two delegations (a reconciliation batch of two), two workers (a zombie and its successor), two claims, three timestamps (before, at and after a deadline) |
| `supervisor` | is a delegation executed once, is an agreed cancellation honoured and does it take effect, is everything settled in the end? | one delegation (see above), leases of three ticks that heartbeats renew, three cancellation tries, three crashes |
| `gateway` | is what is told durable, does it implement the store, is the transcript what was appended, do interrupts and EOF take effect? | one session, two prompts (one finishing while the next starts), one completion, another writer, one crash |
| `tool_effects` | does the ledger account for every start, was every command allowed, is the lifecycle followed, does an answer end the wait, is an interrupted plan left unresolved? | a read, two commands and a child in any batch, two attempts, every turn under the same scope as after a failure, one crash |
| `codex_turns` | is a worker given exactly the session, is its answer complete, does a binding stand for the transcript, does an interrupt end the attempt unless the worker holds a wait without a timer? | one gateway attempt and one of chat, a third process that commits without a binding, two turns in the transcript, two events overtaking any answer, one worker at a time |
| `terminal_client` | does a command start only with a key of its turn, is a turn cancelled only on request, does the view settle and never hang? | two sessions (one stored, one created), two submissions, two commands in a turn, creations and resumes that fail, keys pressed while up to one message is in the pipes |
| `provider_turn` | does the session hold what was said, is every call answered in order, does no tool run for half a reply, does a turn end unless the client leaves an approval unanswered? | two prompts (the second projects the first), two attempts, two calls, a text of one piece, any cut and any order |

Violation runs, each one property quoted from the repository:

| Run | Finding |
|---|---|
| `terminal_answer` | The overlay keeps its keys until an answer is acknowledged, and the answer names no call. A key pressed twice allows the *next* command, whose waiter is registered but whose request the client has not read (`approval.rs`, `tui/model.rs`). |
| `gateway_spurious_interrupt` | An ended turn clears its busy mark and then removes the session's interrupt sender. A prompt accepted in between loses *its* sender and is recorded interrupted though nobody asked (`gateway.rs`, the end of the spawned task). |
| `gateway_outcome_lost` | `terminate` still requires the session generation the turn started with. After another writer appended, neither failure nor interrupt can be recorded and the session refuses prompts until a restart, against `docs/foreground-turns.md`. |
| `supervisor_known_failure` | `execute_claim` fails before the turn and the job drops the error: the delegation waits for its lease and ends `outcome_unknown`, against `docs/durable-delegation.md`. |
| `tool_interrupt` | An interrupt between the registration of a waiter and the suspension of the turn is journalled as a denial by `gateway_user` and rejected, where `docs/terminal-approvals.md` promises an unresolved plan. `InterruptedWaitIsUnresolved` shows that once the turn is suspended the promise holds. |

Bounds: `GenBound`, `CrashBound`, `TranscriptBound`, `ScopeBound`,
`AttemptBound`, `ChildTurnBound`, `EventBound`, `WorkerBound`, `TextBound`,
`CallBound`, `TurnBound`, `AskBound`, `FlightBound` (no key is explored while that much is in
the pipes) and the timestamps cap counters in guards; each is named in its module. `AttemptBound` stands for `MAX_ATTEMPTS_PER_TURN`
(128) and is a real refusal of the code. `CHECK_DEADLOCK FALSE` is used where
everything can be terminal and every bounded counter used up; `tool_effects`
checks deadlock.

### Fairness

* Supervisor: strong fairness of reconcile, scan and claim, weak fairness of
  claiming or skipping something, because each may
  be interrupted by transient storage errors after which the loop sleeps and
  retries; weak fairness of the job steps, of the clock and of a restart. None
  for the execution itself, for accepting work, or for the client.
* Gateway: weak fairness of the spawned task's own steps and of the exit after
  EOF. None for the provider finishing, for errors, interrupts or prompts.
* Tool effects: weak fairness of the gateway reading its input and of the turn
  future being polled. None for the client's decision, the provider, a command
  or a child: `AnswerEndsTheWait` is about the gateway alone.
* Terminal client: weak fairness of the client reading a frame, of the
  gateway's main task and of each turn task as a whole (a turn that asks for a
  command for ever is bounded by `AskBound`, and is ended by its own step). None
  for keys: `PendingViewEnds` needs no user.
* Provider turn: weak fairness of a call of the batch ending (commands have a
  timeout, children a bounded turn), of the end of the round, and of the HTTP
  client's timeout. None for the provider, and none for the client's decision:
  a round with a terminal command first waits in `resolve_approvals`, which has
  no timeout. `TurnEnds` says that a turn ends or that wait is for ever.
* Codex turns: weak fairness of loading the binding, of looking at an interrupt
  (`await_cancellable` polls it first), of the two timers an interrupt arms, of
  `SHUTDOWN_TIMEOUT`, and of the host's transactions. None of the worker, a tool
  or another process. `shutdown` times only its wait for the process to exit;
  the flush of stdin before it and the end of stderr after it depend on the
  worker, and so does the refusal of a forbidden request, which is outside
  `await_cancellable`. `InterruptEnds` excepts exactly these (`HeldByWorker`):
  an interrupted attempt ends, or stays in one of them for ever. It ends in
  particular when the worker is silent before, during and after the two timed
  waits of an interrupt. `docs/tui-gateway.md` calls the interruption of a Codex
  worker "bounded once `turn/start` has returned"; that is so only up to the
  shutdown.
* The gateway, the terminal client and the tool effects take a dropped turn for
  ended. That is the direct engine, whose future is dropped. For a Codex turn it
  holds as far as `InterruptEnds` does: `StopsWhenAsked` and `PendingViewEnds`
  then suppose a worker that lets go.

## What is proved

`DelegationStoreProofs` proves, for every set of delegations, workers, claims,
sessions, reasons and every set of timestamps in `Nat`, that the specification implies: the
type invariant (`TypeCorrect`), outbox and row together (`OutboxAtomic`), child
transcript and `complete_child` together (`ChildTurnAtomic`), one dispatch
(`NoReplay`), reconciliation never refused (`ReconciliationTotal`), fencing
(`FencedAuthority`), one delivery (`SingleDelivery`), and that the store
implements `DelegationLifecycle` (`StoreImplementsLifecycle`).

`finish` takes any terminal, a success among them, and then the child gets no
turn; the repository's tests call it so. The store therefore promises that the
turn is there exactly when `complete_child` brought it (the history `turnless`
tells the two apart), and its lifecycle lets a success come with or without one
(`TurnsOfSuccess` = {0, 1}). The one caller there is, `finish_execution`, passes
failed and cancelled to `finish` and completes through `complete_child`: so the
supervisor implements the lifecycle with `TurnsOfSuccess` = {1}, and its child
holds a turn exactly when the delegation completed (`ChildTurnExact`).

The argument is one inductive invariant, `Inv`, of which these are
consequences. The listed properties are not inductive by themselves. Fencing
needs `AuthoritiesOK`: whatever a worker remembers, its generation is at most
the row's, and equal only for the recorded owner of a running row. Total
reconciliation needs `RowsOK`: a running row's deadline lies after its last
update, and an intent's time within the row's lifetime. Single delivery needs
`DeliveriesOK`: no claim has acknowledged an event before it is delivered, and
exactly one has afterwards. Each action preserves each part; the proof has one
lemma per action and the refinement one step per action of the abstract
specification.

`ForegroundStoreProofs` proves, for every set of sessions, attempts and
completions and every bound, the type invariant (`ForegroundTypeCorrect`), that
the transcript of a session is the turns completed in it, each at the place its
generation gave it (`TranscriptIsTurns`), and that a completion delivered is
delivered in one prompt (`OnePromptPerCompletion`). The invariant is `StoreInv`.
Its part `AttemptsOK` says that a row that is absent is empty, so starting a
turn overwrites nothing, and that a row in use has a generation of at least
one, so the place in the transcript it names exists.

`GatewayProofs` proves first that every step of the gateway process is a step
of that store or leaves it alone (`GatewayUsesStore`). So `StoreInv` and
`TranscriptMatchesTurns` carry over (`GatewayTranscript`), and so does
`RowsKept`, that a terminal row never changes. From these follow
the type invariant (`GatewayTypeCorrect`), that a client is told only what
the database says or that nothing could be persisted (`ToldIsDurable`), and
that a session is marked busy exactly while it is served (`BusyIsExact`). The
last needs `OneWorker`, `BusyIsServed` and `RunningIsServed`: at most one of the
main task and the turn tasks works on a session, and precisely while it is
busy. `ToldIsDurable` needs `TasksOK`: a task past its terminal carries a result
that equals its row, or "not persisted".

`BackgroundSupervisorProofs` proves, for any set of delegations that share the
loop and the gateway task, any lease, number of tries and number of crashes, the
type invariant (`SupervisorTypeCorrect`), that a child is started at most once
(`AtMostOneExecution`), and that a cancellation the client was promised is never
overtaken (`PromisedCancelKept`). Two facts carry them. Rows only advance: a row
that left the queue never comes back, and `Promised` (cancelled, or running with
the request on record) is kept by every writer of the row; the gateway task only
signals what is `Promised` (`RequestOK`), also when it found the request there
already. And a start has one place in a delegation's life (`StartOK`): while it is
queued, being registered or about to be loaded, it was not started, and it has no
task until the loop registers one, so the task that survives a lost lease can
never meet a second claim. `SupervisorImplementsLifecycle` shows that the process
implements `DelegationLifecycle`, as the store does under arbitrary callers: what
each action does to a row and to the child's turns is one of seven moves
(`Moves`), and each move is a step of the abstract specification or none. It needs
that a child holds a turn exactly when its delegation completed, which the same
moves keep (`ChildTurnExact`).

`ToolEffectsProofs` proves, for any calls, any batches and any number of attempts,
scopes and crashes, that an invocation is started at most once
(`ToolTypeCorrect`), that the ledger tells the truth (`LedgerIsTrue`), that a
command runs only after the client allowed that very call (`CommandsAllowed`),
that a wait that is interrupted leaves its plan unresolved
(`InterruptedPlanStays`), and that the module implements `EffectLifecycle`
(`EffectsFollowLifecycle`). The invariant `IInv` relates every row of the current
batch to the phase of the turn (`BatchOK`): as it was planned until the decision is
journalled, with the decision from then on, started exactly as often as its
outcome says. `CommandsAllowed` is the delicate one, as the answer on the wire
names no call. It needs that the registry holds only the call the turn waits for
(`WaiterOK`), that the request shown is of that call unless the turn was
interrupted or is over (`OverlayOK`), and that no answer is on its way when the
next call is registered (`AnswerOK`). That last part rests on the client of this
module answering once; `TerminalClient` shows what is left without it.

`CodexTurnsProofs` proves, for any attempts of any hosts, any number of workers
alive at once (the run has one) and any transcript, the type invariant
(`CodexTypeCorrect`), that the thread of a saved binding is the transcript at its
generation (`BindingIsSession`), that a worker reasons about exactly the session
its attempt was started on (`ContextIsSession`), that a turn that was not
committed leaves no trace (`NothingUncommitted`), and that a committed answer is all
the worker said (`AnswerIsWhole`). The invariant, `Inv`, is about
places. Once a turn began, its thread agrees with the transcript below the
attempt's generation and has that turn there and nowhere else (`ThreadOK`); a
committed turn stands in the transcript at the generation its attempt started
from (`CommitOK`); a row names a completed attempt and the generation after its
own (`RowOK`), and so does the row an attempt was given (`FromOK`). Hence a fork
through the named turn is the transcript again, however much of the thread the
worker went on with. That the turn begins in a thread that was opened needs the
protocol: an answer stands for one request (`AnswersOK`), so the engine is at
`"start"` only after the reply to `"open"` (`OpenOK`). `AnswerIsWhole` counts
(`AnswersInv`): while a turn runs, the texts heard, those buffered because they
overtook an answer and those still in the pipe add up to the texts said
(`Balanced`), and the end of the turn stands last, in the buffer or in the pipe;
so when the engine reads it there is nothing left to hear.

`ProviderTurnProofs` proves, for any calls, any number of calls in a reply, any
text, any number of attempts and prompts, the type invariant
(`ProviderTypeCorrect`), that the session holds what the provider said
(`SessionIsWhatWasSaid`), that a request carries the results of all calls in the
model's order (`CallsAreAnswered`), and that no tool runs for half a reply
(`WholeRepliesAreActedOn`). The heart is about operators. `project_conversation`
flattens a list and `semanticize` folds one; both are shown to proceed one message
at a time (`ProjectAppend`, `SemanticizeAppend`), by induction over the naturals
taken as the well-foundedness of `<` (`Induction`, a statement about sets, so that
the provers can instantiate it). A conversation is `Faithful` when its projection
reads back as itself, answers every call, and `Conversation::new` accepts it. `Plain`
and `Round` show that a prompt, an answer and a round of tools keep it so: the results
of a round, one message each for the provider, become one batch again
(`ResultsAreGrouped`), which is where the projection could lose a boundary. The
invariant `IInv` then says that the session is faithful, that what is asked is the
projection of the session and of what the turn said since (`Asks`), that the
accumulators hold what was sent and no more (`Gathered`, `Ended`), and that a round
stands between its calls and their results (`InRound`). That each call of a finished
round finds its terminal is a pigeonhole: as many ended as there are, all different
(`OrderedIsBatch`).

`TerminalClientProofs` proves, for any number of sessions, submissions and commands
and pipes of any length, the type invariant (`TypeCorrect`), that commands start only
with a key of their turn (`ConsentHolds`), that a turn is cancelled only when an
interrupt was pressed for it or the input ended (`InterruptsAreAsked`), and that a
client that has read everything shows what is (`ViewIsTrue`). No message names a turn,
so the invariant, `CycleInv`, counts: a submission is in the input, being served, in
the output, running, or its end is under way, one at a time (`OneAtATime`), and so is
a request for another screen (`Navigating`); what a session holds in the gateway is
of the turn on screen (`Held`, `OnScreen`); an interrupt in the input was pressed for
that turn (`Stopping`); an answer in the input is of a turn whose end was not read, or
the reload that follows the end is behind it (`AnswersInTime`); and the keys pressed cover the answers under way and the
commands started (`Consent`).

The last three of these theorems have the hypothesis `NoKeyRefused`: neither
`approval.respond` nor `session.interrupt` is answered with an error. The gateway
refuses them when the store cannot load the session (`cli/gateway.rs`,
`interrupt_session`). The reducer takes any error for the end of its submission, so the
user may submit again while the first turn runs, and each of the three properties then
fails: with `Failing = {"interrupt"}` TLC finds a turn that is cancelled by an
interrupt pressed for another. Lists, creations, resumptions and submissions may all
be refused in the theorems; in the run creations and resumptions are. With
`"submit"` in `Failing`, TLC finds `PendingViewEnds` violated: an interrupt pressed for
a submission that was refused is acknowledged after the next submission began, and
that turn is shown as being interrupted until it ends. The safety theorems allow this
refusal, the liveness run leaves it out.

The other assumptions are those named in the modules: constants are sets of values
apart from each other, bounds are naturals. No proof assumes fairness.

## What is only model-checked

* Liveness everywhere: `WorkIsSettled` and `CancellationTakesEffect` in
  `supervisor`, `StopsWhenAsked` in `gateway`, `AnswerEndsTheWait` in
  `tool_effects`, `InterruptEnds` in `codex_turns`, `PendingViewEnds` in
  `terminal_client`, `TurnEnds` in `provider_turn`. Fairness and ENABLED are
  outside what TLAPS proves here.

Every invariant, every action property and every refinement the runs check is a
theorem as well.

Conversely no run checks `NoReplay`, `ForegroundTypeCorrect`,
`OnePromptPerCompletion`, the supervisor's `ChildTurnIffCompleted` and its
`ImplementsLifecycle`: they are proved.

## What is not modelled

* `contracts.rs`, a sequential replay of recorded fixtures.
* Of the provider: URL and header checks, the decoding of JSON, usage totals,
  events after a terminal one and fallback policies, which only the scripted
  providers of the tests exercise.
* Of the terminal client: rendering, the editing of a draft, scrolling, frames
  that only add text, and the kill of a gateway that outlives its input.
* Rendering, command line parsing, the settings a session is opened with, the
  encoding of messages, the read-only gateway methods.
* The turn of a child agent that runs inside its parent's.
* Clocks of the foreground store: `start_with_deliveries` and `terminate`
  refuse a clock that went backwards; the models have none there.
* The contents of Codex' authority manifest and the frame codec. A partial frame
  lost when an interrupt drops `next_event`: the engine reads on in the same
  stream for the interrupt's answer, and a frame cut in two is a "bad" one.
* Retention of threads by the Codex worker. A fork refused because the worker
  no longer has the thread fails that turn, and the next ones too until the
  session's generation moves: in the model a refusal may happen to any attempt.
* The binding branch at the end of the background `finish_execution`, which
  reads the session's generation again after the commit. No background child
  is a Codex session (`docs/tui-gateway.md`), so it cannot be reached.

## Plan

Done, in this order: the delegation store with its lifecycle and proofs; the
supervisor over it; the foreground store with proofs; the gateway over it with
proofs; tool effects with their lifecycle; Codex turns; the terminal client
composed with the gateway's approvals; the direct provider's turn; the safety
proofs of the supervisor, of the tool effects and of the Codex turns; that the
supervisor implements the delegation lifecycle and the tool effects theirs; the
completeness of a Codex answer; the safety proofs of the terminal client and of the
direct provider's turn.

Next:

1. What the client shows after a refused interrupt or answer: the weaker properties
   that hold without `NoKeyRefused`.
2. Child turns inside their parent's scope, and the clocks of the foreground
   models.

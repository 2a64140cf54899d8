---------------------------- MODULE ProviderTurn ----------------------------
(* A turn of the direct engine: the provider's reply arrives over HTTP in  *)
(* pieces, the adapter turns pieces into events, the turn loop assembles   *)
(* them, acts on the tool calls, asks again with their results, and hands  *)
(* a finished turn to the session store.  The stored session is projected  *)
(* into the next turn's request.                                           *)
(*                                                                         *)
(* A text is the number of its pieces, and a call two fragments: its head  *)
(* and its arguments, which are empty without the second.  The adapter's   *)
(* stream is pulled by the loop: a piece is taken, decoded and applied in  *)
(* one poll, and the turn is suspended only between two of them.  What     *)
(* happens to an effect inside a round of tools is in ToolEffects, and the *)
(* second writer of a session in ForegroundStore.                          *)
EXTENDS Integers, Sequences, FiniteSets, Functions, SequencesExt

CONSTANTS
  CallId,
  NoCall,
  TextBound,      \* the pieces of a text
  CallBound,      \* the calls of a reply
  AttemptBound,   \* MAX_ATTEMPTS_PER_TURN
  TurnBound       \* the prompts explored

ASSUME ProviderAssumption ==
  /\ NoCall \notin CallId
  /\ TextBound \in Nat
  /\ CallBound \in Nat
  /\ AttemptBound \in Nat \ {0}
  /\ TurnBound \in Nat

Index == 0 .. CallBound - 1     \* ChunkToolCall.index
Whole == 2          \* the fragments of a call
Reason == {"stop", "tool_calls", "length"}

VARIABLES
  transcript,   \* durable: session_messages
  pc,           \* "idle", or what the turn is suspended on
  turn,         \* the prompts submitted
  attempts,     \* attempt_count
  messages,     \* raw_messages
  seen,         \* ToolHost.seen_invocation_ids
  attempt,      \* the accumulators of the attempt
  completed,    \* the calls of the batch that ended, in that order
  reply,        \* the provider: what it means to answer
  sent,         \* the provider: what of it was sent
  story,        \* history: what the provider sent in this turn
  record        \* history: the turns the provider ended with "stop"

loop == <<turn, attempts, messages, seen, attempt, completed>>
provider == <<reply, sent>>
history == <<story, record>>
vars == <<transcript, pc, loop, provider, history>>

Partial == [id : CallId \union {NoCall}, arguments : BOOLEAN]
PartialCalls == UNION {[I -> Partial] : I \in SUBSET Index}
Attempt == [text : 0 .. TextBound, calls : PartialCalls,
            finish : Reason \union {"none"}]
NewAttempt == [text |-> 0, calls |-> <<>>, finish |-> "none"]

Reply == [text : 0 .. TextBound,
          calls : UNION {[I -> CallId] : I \in SUBSET Index}]
NoReply == [text |-> 0, calls |-> <<>>]

Sent == [text : 0 .. TextBound, pieces : [Index -> 0 .. Whole]]
NothingSent == [text |-> 0, pieces |-> [i \in Index |-> 0]]

EverythingSent ==
  /\ sent.text = reply.text
  /\ \A i \in DOMAIN reply.calls : sent.pieces[i] = Whole

-----------------------------------------------------------------------------
(* Messages: user, assistant and tool go to the provider; user, assistant, *)
(* request and results are stored.                                         *)

ToolCall == [id : CallId, arguments : BOOLEAN]
IdsOf(calls) == [k \in DOMAIN calls |-> calls[k].id]

User(prompt) == [kind |-> "user", text |-> prompt, calls |-> <<>>, ids |-> <<>>]
Assistant(text) ==
  [kind |-> "assistant", text |-> text, calls |-> <<>>, ids |-> <<>>]
WithCalls(text, calls) ==
  [kind |-> "assistant", text |-> text, calls |-> calls, ids |-> <<>>]
Tool(id) == [kind |-> "tool", text |-> 0, calls |-> <<>>, ids |-> <<id>>]
Request(text, calls) ==
  [kind |-> "request", text |-> text, calls |-> calls, ids |-> <<>>]
Results(ids) == [kind |-> "results", text |-> 0, calls |-> <<>>, ids |-> ids]

ToProvider(message) ==
  CASE message.kind = "request" -> <<WithCalls(message.text, message.calls)>>
    [] message.kind = "results" ->
         [k \in DOMAIN message.ids |-> Tool(message.ids[k])]
    [] OTHER -> <<message>>

project_conversation(conversation) ==
  FlattenSeq([k \in DOMAIN conversation |-> ToProvider(conversation[k])])

\* Adjacent tool results become one batch.
Grouped(semantic, message) ==
  IF message.kind = "tool"
  THEN IF semantic # <<>> /\ Last(semantic).kind = "results"
       THEN Append(Front(semantic), Results(Last(semantic).ids \o message.ids))
       ELSE Append(semantic, Results(message.ids))
  ELSE IF message.calls # <<>>
       THEN Append(semantic, Request(message.text, message.calls))
       ELSE Append(semantic, message)

semanticize(provider_messages) == FoldLeft(Grouped, <<>>, provider_messages)

Begins(message) == message.kind = "user"

\* What may stand after a message of the conversation.
Follows(next, message) ==
  CASE message.kind \in {"user", "results"} ->
         next.kind \in {"assistant", "request"}
    [] message.kind = "request" ->
         next.kind = "results" /\ next.ids = IdsOf(message.calls)
    [] OTHER -> Begins(next)

\* Conversation::new
ValidConversation(conversation) ==
  conversation # <<>> =>
    /\ Begins(Head(conversation))
    /\ Last(conversation).kind # "request"
    /\ \A k \in 1 .. Len(conversation) - 1 :
         Follows(conversation[k + 1], conversation[k])
    /\ \A k \in DOMAIN conversation :
         IsInjective(IdsOf(conversation[k].calls))

-----------------------------------------------------------------------------
Init ==
  /\ transcript = <<>>
  /\ pc = "idle"
  /\ turn = 0
  /\ attempts = 0
  /\ messages = <<>>
  /\ seen = {}
  /\ attempt = NewAttempt
  /\ completed = <<>>
  /\ reply = NoReply
  /\ sent = NothingSent
  /\ story = <<>>
  /\ record = <<>>

\* The execution returned or was dropped, and with it all it had gathered.
Return ==
  /\ pc' = "idle"
  /\ attempts' = 0
  /\ messages' = <<>>
  /\ seen' = {}
  /\ attempt' = NewAttempt
  /\ completed' = <<>>
  /\ reply' = NoReply
  /\ sent' = NothingSent
  /\ story' = <<>>
  /\ UNCHANGED turn

\* An error of the loop, or an outcome that is not a completed response.
Fail == Return /\ UNCHANGED <<transcript, record>>

StartTurn ==
  /\ pc = "idle"
  /\ turn < TurnBound
  /\ ValidConversation(transcript)
  /\ pc' = "request"
  /\ turn' = turn + 1
  /\ messages' = Append(project_conversation(transcript), User(turn + 1))
  /\ story' = <<User(turn + 1)>>
  /\ UNCHANGED <<transcript, attempts, seen, attempt, completed, provider,
                 record>>

\* Seeded fault: the accumulators are the turn's, not the attempt's.
OpenStreamKeeping ==
  /\ pc = "request"
  /\ attempts < AttemptBound
  /\ pc' = "stream"
  /\ attempts' = attempts + 1
  /\ attempt' = [attempt EXCEPT !.calls = <<>>, !.finish = "none"]
  /\ reply' \in Reply
  /\ sent' = NothingSent
  /\ UNCHANGED <<transcript, turn, messages, seen, completed, history>>

\* The request is answered by a stream.  What the provider means to say is
\* anything, with indexes that leave a gap and identifiers used before too.
OpenStream ==
  /\ pc = "request"
  /\ attempts < AttemptBound
  /\ pc' = "stream"
  /\ attempts' = attempts + 1
  /\ attempt' = NewAttempt
  /\ reply' \in Reply
  /\ sent' = NothingSent
  /\ UNCHANGED <<transcript, turn, messages, seen, completed, history>>

\* The provider did not answer, or not with a success; or the budget is used.
RequestFails ==
  /\ pc = "request"
  /\ Fail

-----------------------------------------------------------------------------
(* Pieces. *)

Streaming == pc = "stream"

ReadText ==
  /\ Streaming
  /\ attempt.finish = "none"
  /\ sent.text < reply.text
  /\ sent' = [sent EXCEPT !.text = @ + 1]
  /\ attempt' = [attempt EXCEPT !.text = @ + 1]
  /\ UNCHANGED <<transcript, pc, turn, attempts, messages, seen, completed,
                 reply, history>>

PartialOf(i) ==
  IF i \in DOMAIN attempt.calls THEN attempt.calls[i]
  ELSE [id |-> NoCall, arguments |-> FALSE]

\* merge_stable_fragment: what was said once may only be repeated.
Stable(known, said) == known = NoCall \/ said \in {NoCall, known}
Merged(known, said) == IF said = NoCall THEN known ELSE said

\* The fragment of a call names it or not: the id and the name of a call are
\* treated alike and are one here.  Another call's name may slip in.
ReadFragment(i, said) ==
  /\ Streaming
  /\ attempt.finish = "none"
  /\ i \in DOMAIN reply.calls
  /\ sent.pieces[i] < Whole
  /\ said \in {NoCall, reply.calls[i]} \/ PartialOf(i).id # NoCall
  /\ IF Stable(PartialOf(i).id, said)
     THEN /\ sent' = [sent EXCEPT !.pieces[i] = @ + 1]
          /\ attempt' = [attempt EXCEPT !.calls =
               [j \in DOMAIN @ \union {i} |->
                  IF j # i THEN @[j]
                  ELSE [id |-> Merged(PartialOf(i).id, said),
                        arguments |-> sent.pieces[i] = Whole - 1]]]
          /\ UNCHANGED <<transcript, pc, turn, attempts, messages, seen,
                         completed, reply, history>>
     ELSE Fail

\* A token limit may end a reply anywhere, the other reasons end it whole.
ReadFinish(reason) ==
  /\ Streaming
  /\ attempt.finish = "none"
  /\ reason = "length" \/ EverythingSent
  /\ attempt' = [attempt EXCEPT !.finish = reason]
  /\ UNCHANGED <<transcript, pc, turn, attempts, messages, seen, completed,
                 provider, history>>

\* Not an event stream, not JSON, an error, more than one choice, anything
\* but usage after the finish reason; the connection is lost.  A call cut
\* inside its arguments fails the same way when the stream is complete.
ReadFailure ==
  /\ Streaming
  /\ Fail

-----------------------------------------------------------------------------
(* The end of a stream. *)

Finishable(calls) ==
  /\ DOMAIN calls = 0 .. Cardinality(DOMAIN calls) - 1
  /\ \A i \in DOMAIN calls : calls[i].id # NoCall

finish_tool_calls(calls) ==
  [k \in 1 .. Cardinality(DOMAIN calls) |-> calls[k - 1]]

\* allocate_invocation_ids
Allocatable(calls) ==
  IsInjective(IdsOf(calls)) /\ Range(IdsOf(calls)) \cap seen = {}

\* What the provider itself sent, whatever was made of it.
SentCalls ==
  [k \in 1 .. Cardinality({i \in Index : sent.pieces[i] > 0}) |->
     [id |-> reply.calls[k - 1], arguments |-> sent.pieces[k - 1] = Whole]]

\* A round with a terminal command waits for the client before it begins.
ActOn(calls) ==
  IF Allocatable(calls)
  THEN /\ pc' \in {"approval", "tools"}
       /\ messages' = Append(messages, WithCalls(attempt.text, calls))
       /\ seen' = seen \union Range(IdsOf(calls))
       /\ completed' = <<>>
       /\ story' = story \o <<Request(sent.text, SentCalls),
                              Results(IdsOf(SentCalls))>>
       /\ UNCHANGED <<transcript, turn, attempts, attempt, provider, record>>
  ELSE Fail

\* Seeded fault: the durable prefix is measured in provider messages.
AppendedByProviderLength(semantic) ==
  SubSeq(semantic, Len(project_conversation(transcript)) + 1, Len(semantic))

Appended(semantic) == SubSeq(semantic, Len(transcript) + 1, Len(semantic))

\* append_turn_in_transaction
Appendable(turn_messages) ==
  /\ turn_messages # <<>>
  /\ Begins(Head(turn_messages))
  /\ Last(turn_messages).kind = "assistant"
  /\ ValidConversation(transcript \o turn_messages)

\* The loop ends, and what it returns is appended to the session; the store
\* is asked in the same step, for the turn is not suspended again.
Answer(reason) ==
  LET semantic == semanticize(Append(messages, Assistant(attempt.text))) IN
  /\ Return
  /\ transcript' =
       IF /\ reason = "stop"
          /\ ValidConversation(semantic)
          /\ Appendable(Appended(semantic))
       THEN transcript \o Appended(semantic)
       ELSE transcript
  /\ record' =
       IF reason = "stop" /\ EverythingSent /\ reply.calls = <<>>
       THEN record \o Append(story, Assistant(reply.text))
       ELSE record

Complete(reason) ==
  IF attempt.calls = <<>> THEN Answer(reason)
  ELSE IF Finishable(attempt.calls)
       THEN ActOn(finish_tool_calls(attempt.calls))
       ELSE Fail

\* The last line of a reply; some providers give no reason before it.
ReadDone ==
  /\ Streaming
  /\ attempt.finish # "none" \/ EverythingSent
  /\ Complete(IF attempt.finish = "none" THEN "stop" ELSE attempt.finish)

\* Seeded fault: a stream that ends is a stream that is complete.
EndOfStreamCompletes ==
  /\ Streaming
  /\ Complete(IF attempt.finish = "none" THEN "stop" ELSE attempt.finish)

\* The body ends without that line, in time or before it.
EndOfStream ==
  /\ Streaming
  /\ IF attempt.finish = "none" THEN Fail ELSE Complete(attempt.finish)

-----------------------------------------------------------------------------
(* The tool round. *)

Batch == IdsOf(Last(messages).calls)

\* resolve_approvals: the client allows the command, or denies it.
Decide ==
  /\ pc = "approval"
  /\ pc' = "tools"
  /\ UNCHANGED <<transcript, turn, attempts, messages, seen, attempt,
                 completed, provider, history>>

ToolEnds(c) ==
  /\ pc = "tools"
  /\ c \in Range(Batch) \ Range(completed)
  /\ completed' = Append(completed, c)
  /\ UNCHANGED <<transcript, pc, turn, attempts, messages, seen, attempt,
                 provider, history>>

\* Seeded fault: the results are sent in the order the calls ended in.
OrderOfCompletion == completed

\* The terminals come in the order the calls ended; each call of the batch
\* looks its own up.
Ordered ==
  [k \in DOMAIN Batch |->
     completed[CHOOSE j \in DOMAIN completed : completed[j] = Batch[k]]]

RoundEnds ==
  /\ pc = "tools"
  /\ Len(completed) = Len(Batch)
  /\ pc' = "request"
  /\ messages' =
       messages \o [k \in DOMAIN Ordered |-> Tool(Ordered[k])]
  /\ completed' = <<>>
  /\ UNCHANGED <<transcript, turn, attempts, seen, attempt, provider, history>>

\* A broker or the ledger refuses the plan or the batch.
RoundFails ==
  /\ pc \in {"approval", "tools"}
  /\ Fail

-----------------------------------------------------------------------------
\* Seeded fault: only the wait for the response is timed.
TimeOutConnecting ==
  /\ pc = "request"
  /\ Fail

\* The client's timeout runs until the body is read.
TimeOut ==
  /\ pc \in {"request", "stream"}
  /\ Fail

\* session.interrupt, or the end of the gateway's input.
Interrupt ==
  /\ pc # "idle"
  /\ Fail

ReadPiece ==
  \/ ReadText
  \/ \E i \in Index, said \in CallId \union {NoCall} : ReadFragment(i, said)
  \/ \E reason \in Reason : ReadFinish(reason)
  \/ ReadFailure
  \/ ReadDone
  \/ EndOfStream

Next ==
  \/ StartTurn
  \/ OpenStream
  \/ RequestFails
  \/ ReadPiece
  \/ Decide
  \/ \E c \in CallId : ToolEnds(c)
  \/ RoundEnds
  \/ RoundFails
  \/ TimeOut
  \/ Interrupt

Spec == Init /\ [][Next]_vars

(* A command has a timeout and a child agent a bounded turn, so tools end  *)
(* once they run; the provider may stay silent for ever, and the timeout   *)
(* ends that.  Nothing bounds the wait for the client's decision.          *)
FairSpec ==
  /\ Spec
  /\ WF_vars(\E c \in CallId : ToolEnds(c))
  /\ WF_vars(RoundEnds)
  /\ WF_vars(TimeOut)

-----------------------------------------------------------------------------
Message == [kind : {"user", "assistant", "tool", "request", "results"},
            text : 0 .. TextBound + TurnBound,
            calls : Seq(ToolCall), ids : Seq(CallId)]

TypeOK ==
  /\ transcript \in Seq(Message)
  /\ pc \in {"idle", "request", "stream", "approval", "tools"}
  /\ turn \in 0 .. TurnBound
  /\ attempts \in 0 .. AttemptBound
  /\ messages \in Seq(Message)
  /\ seen \subseteq CallId
  /\ attempt \in Attempt
  /\ completed \in Seq(CallId)
  /\ reply \in Reply
  /\ sent \in Sent
  /\ story \in Seq(Message)
  /\ record \in Seq(Message)

(* The session holds exactly the turns the provider ended with "stop" and  *)
(* said in full, each as it was sent: through fragments, rounds of tools   *)
(* that end in any order, the projection of the history and back, the cut  *)
(* at the durable prefix and the checks of the store, none of which may    *)
(* refuse such a turn.                                                     *)
TranscriptIsWhatWasSaid == transcript = record

(* Whenever the provider is asked, every request for tools in the messages *)
(* is followed by the results of its calls, all of them and in its order   *)
(* ("project result batches in original model call order").                *)
EveryCallIsAnswered ==
  pc = "request" =>
    \A k \in DOMAIN messages :
      LET ids == IdsOf(messages[k].calls) IN
      /\ k + Len(ids) <= Len(messages)
      /\ \A j \in DOMAIN ids : messages[k + j] = Tool(ids[j])

(* No tool is run, nor put to the client, for a reply that was cut short:  *)
(* the calls acted on are all the calls of the reply with all their        *)
(* arguments.  (A reply that the provider itself ends at its token limit   *)
(* is acted on as it is.)                                                  *)
ActsOnWholeReplies ==
  pc \in {"approval", "tools"} /\ attempt.finish # "length" =>
    /\ EverythingSent
    /\ Len(Batch) = Cardinality(DOMAIN reply.calls)

(* A turn ends, whatever the provider does or omits: each attempt is timed *)
(* and their number is bounded.  Only the client can hold it for ever, by  *)
(* leaving a request for its approval unanswered.                          *)
TurnEnds == (pc # "idle" ~> pc = "idle") \/ <>[](pc = "approval")
=============================================================================

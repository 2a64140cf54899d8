-------------------------- MODULE CodexTurnsProofs --------------------------
(***************************************************************************)
(* Proofs about the Codex turns of a session, for any attempts of any      *)
(* hosts, any number of workers alive at once, and any transcript.         *)
(*                                                                         *)
(* The argument is about positions. An attempt that began its turn has a   *)
(* thread that agrees with the transcript below the generation it started  *)
(* from and has its own turn there, and nowhere else. If it commits, its   *)
(* turn stands at that very place of the transcript, so a later attempt    *)
(* that forks the thread through the turn is given the transcript again.   *)
(* The rest is protocol: the thread was opened before the turn is asked    *)
(* for, because one answer stands for one request.                         *)
(*                                                                         *)
(* A second invariant counts: the texts heard, buffered and in the pipe    *)
(* are those the worker said, and none of them follows the end of the turn.*)
(***************************************************************************)
EXTENDS CodexTurns, SequenceTheorems, FiniteSetTheorems, TLAPS

Base(t) == attempt[t].base
From(t) == attempt[t].from

\* Where an attempt stands that holds no worker and has committed nothing.
Idle == {"new", "load", "failed", "interrupted", "crashed"}
Committed == {"save", "completed"}
Answers == {"reply", "refusal", "notRunning"}

Says(queue, frames) == \E i \in DOMAIN queue : queue[i] \in frames

OneAnswer(queue) ==
    \A i, j \in DOMAIN queue : queue[i] \in Answers /\ queue[j] \in Answers => i = j

BaseOK(t) ==
    /\ Base(t) <= Generation
    /\ At(t) \notin Idle => Base(t) >= 1
    /\ At(t) = "load" => Base(t) >= 1

\* A turn is in the transcript at the place its attempt started from.
CommitOK(t) ==
    /\ \A i \in DOMAIN transcript : transcript[i] = t => At(t) \in Committed \cup {"crashed"}
    /\ At(t) \in Committed => Base(t) \in DOMAIN transcript /\ transcript[Base(t)] = t

\* A row was saved by a completed attempt, one generation after its own.
RowOK(row) ==
    row # NoBinding => At(row.turn) = "completed" /\ Base(row.turn) + 1 = row.generation

FromOK(t) ==
    /\ RowOK(From(t))
    /\ From(t) # NoBinding => From(t).generation = Base(t)
    /\ At(t) \in Idle => From(t) = NoBinding

\* The life of the worker, and how far it is in its turn.
WorkerOK(t) ==
    /\ worker[t].said <= worker[t].emitted
    /\ At(t) \in Idle => worker[t] = NoWorker /\ stdout[t] = <<>> /\ buffered[t] = <<>>
    /\ worker[t].up => Supervising(t)
    /\ At(t) \in {"initialize", "config", "open"} => worker[t].turn = "none"
    /\ worker[t].asked \in {"initialize", "config", "open"} => worker[t].turn = "none"

\* One answer stands for one request.
AnswersOK(t) ==
    /\ worker[t].asked # "nothing" => ~Says(stdout[t], Answers)
    /\ OneAnswer(stdout[t])
    /\ At(t) \in StartUp => worker[t].asked \in {"nothing", At(t)}
    /\ At(t) \in {"running", "tool"} => worker[t].asked = "nothing" /\ ~Says(stdout[t], Answers)

\* A thread that was opened, and has not begun its turn, is empty or holds
\* the transcript.
Fresh(t) ==
    IF From(t) = NoBinding THEN thread[t] = <<>>
    ELSE Len(thread[t]) = Base(t) - 1 /\ \A i \in 1..Base(t) - 1 : thread[t][i] = transcript[i]

OpenOK(t) ==
    /\ At(t) = "open" /\ Says(stdout[t], {"reply"}) => Fresh(t)
    /\ worker[t].asked = "start" /\ worker[t].turn = "none" => Fresh(t)

\* Where the turn of an attempt stands in its thread.
ThreadOK(t) ==
    worker[t].turn # "none" =>
        /\ Base(t) \in DOMAIN thread[t] /\ thread[t][Base(t)] = t
        /\ \A i \in 1..Base(t) - 1 : thread[t][i] = transcript[i]
        /\ \A i \in DOMAIN thread[t] : thread[t][i] = t => i = Base(t)

\* An attempt is closed only after the end of its turn.
DoneOK(t) ==
    /\ At(t) \in {"closing", "closeStderr", "commit"} \cup Committed => worker[t].turn = "ended"
    /\ Says(stdout[t], {"completed"}) \/ Says(buffered[t], {"completed"}) =>
           worker[t].turn = "ended"

\* Whose turns a thread may hold.
TraceOK(t) ==
    \A i \in DOMAIN thread[t] :
        \/ thread[t][i] \in {t, Residue}
        \/ \E j \in DOMAIN transcript : transcript[j] = thread[t][i]

AttemptOK(t) ==
    /\ BaseOK(t)
    /\ CommitOK(t)
    /\ FromOK(t)
    /\ WorkerOK(t)
    /\ AnswersOK(t)
    /\ OpenOK(t)
    /\ ThreadOK(t)
    /\ DoneOK(t)
    /\ TraceOK(t)

Inv ==
    /\ TypeOK
    /\ RowOK(binding)
    /\ \A t \in Attempt : AttemptOK(t)
-----------------------------------------------------------------------------
(* Queues and sequences. *)

LEMMA TailOf ==
  ASSUME NEW S, NEW q \in Seq(S), q # <<>>
  PROVE  /\ Tail(q) \in Seq(S) /\ Head(q) = q[1] /\ 1 \in DOMAIN q
         /\ \A i \in DOMAIN Tail(q) : i + 1 \in DOMAIN q /\ Tail(q)[i] = q[i + 1]
  OBVIOUS

LEMMA AppendOf ==
  ASSUME NEW S, NEW q \in Seq(S), NEW e \in S
  PROVE  /\ Append(q, e) \in Seq(S) /\ Len(Append(q, e)) = Len(q) + 1
         /\ DOMAIN Append(q, e) = 1 .. Len(q) + 1 /\ DOMAIN q = 1 .. Len(q)
         /\ \A i \in DOMAIN q : Append(q, e)[i] = q[i]
         /\ Append(q, e)[Len(q) + 1] = e
  OBVIOUS

LEMMA TailSays ==
  ASSUME NEW S, NEW q \in Seq(S), q # <<>>
  PROVE  /\ Tail(q) \in Seq(S) /\ Head(q) \in S
         /\ \A F : Says(Tail(q), F) => Says(q, F)
         /\ \A F : Head(q) \in F => Says(q, F)
         /\ OneAnswer(q) => OneAnswer(Tail(q))
         /\ OneAnswer(q) /\ Head(q) \in Answers => ~Says(Tail(q), Answers)
<1>1. /\ Tail(q) \in Seq(S) /\ Head(q) = q[1] /\ 1 \in DOMAIN q
      /\ \A i \in DOMAIN Tail(q) : i + 1 \in DOMAIN q /\ Tail(q)[i] = q[i + 1]
  BY TailOf
<1>2. DOMAIN q \subseteq Nat \ {0} /\ DOMAIN Tail(q) \subseteq Nat \ {0} /\ q[1] \in S
  BY <1>1
<1>3. /\ \A F : Says(Tail(q), F) => Says(q, F)
      /\ \A F : Head(q) \in F => Says(q, F)
  BY <1>1 DEF Says
<1>4. OneAnswer(q) => OneAnswer(Tail(q))
  BY <1>1, <1>2 DEF OneAnswer
<1>5. OneAnswer(q) /\ Head(q) \in Answers => ~Says(Tail(q), Answers)
  BY <1>1, <1>2 DEF OneAnswer, Says
<1> QED
  BY <1>1, <1>2, <1>3, <1>4, <1>5

LEMMA AppendSays ==
  ASSUME NEW S, NEW q \in Seq(S), NEW e \in S
  PROVE  /\ Append(q, e) \in Seq(S)
         /\ \A F : Says(Append(q, e), F) => Says(q, F) \/ e \in F
         /\ OneAnswer(q) /\ e \notin Answers => OneAnswer(Append(q, e))
         /\ ~Says(q, Answers) => OneAnswer(Append(q, e))
<1>1. /\ Append(q, e) \in Seq(S) /\ DOMAIN Append(q, e) = DOMAIN q \cup {Len(q) + 1}
      /\ \A i \in DOMAIN q : Append(q, e)[i] = q[i]
      /\ Append(q, e)[Len(q) + 1] = e
  BY AppendOf
<1>2. \A F : Says(Append(q, e), F) => Says(q, F) \/ e \in F
  BY <1>1 DEF Says
<1>3. OneAnswer(q) /\ e \notin Answers => OneAnswer(Append(q, e))
  BY <1>1 DEF OneAnswer
<1>4. ~Says(q, Answers) => OneAnswer(Append(q, e))
  BY <1>1 DEF OneAnswer, Says
<1> QED
  BY <1>1, <1>2, <1>3, <1>4

LEMMA EmptySays == (\A F : ~Says(<<>>, F)) /\ OneAnswer(<<>>)
  BY DEF Says, OneAnswer

\* What was buffered comes before what is still in the pipe.
LEMMA FrontOf ==
  ASSUME NEW S, NEW b \in Seq(S), NEW s \in Seq(S)
  PROVE  /\ b = <<>> => b \o s = s
         /\ b # <<>> => b \o s # <<>> /\ Head(b \o s) = Head(b)
<1>1. b = <<>> => b \o s = s
  BY ConcatEmptySeq
<1>2. ASSUME b # <<>> PROVE b \o s # <<>> /\ Head(b \o s) = Head(b)
  <2>1. Len(b) >= 1 /\ Len(b \o s) = Len(b) + Len(s) /\ (b \o s)[1] = b[1] /\ b \o s \in Seq(S)
    BY <1>2, ConcatProperties, EmptySeq
  <2> QED
    BY <1>2, <2>1
<1> QED
  BY <1>1, <1>2

\* A thread is copied through the only place of the turn.
LEMMA ThroughPlace ==
  ASSUME NEW S, NEW q \in Seq(S), NEW x, NEW k \in DOMAIN q, q[k] = x,
         \A i \in DOMAIN q : q[i] = x => i = k
  PROVE  /\ Through(q, x) = SubSeq(q, 1, k) /\ Through(q, x) \in Seq(S)
         /\ Len(Through(q, x)) = k
         /\ \A i \in 1 .. k : Through(q, x)[i] = q[i]
<1>1. (CHOOSE i \in DOMAIN q : q[i] = x) = k
  OBVIOUS
<1>2. Through(q, x) = SubSeq(q, 1, k)
  BY <1>1 DEF Through
<1>3. k \in 1 .. Len(q)
  OBVIOUS
<1>4. /\ SubSeq(q, 1, k) \in Seq(S) /\ Len(SubSeq(q, 1, k)) = k
      /\ \A i \in 1 .. k : SubSeq(q, 1, k)[i] = q[i]
  BY <1>3, SubSeqProperties
<1> QED
  BY <1>2, <1>4

-----------------------------------------------------------------------------
(* A step of one attempt. *)

AttemptRow == [at : Place, base : 0..TranscriptBound + 1, from : Binding \cup {NoBinding}]

\* Everything of another attempt is as before.
Apart(u) ==
    /\ attempt'[u] = attempt[u]
    /\ thread'[u] = thread[u]
    /\ worker'[u] = worker[u]
    /\ stdout'[u] = stdout[u]
    /\ buffered'[u] = buffered[u]

LEMMA Places ==
  ASSUME Inv, NEW t \in Attempt
  PROVE  /\ attempt[t] \in AttemptRow /\ At(t) \in Place
         /\ Base(t) \in 0..TranscriptBound + 1 /\ Base(t) \in Nat
         /\ From(t) \in Binding \cup {NoBinding}
         /\ thread[t] \in Seq(Turn \cup {Residue}) /\ transcript \in Seq(Turn)
         /\ worker[t] \in Worker /\ stdout[t] \in Seq(Frame) /\ buffered[t] \in Seq(Event)
         /\ Len(transcript) \in Nat /\ Generation = Len(transcript) + 1
         /\ DOMAIN transcript = 1 .. Len(transcript)
         /\ AttemptOK(t) /\ RowOK(binding)
BY AttemptAssumption DEF AttemptAssumption, Inv, TypeOK, AttemptRow, At, Base, From, Generation

\* A completed attempt that stays completed keeps every row it saved valid.
LEMMA RowKept ==
  ASSUME NEW row, RowOK(row),
         row # NoBinding => attempt'[row.turn] = attempt[row.turn]
  PROVE  row # NoBinding =>
           /\ attempt'[row.turn].at = "completed"
           /\ attempt'[row.turn].base + 1 = row.generation
BY DEF RowOK, At, Base

LEMMA RowStays ==
  ASSUME Inv, NEW row \in Binding \cup {NoBinding}, RowOK(row), NEW t,
         \A u \in Attempt \ {t} : Apart(u), At(t) # "completed"
  PROVE  row # NoBinding =>
           /\ attempt'[row.turn].at = "completed"
           /\ attempt'[row.turn].base + 1 = row.generation
<1>1. row # NoBinding => row.turn \in Attempt /\ row.turn # t
  BY DEF RowOK, At, Binding
<1> QED
  BY <1>1, RowKept DEF Apart

\* An attempt that nobody touched is as it should be.
LEMMA ApartKept ==
  ASSUME Inv, NEW t \in Attempt, \A u \in Attempt \ {t} : Apart(u), At(t) # "completed",
         NEW u \in Attempt \ {t},
         \/ transcript' = transcript
         \/ transcript' = Append(transcript, t)
  PROVE  AttemptOK(u)'
<1>1. Apart(u) /\ AttemptOK(u)
  BY DEF Inv
<1>2. From(u) \in Binding \cup {NoBinding}
  BY Places
<1>3. /\ DOMAIN transcript \subseteq DOMAIN transcript'
      /\ \A i \in DOMAIN transcript : transcript'[i] = transcript[i]
      /\ \A i \in DOMAIN transcript' : i \in DOMAIN transcript \/ transcript'[i] = t
      /\ Len(transcript') >= Len(transcript) /\ Len(transcript') \in Nat
  <2>1. CASE transcript' = transcript
    BY <2>1, Places
  <2>2. CASE transcript' = Append(transcript, t)
    BY <2>2, Places, AppendOf DEF Turn
  <2> QED
    BY <2>1, <2>2
<1>4. BaseOK(u)' /\ CommitOK(u)'
  BY <1>1, <1>3, Places DEF AttemptOK, Apart, BaseOK, CommitOK, At, Base, Generation
<1>5. FromOK(u)'
  <2>1. From(u)' = From(u) /\ Base(u)' = Base(u) /\ At(u)' = At(u)
    BY <1>1 DEF Apart, From, Base, At
  <2>2. RowOK(From(u))'
    <3>1. From(u) # NoBinding =>
            /\ attempt'[From(u).turn].at = "completed"
            /\ attempt'[From(u).turn].base + 1 = From(u).generation
      BY <1>1, <1>2, RowStays DEF AttemptOK, FromOK
    <3> QED
      BY <2>1, <3>1 DEF RowOK, At, Base
  <2> QED
    BY <1>1, <2>1, <2>2 DEF AttemptOK, FromOK
<1>6. WorkerOK(u)' /\ AnswersOK(u)' /\ DoneOK(u)'
  BY <1>1 DEF AttemptOK, Apart, WorkerOK, AnswersOK, DoneOK, At, Supervising
<1>7. \A i \in 1..Base(u) - 1 : transcript'[i] = transcript[i]
  BY <1>1, <1>3, Places DEF AttemptOK, BaseOK
<1>8. OpenOK(u)' /\ ThreadOK(u)'
  BY <1>1, <1>7 DEF AttemptOK, Apart, OpenOK, ThreadOK, Fresh, At, Base, From
<1>9. TraceOK(u)'
  BY <1>1, <1>3 DEF AttemptOK, Apart, TraceOK
<1> QED
  BY <1>4, <1>5, <1>6, <1>8, <1>9 DEF AttemptOK

\* So a step of one attempt that leaves the transcript alone is judged by it.
LEMMA OneAttempt ==
  ASSUME Inv, TypeOK', NEW t \in Attempt, \A u \in Attempt \ {t} : Apart(u),
         At(t) # "completed", transcript' = transcript, binding' = binding, AttemptOK(t)'
  PROVE  Inv'
<1>1. \A u \in Attempt : AttemptOK(u)'
  BY ApartKept
<1>2. RowOK(binding)'
  <2>1. binding # NoBinding =>
           /\ attempt'[binding.turn].at = "completed"
           /\ attempt'[binding.turn].base + 1 = binding.generation
    BY RowStays DEF Inv, TypeOK
  <2> QED
    BY <2>1 DEF RowOK, At, Base
<1> QED
  BY <1>1, <1>2 DEF Inv

\* Nothing about the rows an attempt was given changes with its own step.
LEMMA FromStays ==
  ASSUME Inv, NEW t \in Attempt, \A u \in Attempt \ {t} : Apart(u), At(t) # "completed",
         From(t)' = From(t), Base(t)' = Base(t), At(t)' \notin Idle
  PROVE  FromOK(t)'
<1>1. From(t) \in Binding \cup {NoBinding} /\ FromOK(t)
  BY Places DEF AttemptOK
<1>2. From(t) # NoBinding =>
           /\ attempt'[From(t).turn].at = "completed"
           /\ attempt'[From(t).turn].base + 1 = From(t).generation
  BY <1>1, RowStays DEF FromOK
<1> QED
  BY <1>1, <1>2 DEF FromOK, RowOK, At, Base

LEMMA InitHolds == Init => Inv
<1> SUFFICES ASSUME Init PROVE Inv
  OBVIOUS
<1> USE AttemptAssumption DEF AttemptAssumption
<1>1. TypeOK
  <2>1. NoWorker \in Worker
    BY DEF NoWorker, Worker
  <2>2. [at |-> "new", base |-> 0, from |-> NoBinding] \in
          [at : Place, base : 0..TranscriptBound + 1, from : Binding \cup {NoBinding}]
    BY DEF Place
  <2> QED
    BY <2>1, <2>2 DEF Init, TypeOK
<1>2. RowOK(binding)
  BY DEF Init, RowOK
<1>3. ASSUME NEW t \in Attempt PROVE AttemptOK(t)
  <2>1. BaseOK(t) /\ CommitOK(t) /\ FromOK(t)
    BY DEF Init, BaseOK, CommitOK, FromOK, RowOK, Idle, Committed, At, Base, From, Generation
  <2>2. WorkerOK(t) /\ ThreadOK(t) /\ TraceOK(t)
    BY DEF Init, WorkerOK, ThreadOK, TraceOK, Idle, NoWorker, At
  <2>3. AnswersOK(t) /\ OpenOK(t) /\ DoneOK(t)
    BY EmptySays DEF Init, AnswersOK, OpenOK, DoneOK, NoWorker, At, StartUp, Committed
  <2> QED
    BY <2>1, <2>2, <2>3 DEF AttemptOK
<1> QED
  BY <1>1, <1>2, <1>3 DEF Inv

-----------------------------------------------------------------------------
(* The steps of the host. *)

LEMMA GotoEffect ==
  ASSUME Inv, NEW t \in Attempt, NEW place \in Place, Goto(t, place)
  PROVE  /\ attempt' \in [Attempt -> AttemptRow]
         /\ At(t)' = place /\ Base(t)' = Base(t) /\ From(t)' = From(t)
         /\ \A u \in Attempt \ {t} : attempt'[u] = attempt[u]
<1>1. attempt \in [Attempt -> AttemptRow]
  BY DEF Inv, TypeOK, AttemptRow
<1>2. attempt' = [attempt EXCEPT ![t].at = place]
  BY DEF Goto
<1> QED
  BY <1>1, <1>2 DEF At, Base, From, AttemptRow

\* The host goes on: it read some frames, or asked its worker, or was told.
LEMMA HostStep ==
  ASSUME Inv, NEW t \in Attempt, \A u \in Attempt \ {t} : Apart(u),
         transcript' = transcript, thread'[t] = thread[t],
         worker'[t].turn = worker[t].turn, worker'[t].said = worker[t].said,
         worker'[t].emitted = worker[t].emitted,
         \A F : Says(stdout'[t], F) => Says(stdout[t], F),
         \A F : Says(buffered'[t], F) => Says(buffered[t], F) \/ (Says(stdout[t], F)),
         OneAnswer(stdout'[t]),
         Base(t)' = Base(t), From(t)' = From(t),
         At(t) \notin Idle \cup {"completed"}, At(t)' \notin Idle,
         At(t) = "save" <=> At(t)' \in Committed,
         At(t)' \in {"closing", "closeStderr", "commit"} \cup Committed => worker[t].turn = "ended",
         worker'[t].up => Supervising(t)',
         worker'[t].asked # "nothing" => ~Says(stdout'[t], Answers),
         At(t)' \in {"running", "tool"} =>
             worker'[t].asked = "nothing" /\ ~Says(stdout'[t], Answers),
         At(t)' \in StartUp => worker'[t].asked \in {"nothing", At(t)'},
         At(t)' \in {"initialize", "config", "open"}
           \/ worker'[t].asked \in {"initialize", "config", "open"} => worker[t].turn = "none",
         At(t)' = "open" /\ Says(stdout'[t], {"reply"}) => Fresh(t),
         worker'[t].asked = "start" /\ worker[t].turn = "none" => Fresh(t)
  PROVE  AttemptOK(t)'
<1>1. AttemptOK(t)
  BY DEF Inv
<1>2. BaseOK(t)'
  BY <1>1 DEF AttemptOK, BaseOK, Generation, Idle
<1>3. CommitOK(t)'
  BY <1>1 DEF AttemptOK, CommitOK, Idle, Committed
<1>4. FromOK(t)'
  BY FromStays
<1>5. WorkerOK(t)'
  BY <1>1 DEF AttemptOK, WorkerOK
<1>6. AnswersOK(t)'
  BY DEF AnswersOK
<1>7. Fresh(t) => Fresh(t)'
  BY DEF Fresh
<1>8. OpenOK(t)'
  BY <1>7 DEF OpenOK
<1>9. ThreadOK(t)' /\ TraceOK(t)'
  BY <1>1 DEF AttemptOK, ThreadOK, TraceOK
<1>10. DoneOK(t)'
  BY <1>1 DEF AttemptOK, DoneOK
<1> QED
  BY <1>2, <1>3, <1>4, <1>5, <1>6, <1>8, <1>9, <1>10 DEF AttemptOK

\* Places where nothing is expected of what the worker is asked or says.
Settling == {"refusing", "settling", "stopping", "stopStderr", "closing", "closeStderr",
             "completed"}

\* The host goes somewhere, and has read what it read.
LEMMA MoveKeeps ==
  ASSUME Inv, NEW t \in Attempt, NEW place \in Place,
         stdout' \in [Attempt -> Seq(Frame)], buffered' \in [Attempt -> Seq(Event)],
         heard' \in [Attempt -> Nat], interrupt' = interrupt,
         Goto(t, place) \/ (attempt' = attempt /\ place = At(t)),
         UNCHANGED <<durableVars, thread, worker>>,
         \A u \in Attempt \ {t} : stdout'[u] = stdout[u] /\ buffered'[u] = buffered[u],
         \A F : Says(stdout'[t], F) => Says(stdout[t], F),
         \A F : Says(buffered'[t], F) => Says(buffered[t], F) \/ Says(stdout[t], F),
         OneAnswer(stdout'[t]),
         \/ place \in Settling
         \/ place = At(t)
         \/ At(t) \in {"running", "tool"} /\ place \in {"running", "tool"}
         \/ /\ At(t) = "start" /\ place = "running"
            /\ worker[t].asked = "nothing" /\ ~Says(stdout'[t], Answers),
         At(t) \notin Idle \cup {"completed"},
         At(t) = "save" <=> place \in Committed,
         At(t) # "commit" \/ place = "commit",
         place \in Closing => worker[t].turn = "ended"
  PROVE  Inv'
<1>1. AttemptOK(t)
  BY DEF Inv
<1>2. /\ At(t)' = place /\ Base(t)' = Base(t) /\ From(t)' = From(t)
      /\ \A u \in Attempt \ {t} : Apart(u)
  BY GotoEffect DEF Apart, At, Base, From
<1>3. worker' = worker /\ thread' = thread /\ transcript' = transcript /\ binding' = binding
  BY DEF durableVars
<1>4. AttemptOK(t)'
  <2>1. place \notin Idle
    BY DEF Settling, Idle, Committed
  <2>2. place \in {"closing", "closeStderr", "commit"} \cup Committed => worker[t].turn = "ended"
    BY <1>1 DEF AttemptOK, DoneOK, Settling, Committed, Closing
  <2>3. worker[t].up => Supervising(t)'
    BY <1>1, <1>2, <2>1 DEF AttemptOK, WorkerOK, Supervising, Settling, Committed, Final, Idle
  <2>4. worker[t].asked # "nothing" => ~Says(stdout'[t], Answers)
    BY <1>1 DEF AttemptOK, AnswersOK
  <2>5. place \in {"running", "tool"} => worker[t].asked = "nothing" /\ ~Says(stdout'[t], Answers)
    BY <1>1 DEF AttemptOK, AnswersOK, Settling
  <2>6. place \in StartUp => place = At(t)
    BY DEF Settling, StartUp
  <2>7. /\ place \in StartUp => worker[t].asked \in {"nothing", place}
        /\ place \in {"initialize", "config", "open"}
             \/ worker[t].asked \in {"initialize", "config", "open"} => worker[t].turn = "none"
        /\ place = "open" /\ Says(stdout'[t], {"reply"}) => Fresh(t)
        /\ worker[t].asked = "start" /\ worker[t].turn = "none" => Fresh(t)
    BY <1>1, <2>6 DEF AttemptOK, AnswersOK, WorkerOK, OpenOK, StartUp
  <2> QED
    BY <1>2, <1>3, <2>1, <2>2, <2>3, <2>4, <2>5, <2>7, HostStep
<1>5. TypeOK'
  <2>1. attempt' \in [Attempt -> AttemptRow]
    BY GotoEffect DEF Inv, TypeOK, AttemptRow
  <2> QED
    BY <1>3, <2>1 DEF Inv, TypeOK, AttemptRow
<1> QED
  BY <1>2, <1>3, <1>4, <1>5, OneAttempt

LEMMA TakeEffect ==
  ASSUME Inv, NEW t \in Attempt, HasNext(t), TakeNext(t)
  PROVE  /\ stdout' \in [Attempt -> Seq(Frame)] /\ buffered' \in [Attempt -> Seq(Event)]
         /\ \A u \in Attempt \ {t} : stdout'[u] = stdout[u] /\ buffered'[u] = buffered[u]
         /\ \A F : Says(stdout'[t], F) => Says(stdout[t], F)
         /\ \A F : Says(buffered'[t], F) => Says(buffered[t], F)
         /\ OneAnswer(stdout'[t])
         /\ \A F : Front(t) \in F => Says(stdout[t], F) \/ Says(buffered[t], F)
<1>1. /\ stdout \in [Attempt -> Seq(Frame)] /\ buffered \in [Attempt -> Seq(Event)]
      /\ stdout[t] \in Seq(Frame) /\ buffered[t] \in Seq(Event) /\ buffered[t] \in Seq(Frame)
      /\ OneAnswer(stdout[t])
  <2>1. /\ stdout \in [Attempt -> Seq(Frame)] /\ buffered \in [Attempt -> Seq(Event)]
        /\ OneAnswer(stdout[t])
    BY DEF Inv, TypeOK, AttemptOK, AnswersOK
  <2>2. Event \subseteq Frame
    BY DEF Frame
  <2> QED
    BY <2>1, <2>2
<1>2. CASE buffered[t] # <<>>
  <2>1. buffered' = [buffered EXCEPT ![t] = Tail(buffered[t])] /\ stdout' = stdout
    BY <1>2 DEF TakeNext
  <2>2. Front(t) = Head(buffered[t])
    BY <1>1, <1>2, FrontOf DEF Front
  <2>3. /\ Tail(buffered[t]) \in Seq(Event)
        /\ \A F : Says(Tail(buffered[t]), F) => Says(buffered[t], F)
        /\ \A F : Head(buffered[t]) \in F => Says(buffered[t], F)
    BY <1>1, <1>2, TailSays
  <2> QED
    BY <1>1, <2>1, <2>2, <2>3
<1>3. CASE buffered[t] = <<>>
  <2>1. stdout' = [stdout EXCEPT ![t] = Tail(stdout[t])] /\ buffered' = buffered
    BY <1>3 DEF TakeNext
  <2>2. Front(t) = Head(stdout[t]) /\ stdout[t] # <<>>
    BY <1>1, <1>3, FrontOf DEF Front, HasNext
  <2>3. /\ Tail(stdout[t]) \in Seq(Frame) /\ OneAnswer(Tail(stdout[t]))
        /\ \A F : Says(Tail(stdout[t]), F) => Says(stdout[t], F)
        /\ \A F : Head(stdout[t]) \in F => Says(stdout[t], F)
    BY <1>1, <2>2, TailSays
  <2> QED
    BY <1>1, <2>1, <2>2, <2>3
<1> QED
  BY <1>2, <1>3


LEMMA StaysPut ==
  ASSUME Inv, NEW t \in Attempt
  PROVE  /\ \A F : Says(stdout[t], F) => Says(stdout[t], F)
         /\ OneAnswer(stdout[t]) /\ stdout \in [Attempt -> Seq(Frame)]
         /\ buffered \in [Attempt -> Seq(Event)] /\ heard \in [Attempt -> Nat]
         /\ worker \in [Attempt -> Worker] /\ thread \in [Attempt -> Seq(Turn \cup {Residue})]
         /\ attempt \in [Attempt -> AttemptRow]
BY DEF Inv, TypeOK, AttemptOK, AnswersOK, AttemptRow

LEMMA MovesKeep ==
  ASSUME Inv, NEW t \in Attempt,
         \/ AnswerCall(t) \/ GiveUpStartUp(t) \/ NotAcknowledged(t) \/ Settled(t)
         \/ InterruptTimesOut(t) \/ Exit(t) \/ SaveFails(t)
  PROVE  Inv'
<1>1. PICK place \in {"running", "stopping", "stopStderr", "closeStderr", "completed"} :
        /\ Goto(t, place) /\ UNCHANGED <<durableVars, interrupt, engineVars>>
        /\ place = "running" => At(t) = "tool"
        /\ place = "closeStderr" => At(t) = "closing"
        /\ place = "completed" <=> At(t) = "save"
        /\ At(t) \notin Idle \cup {"completed", "commit"}
  BY DEF AnswerCall, GiveUpStartUp, NotAcknowledged, Settled, InterruptTimesOut, Exit, SaveFails,
     Idle, StartUp
<1>2. /\ thread' = thread /\ worker' = worker /\ stdout' = stdout /\ buffered' = buffered
      /\ heard' = heard
  BY <1>1 DEF engineVars
<1>3. place \in Place
      /\ (place \in Settling \/ (At(t) \in {"running", "tool"} /\ place \in {"running", "tool"}))
      /\ (At(t) = "save" <=> place \in Committed)
  BY <1>1 DEF Place, Stopping, Closing, Settling, Committed, Final
<1>4. place \in Closing => worker[t].turn = "ended"
  BY <1>1 DEF Inv, AttemptOK, DoneOK, Closing
<1> QED
  BY <1>1, <1>2, <1>3, <1>4, StaysPut, MoveKeeps

LEMMA KeepKeeps ==
  ASSUME Inv, NEW t \in Attempt, Keep(t)
  PROVE  Inv'
<1>1. /\ stdout[t] # <<>> /\ Head(stdout[t]) \in Event
      /\ stdout' = [stdout EXCEPT ![t] = Tail(stdout[t])]
      /\ buffered' = [buffered EXCEPT ![t] = Append(buffered[t], Head(stdout[t]))]
      /\ UNCHANGED <<durableVars, attempt, interrupt, thread, worker, heard>>
      /\ At(t) \in StartUp \cup {"interrupt"}
  BY DEF Keep, Reading, Waiting
<1>2. /\ Tail(stdout[t]) \in Seq(Frame) /\ OneAnswer(Tail(stdout[t]))
      /\ \A F : Says(Tail(stdout[t]), F) => Says(stdout[t], F)
      /\ \A F : Head(stdout[t]) \in F => Says(stdout[t], F)
  BY <1>1, StaysPut, TailSays
<1>3. /\ Append(buffered[t], Head(stdout[t])) \in Seq(Event)
      /\ \A F : Says(Append(buffered[t], Head(stdout[t])), F)
             => Says(buffered[t], F) \/ Head(stdout[t]) \in F
  BY <1>1, StaysPut, AppendSays
<1>4. /\ stdout' \in [Attempt -> Seq(Frame)] /\ buffered' \in [Attempt -> Seq(Event)]
      /\ \A u \in Attempt \ {t} : stdout'[u] = stdout[u] /\ buffered'[u] = buffered[u]
      /\ stdout'[t] = Tail(stdout[t]) /\ buffered'[t] = Append(buffered[t], Head(stdout[t]))
  BY <1>1, <1>2, <1>3, StaysPut
<1>5. /\ At(t) \in Place /\ At(t) \notin Idle \cup {"completed", "commit", "save"}
      /\ At(t) \notin Committed \cup Closing
  BY <1>1 DEF Closing, StartUp, Place, Asking, Idle, Committed
<1> QED
  BY <1>1, <1>2, <1>3, <1>4, <1>5, StaysPut, MoveKeeps

LEMMA TakesKeep ==
  ASSUME Inv, NEW t \in Attempt, HearText(t) \/ BeginCall(t) \/ RefuseRequest(t) \/ HearCompleted(t)
                            \/ Settle(t)
  PROVE  Inv'
<1>1. PICK place \in {"running", "tool", "refusing", "closing", "settling"} :
        /\ Goto(t, place) \/ (attempt' = attempt /\ place = At(t))
        /\ HasNext(t) /\ TakeNext(t)
        /\ UNCHANGED <<durableVars, interrupt, thread, worker>>
        /\ At(t) \in {"running", "settling"}
        /\ At(t) = "settling" => place = "settling"
        /\ place = "closing" => Front(t) \in {"completed"}
        /\ heard' = heard \/ heard' = [heard EXCEPT ![t] = @ + 1]
  BY DEF HearText, BeginCall, RefuseRequest, HearCompleted, Settle, Listening
<1>2. heard' \in [Attempt -> Nat]
  <2>1. heard \in [Attempt -> Nat]
    BY StaysPut
  <2>2. [heard EXCEPT ![t] = @ + 1] \in [Attempt -> Nat]
    BY <2>1
  <2> QED
    BY <1>1, <2>1, <2>2
<1>3. /\ stdout' \in [Attempt -> Seq(Frame)] /\ buffered' \in [Attempt -> Seq(Event)]
      /\ \A u \in Attempt \ {t} : stdout'[u] = stdout[u] /\ buffered'[u] = buffered[u]
      /\ \A F : Says(stdout'[t], F) => Says(stdout[t], F)
      /\ \A F : Says(buffered'[t], F) => Says(buffered[t], F)
      /\ OneAnswer(stdout'[t])
      /\ \A F : Front(t) \in F => Says(stdout[t], F) \/ Says(buffered[t], F)
  BY <1>1, TakeEffect
<1>4. place \in Closing => worker[t].turn = "ended"
  BY <1>1, <1>3 DEF Inv, AttemptOK, DoneOK, Closing
<1>5. /\ place \in Place /\ place \notin Committed /\ At(t) \notin Idle \cup {"completed", "save", "commit"}
      /\ \/ place \in Settling
         \/ At(t) \in {"running", "tool"} /\ place \in {"running", "tool"}
  BY <1>1 DEF Place, Closing, Committed, Idle, Settling
<1> QED
  BY <1>1, <1>2, <1>3, <1>4, <1>5, MoveKeeps

\* The host read the one answer there can be.
LEMMA AnswerEffect ==
  ASSUME Inv, NEW t \in Attempt, stdout[t] # <<>>, Head(stdout[t]) = "reply",
         stdout' = [stdout EXCEPT ![t] = Tail(@)]
  PROVE  /\ stdout' \in [Attempt -> Seq(Frame)] /\ OneAnswer(stdout'[t])
         /\ \A u \in Attempt \ {t} : stdout'[u] = stdout[u]
         /\ \A F : Says(stdout'[t], F) => Says(stdout[t], F)
         /\ ~Says(stdout'[t], Answers) /\ ~Says(stdout'[t], {"reply"})
         /\ Says(stdout[t], {"reply"}) /\ worker[t].asked = "nothing"
<1>1. stdout' = [stdout EXCEPT ![t] = Tail(stdout[t])]
  OBVIOUS
<1>2. /\ Tail(stdout[t]) \in Seq(Frame) /\ OneAnswer(Tail(stdout[t]))
      /\ \A F : Says(Tail(stdout[t]), F) => Says(stdout[t], F)
      /\ \A F : "reply" \in F => Says(stdout[t], F)
      /\ ~Says(Tail(stdout[t]), Answers)
  BY StaysPut, TailSays DEF Answers
<1>3. stdout' \in [Attempt -> Seq(Frame)] /\ stdout'[t] = Tail(stdout[t])
      /\ \A u \in Attempt \ {t} : stdout'[u] = stdout[u]
  BY <1>1, <1>2, StaysPut
<1>4. worker[t].asked = "nothing"
  BY <1>2 DEF Inv, AttemptOK, AnswersOK, Answers
<1>5. ~Says(Tail(stdout[t]), {"reply"})
  BY <1>2 DEF Says, Answers
<1> QED
  BY <1>2, <1>3, <1>4, <1>5

LEMMA AcknowledgedKeeps ==
  ASSUME Inv, NEW t \in Attempt, Acknowledged(t)
  PROVE  Inv'
<1>1. /\ At(t) = "interrupt" /\ stdout[t] # <<>> /\ Head(stdout[t]) = "reply"
      /\ stdout' = [stdout EXCEPT ![t] = Tail(@)] /\ Goto(t, "settling")
      /\ UNCHANGED <<durableVars, interrupt, thread, worker, buffered, heard>>
  BY DEF Acknowledged
<1>2. "settling" \in Place /\ "settling" \in Settling /\ "settling" \notin Committed \cup Closing
      /\ At(t) \notin Idle \cup {"completed", "save", "commit"}
  BY <1>1 DEF Place, Closing, Settling, Committed, Idle
<1> QED
  BY <1>1, <1>2, AnswerEffect, StaysPut, MoveKeeps

LEMMA TypesKept ==
  ASSUME Inv, attempt' \in [Attempt -> AttemptRow], worker' \in [Attempt -> Worker],
         stdout' \in [Attempt -> Seq(Frame)], buffered' \in [Attempt -> Seq(Event)],
         thread' \in [Attempt -> Seq(Turn \cup {Residue})],
         heard' \in [Attempt -> Nat], interrupt' \subseteq Interruptible,
         UNCHANGED durableVars
  PROVE  TypeOK'
BY DEF Inv, TypeOK, AttemptRow, durableVars

LEMMA AskEffect ==
  ASSUME Inv, NEW t \in Attempt, NEW request \in Asking, Ask(t, request)
  PROVE  /\ attempt' \in [Attempt -> AttemptRow] /\ worker' \in [Attempt -> Worker]
         /\ At(t)' = request /\ Base(t)' = Base(t) /\ From(t)' = From(t)
         /\ worker'[t].asked = request /\ worker'[t].up = worker[t].up
         /\ worker'[t].turn = worker[t].turn /\ worker'[t].said = worker[t].said
         /\ worker'[t].emitted = worker[t].emitted
         /\ \A u \in Attempt \ {t} : attempt'[u] = attempt[u] /\ worker'[u] = worker[u]
<1>1. request \in Place /\ Goto(t, request)
  BY DEF Ask, Place
<1>2. worker \in [Attempt -> Worker] /\ worker' = [worker EXCEPT ![t].asked = request]
  BY StaysPut DEF Ask
<1> QED
  BY <1>1, <1>2, GotoEffect DEF Worker

LEMMA ProceedKeeps ==
  ASSUME Inv, NEW t \in Attempt, Proceed(t)
  PROVE  Inv'
<1>1. /\ At(t) \in StartUp /\ stdout[t] # <<>> /\ Head(stdout[t]) = "reply"
      /\ stdout' = [stdout EXCEPT ![t] = Tail(@)]
      /\ UNCHANGED <<durableVars, interrupt, thread, buffered, heard>>
  BY DEF Proceed, Waiting
<1>2. /\ stdout' \in [Attempt -> Seq(Frame)] /\ OneAnswer(stdout'[t])
      /\ \A u \in Attempt \ {t} : stdout'[u] = stdout[u]
      /\ \A F : Says(stdout'[t], F) => Says(stdout[t], F)
      /\ ~Says(stdout'[t], Answers) /\ ~Says(stdout'[t], {"reply"})
      /\ Says(stdout[t], {"reply"}) /\ worker[t].asked = "nothing"
  BY <1>1, AnswerEffect
<1>3. CASE At(t) = "start"
  <2>1. Goto(t, "running") /\ worker' = worker
    BY <1>3 DEF Proceed
  <2>2. "running" \in Place /\ "running" \notin Committed \cup Closing
        /\ At(t) \notin Idle \cup {"completed", "save", "commit"}
    BY <1>3 DEF Place, Closing, Committed, Idle
  <2> QED
    BY <1>1, <1>2, <1>3, <2>1, <2>2, StaysPut, MoveKeeps
<1>4. CASE At(t) # "start"
  <2>1. PICK request \in {"config", "open", "start"} :
          Ask(t, request) /\ (request = "start" => At(t) = "open")
    <3>1. Ask(t, AfterAnswer[At(t)]) /\ At(t) \in {"initialize", "config", "open"}
      BY <1>1, <1>4 DEF Proceed, StartUp
    <3>2. /\ At(t) = "initialize" => AfterAnswer[At(t)] = "config"
          /\ At(t) = "config" => AfterAnswer[At(t)] = "open"
          /\ At(t) = "open" => AfterAnswer[At(t)] = "start"
      BY DEF AfterAnswer
    <3> QED
      BY <3>1, <3>2
  <2>2. request \in Asking
    BY DEF Asking, StartUp
  <2>3. /\ attempt' \in [Attempt -> AttemptRow] /\ worker' \in [Attempt -> Worker]
        /\ At(t)' = request /\ Base(t)' = Base(t) /\ From(t)' = From(t)
        /\ worker'[t].asked = request /\ worker'[t].up = worker[t].up
        /\ worker'[t].turn = worker[t].turn /\ worker'[t].said = worker[t].said
        /\ worker'[t].emitted = worker[t].emitted
        /\ \A u \in Attempt \ {t} : attempt'[u] = attempt[u] /\ worker'[u] = worker[u]
    BY <2>1, <2>2, AskEffect
  <2>4. TypeOK'
    BY <1>1, <1>2, <2>3, StaysPut, TypesKept DEF Inv, TypeOK
  <2>5. \A u \in Attempt \ {t} : Apart(u)
    BY <1>1, <1>2, <2>3 DEF Apart
  <2>6. worker[t].turn = "none" /\ (request = "start" => Fresh(t))
    BY <1>1, <1>2, <1>4, <2>1 DEF Inv, AttemptOK, WorkerOK, OpenOK, StartUp
  <2>7. AttemptOK(t)'
    <3>1. At(t) \notin Idle \cup {"completed", "save"} /\ request \notin Idle \cup Committed
          /\ request \notin {"closing", "closeStderr", "commit", "running", "tool"}
      BY <1>1 DEF StartUp, Idle, Committed
    <3>2. Supervising(t)'
      BY <2>3 DEF Supervising, Final
    <3> QED
      BY <1>1, <1>2, <2>3, <2>5, <2>6, <3>1, <3>2, HostStep DEF durableVars
  <2>8. At(t) # "completed"
    BY <1>1 DEF StartUp
  <2> QED
    BY <1>1, <2>4, <2>5, <2>7, <2>8, OneAttempt DEF durableVars
<1> QED
  BY <1>3, <1>4

LEMMA AskInterruptKeeps ==
  ASSUME Inv, NEW t \in Attempt, AskInterrupt(t)
  PROVE  Inv'
<1>1. /\ At(t) \in {"running", "tool"} /\ Ask(t, "interrupt")
      /\ UNCHANGED <<durableVars, interrupt, thread, stdout, buffered, heard>>
  BY DEF AskInterrupt
<1>2. /\ attempt' \in [Attempt -> AttemptRow] /\ worker' \in [Attempt -> Worker]
      /\ At(t)' = "interrupt" /\ Base(t)' = Base(t) /\ From(t)' = From(t)
      /\ worker'[t].asked = "interrupt" /\ worker'[t].up = worker[t].up
      /\ worker'[t].turn = worker[t].turn /\ worker'[t].said = worker[t].said
      /\ worker'[t].emitted = worker[t].emitted
      /\ \A u \in Attempt \ {t} : attempt'[u] = attempt[u] /\ worker'[u] = worker[u]
  BY <1>1, AskEffect DEF Asking
<1>3. TypeOK'
  BY <1>1, <1>2, StaysPut, TypesKept DEF Inv, TypeOK
<1>4. \A u \in Attempt \ {t} : Apart(u)
  BY <1>1, <1>2 DEF Apart
<1>5. AttemptOK(t)'
  <2>1. ~Says(stdout[t], Answers) /\ OneAnswer(stdout[t])
    BY <1>1 DEF Inv, AttemptOK, AnswersOK
  <2>2. Supervising(t)' /\ At(t) \notin Idle \cup {"completed"} /\ "interrupt" \notin Idle \cup Committed
        /\ "interrupt" \notin StartUp
    BY <1>1, <1>2 DEF Supervising, Final, Idle, Committed, StartUp
  <2> QED
    BY <1>1, <1>2, <1>4, <2>1, <2>2, HostStep DEF durableVars
<1> QED
  BY <1>1, <1>3, <1>4, <1>5, OneAttempt DEF durableVars

LEMMA CloseKeeps ==
  ASSUME Inv, NEW t \in Attempt, CloseStdin(t) \/ Close(t)
  PROVE  Inv'
<1>1. PICK place \in {"stopExit", "commit"} :
      /\ Goto(t, place) /\ UNCHANGED <<durableVars, interrupt, heard, thread>>
      /\ At(t) = IF place = "commit" THEN "closeStderr" ELSE "stopping"
      /\ stdout' = [stdout EXCEPT ![t] = <<>>] /\ buffered' = [buffered EXCEPT ![t] = <<>>]
      /\ worker' = [worker EXCEPT ![t].up = FALSE, ![t].asked = "nothing"]
  BY DEF CloseStdin, Close, Abandon, Dismiss
<1>2. /\ attempt' \in [Attempt -> AttemptRow]
      /\ At(t)' = place /\ Base(t)' = Base(t) /\ From(t)' = From(t)
      /\ \A u \in Attempt \ {t} : attempt'[u] = attempt[u]
  BY <1>1, GotoEffect DEF Place, Stopping
<1>3. /\ worker' \in [Attempt -> Worker]
      /\ worker'[t].asked = "nothing" /\ worker'[t].up = FALSE
      /\ worker'[t].turn = worker[t].turn /\ worker'[t].said = worker[t].said
      /\ worker'[t].emitted = worker[t].emitted
      /\ \A u \in Attempt \ {t} : worker'[u] = worker[u]
  BY <1>1, StaysPut DEF Worker
<1>4. /\ stdout' \in [Attempt -> Seq(Frame)] /\ buffered' \in [Attempt -> Seq(Event)]
      /\ stdout'[t] = <<>> /\ buffered'[t] = <<>>
      /\ \A u \in Attempt \ {t} : stdout'[u] = stdout[u] /\ buffered'[u] = buffered[u]
  BY <1>1, StaysPut
<1>5. TypeOK'
  BY <1>1, <1>2, <1>3, <1>4, StaysPut, TypesKept DEF Inv, TypeOK
<1>6. \A u \in Attempt \ {t} : Apart(u)
  BY <1>1, <1>2, <1>3, <1>4 DEF Apart
<1>7. AttemptOK(t)'
  <2>1. place = "commit" => worker[t].turn = "ended"
    BY <1>1 DEF Inv, AttemptOK, DoneOK
  <2>2. /\ place \notin Idle \cup Committed \cup StartUp \cup {"running", "tool"}
        /\ place # "commit" => place \notin {"closing", "closeStderr"}
        /\ At(t) \notin Idle \cup {"completed", "save"}
    BY <1>1 DEF Idle, Committed, StartUp
  <2> QED
    BY <1>1, <1>2, <1>3, <1>4, <1>6, <2>1, <2>2, EmptySays, HostStep DEF durableVars
<1> QED
  BY <1>1, <1>5, <1>6, <1>7, OneAttempt DEF durableVars

LEMMA EndKeeps ==
  ASSUME Inv, NEW t \in Attempt, NEW outcome \in {"failed", "interrupted", "crashed"},
         End(t, outcome), At(t) # "completed",
         outcome = "crashed" \/ At(t) \notin Committed \cup {"crashed"}
  PROVE  Inv'
<1>1. /\ attempt' = [attempt EXCEPT ![t] = [at |-> outcome, base |-> 0, from |-> NoBinding]]
      /\ stdout' = [stdout EXCEPT ![t] = <<>>] /\ buffered' = [buffered EXCEPT ![t] = <<>>]
      /\ worker' = [worker EXCEPT ![t] = NoWorker] /\ heard' = [heard EXCEPT ![t] = 0]
      /\ thread' = thread /\ interrupt' = interrupt \ {t} /\ UNCHANGED durableVars
  BY DEF End, Dismiss
<1>2. [at |-> outcome, base |-> 0, from |-> NoBinding] \in AttemptRow /\ NoWorker \in Worker
  BY AttemptAssumption DEF AttemptAssumption, AttemptRow, Place, Final, NoWorker, Worker
<1>3. /\ attempt' \in [Attempt -> AttemptRow] /\ worker' \in [Attempt -> Worker]
      /\ stdout' \in [Attempt -> Seq(Frame)] /\ buffered' \in [Attempt -> Seq(Event)]
      /\ attempt'[t] = [at |-> outcome, base |-> 0, from |-> NoBinding]
      /\ worker'[t] = NoWorker /\ stdout'[t] = <<>> /\ buffered'[t] = <<>>
      /\ \A u \in Attempt \ {t} : attempt'[u] = attempt[u] /\ worker'[u] = worker[u]
                               /\ stdout'[u] = stdout[u] /\ buffered'[u] = buffered[u]
  BY <1>1, <1>2, StaysPut
<1>4. TypeOK'
  <2>1. heard' \in [Attempt -> Nat]
    BY <1>1, StaysPut
  <2>2. interrupt' \subseteq Interruptible
    BY <1>1 DEF Inv, TypeOK
  <2> QED
    BY <1>1, <1>3, <2>1, <2>2, StaysPut, TypesKept
<1>5. \A u \in Attempt \ {t} : Apart(u)
  BY <1>1, <1>3 DEF Apart
<1>6. At(t)' = outcome /\ Base(t)' = 0 /\ From(t)' = NoBinding
  BY <1>3 DEF At, Base, From
<1>7. BaseOK(t)' /\ FromOK(t)'
  <2>1. Generation' \in Nat
    BY <1>1, Places DEF Generation, durableVars
  <2> QED
    BY <1>6, <2>1 DEF BaseOK, FromOK, RowOK, Idle
<1>8. CommitOK(t)' /\ TraceOK(t)'
  BY <1>1, <1>6 DEF Inv, AttemptOK, CommitOK, TraceOK, Committed, durableVars
<1>9. WorkerOK(t)' /\ ThreadOK(t)'
  BY <1>3, <1>6 DEF WorkerOK, ThreadOK, NoWorker
<1>10. AnswersOK(t)' /\ OpenOK(t)' /\ DoneOK(t)'
  BY <1>3, <1>6, EmptySays DEF AnswersOK, OpenOK, DoneOK, NoWorker, StartUp, Committed
<1>11. AttemptOK(t)'
  BY <1>7, <1>8, <1>9, <1>10 DEF AttemptOK
<1> QED
  BY <1>1, <1>4, <1>5, <1>11, OneAttempt DEF durableVars

LEMMA EndsKeep ==
  ASSUME Inv, NEW t \in Attempt,
         \/ LoadFails(t) \/ StartUpFails(t) \/ CallFails(t) \/ RequestRefused(t) \/ TurnFails(t)
         \/ SettledOtherwise(t) \/ ShutdownTimesOut(t) \/ Stopped(t) \/ CloseFails(t) \/ CommitFails(t) \/ Crash(t)
  PROVE  Inv'
<1>1. PICK outcome \in {"failed", "interrupted", "crashed"} :
        /\ End(t, outcome) /\ At(t) # "completed"
        /\ outcome = "crashed" \/ At(t) \notin Committed \cup {"crashed"}
  BY DEF LoadFails, StartUpFails, CallFails, RequestRefused, TurnFails, SettledOtherwise,
     ShutdownTimesOut, Stopped, CloseFails, CommitFails, Crash, Ended, Final, Waiting, Listening, StartUp, Committed
<1> QED
  BY <1>1, EndKeeps

LEMMA BeginKeeps ==
  ASSUME Inv, NEW t \in Attempt, Begin(t)
  PROVE  Inv'
<1>1. /\ At(t) = "new" /\ attempt' = [attempt EXCEPT ![t].at = "load", ![t].base = Generation]
      /\ UNCHANGED <<durableVars, interrupt, engineVars>>
  BY DEF Begin
<1>2. UNCHANGED <<transcript, binding, interrupt, thread, worker, stdout, buffered, heard>>
  BY <1>1 DEF durableVars, engineVars
<1>3. Generation \in 0..TranscriptBound + 1 /\ Generation >= 1 /\ Generation' = Generation
  BY <1>2, Places, AttemptAssumption DEF AttemptAssumption, Inv, TypeOK, Generation
<1>4. /\ attempt' \in [Attempt -> AttemptRow]
      /\ At(t)' = "load" /\ Base(t)' = Generation /\ From(t)' = From(t)
      /\ \A u \in Attempt \ {t} : attempt'[u] = attempt[u]
  BY <1>1, <1>3, StaysPut DEF At, Base, From, AttemptRow, Place
<1>5. TypeOK'
  BY <1>1, <1>2, <1>4, StaysPut, TypesKept DEF Inv, TypeOK
<1>6. \A u \in Attempt \ {t} : Apart(u)
  BY <1>2, <1>4 DEF Apart
<1>7. AttemptOK(t)'
  <2>1. AttemptOK(t) /\ worker[t] = NoWorker /\ stdout[t] = <<>> /\ buffered[t] = <<>>
        /\ From(t) = NoBinding
    BY <1>1 DEF Inv, AttemptOK, WorkerOK, FromOK, Idle
  <2>2. BaseOK(t)' /\ FromOK(t)'
    BY <1>3, <1>4, <2>1 DEF BaseOK, FromOK, RowOK
  <2>3. CommitOK(t)' /\ TraceOK(t)'
    BY <1>1, <1>2, <1>4, <2>1 DEF AttemptOK, CommitOK, TraceOK, Committed
  <2>4. WorkerOK(t)' /\ ThreadOK(t)'
    BY <1>2, <1>4, <2>1 DEF WorkerOK, ThreadOK, NoWorker
  <2>5. AnswersOK(t)' /\ OpenOK(t)' /\ DoneOK(t)'
    BY <1>2, <1>4, <2>1, EmptySays DEF AnswersOK, OpenOK, DoneOK, NoWorker, StartUp, Committed
  <2> QED
    BY <2>2, <2>3, <2>4, <2>5 DEF AttemptOK
<1> QED
  BY <1>1, <1>2, <1>5, <1>6, <1>7, OneAttempt

\* The row that is loaded is current, so it is the caller's.
LEMMA LoadKeeps ==
  ASSUME Inv, NEW t \in Attempt, LoadBinding(t)
  PROVE  Inv'
<1> DEFINE row == CurrentBinding(Base(t))
<1>1. /\ At(t) = "load"
      /\ attempt' = [attempt EXCEPT ![t].at = "initialize", ![t].from = row]
      /\ worker' = [worker EXCEPT ![t].up = TRUE, ![t].asked = "initialize"]
      /\ UNCHANGED <<transcript, binding, interrupt, thread, stdout, buffered, heard>>
  BY DEF LoadBinding, Base, durableVars
<1>2. /\ row \in Binding \cup {NoBinding} /\ RowOK(row)
      /\ row # NoBinding => row.generation = Base(t)
  BY DEF Inv, TypeOK, CurrentBinding, RowOK
<1> HIDE DEF row
<1>3. AttemptOK(t) /\ worker[t] = NoWorker /\ stdout[t] = <<>> /\ buffered[t] = <<>>
  BY <1>1 DEF Inv, AttemptOK, WorkerOK, Idle
<1>4. PICK r : r = row
  OBVIOUS
<1>5. /\ attempt' \in [Attempt -> AttemptRow]
      /\ At(t)' = "initialize" /\ Base(t)' = Base(t) /\ From(t)' = r
      /\ \A u \in Attempt \ {t} : attempt'[u] = attempt[u]
  <2>1. attempt \in [Attempt -> AttemptRow] /\ attempt[t] \in AttemptRow
    BY StaysPut
  <2>2. [attempt[t] EXCEPT !.at = "initialize", !.from = r] \in AttemptRow
    <3>1. "initialize" \in Place /\ r \in Binding \cup {NoBinding}
      BY <1>2, <1>4 DEF Place, Asking, StartUp
    <3> QED
      BY <2>1, <3>1 DEF AttemptRow
  <2>3. attempt' = [attempt EXCEPT ![t] = [attempt[t] EXCEPT !.at = "initialize", !.from = r]]
    BY <1>1, <1>4, <2>1
  <2> QED
    BY <2>1, <2>2, <2>3 DEF At, Base, From, AttemptRow
<1>6. /\ worker' \in [Attempt -> Worker]
      /\ worker'[t].asked = "initialize" /\ worker'[t].up = TRUE /\ worker'[t].turn = "none"
      /\ worker'[t].said = 0 /\ worker'[t].emitted = 0
      /\ \A u \in Attempt \ {t} : worker'[u] = worker[u]
  <2> DEFINE w == [NoWorker EXCEPT !.up = TRUE, !.asked = "initialize"]
  <2>1. worker \in [Attempt -> Worker] /\ NoWorker \in Worker
    BY <1>3, StaysPut
  <2>2. w \in Worker /\ w.asked = "initialize" /\ w.up = TRUE /\ w.turn = "none"
        /\ w.said = 0 /\ w.emitted = 0
    BY <2>1 DEF Worker, NoWorker, Asking, StartUp
  <2>3. worker' = [worker EXCEPT ![t] = w]
    BY <1>1, <1>3, <2>1
  <2> HIDE DEF w
  <2> QED
    BY <2>1, <2>2, <2>3
<1>7. TypeOK'
  BY <1>1, <1>5, <1>6, StaysPut, TypesKept DEF Inv, TypeOK, durableVars
<1>8. \A u \in Attempt \ {t} : Apart(u)
  BY <1>1, <1>5, <1>6 DEF Apart
<1>9. AttemptOK(t)'
  <2>1. BaseOK(t)'
    BY <1>1, <1>3, <1>5 DEF AttemptOK, BaseOK, Generation
  <2>2. FromOK(t)'
    <3>1. r # NoBinding => /\ attempt'[r.turn].at = "completed"
                           /\ attempt'[r.turn].base + 1 = r.generation
      BY <1>1, <1>2, <1>4, <1>8, RowStays
    <3> QED
      BY <1>2, <1>4, <1>5, <3>1 DEF FromOK, RowOK, At, Base, Idle
  <2>3. CommitOK(t)' /\ TraceOK(t)'
    BY <1>1, <1>3, <1>5 DEF AttemptOK, CommitOK, TraceOK, Committed
  <2>4. WorkerOK(t)' /\ ThreadOK(t)'
    BY <1>5, <1>6 DEF WorkerOK, ThreadOK, Supervising, Final, Idle
  <2>5. AnswersOK(t)' /\ OpenOK(t)' /\ DoneOK(t)'
    BY <1>1, <1>3, <1>5, <1>6, EmptySays DEF AnswersOK, OpenOK, DoneOK, StartUp, Committed
  <2> QED
    BY <2>1, <2>2, <2>3, <2>4, <2>5 DEF AttemptOK
<1> QED
  BY <1>1, <1>7, <1>8, <1>9, OneAttempt

LEMMA InterruptKeeps ==
  ASSUME Inv, NEW t \in Attempt, Interrupt(t)
  PROVE  Inv'
<1>1. /\ UNCHANGED <<transcript, binding, attempt, thread, worker, stdout, buffered, heard>>
      /\ interrupt' = interrupt \cup {t} /\ t \in Interruptible
  BY DEF Interrupt, durableVars, engineVars
<1>2. TypeOK'
  BY <1>1 DEF Inv, TypeOK
<1>3. RowOK(binding)'
  BY <1>1 DEF Inv, RowOK, At, Base
<1>4. ASSUME NEW u \in Attempt PROVE AttemptOK(u)'
  <2>1. AttemptOK(u)
    BY DEF Inv
  <2>2. BaseOK(u)' /\ CommitOK(u)' /\ FromOK(u)' /\ WorkerOK(u)'
    BY <1>1, <2>1 DEF AttemptOK, BaseOK, CommitOK, FromOK, WorkerOK, RowOK, At, Base, From,
       Generation, Supervising
  <2>3. AnswersOK(u)' /\ OpenOK(u)' /\ ThreadOK(u)' /\ DoneOK(u)' /\ TraceOK(u)'
    BY <1>1, <2>1 DEF AttemptOK, AnswersOK, OpenOK, ThreadOK, DoneOK, TraceOK, Fresh, At, Base, From
  <2> QED
    BY <2>2, <2>3 DEF AttemptOK
<1> QED
  BY <1>2, <1>3, <1>4 DEF Inv

\* The turn is committed at the place its attempt started from.
LEMMA CommitKeeps ==
  ASSUME Inv, NEW t \in Attempt, Commit(t)
  PROVE  Inv'
<1>1. /\ At(t) = "commit" /\ Base(t) = Generation /\ Len(transcript) < TranscriptBound
      /\ transcript' = Append(transcript, t) /\ Goto(t, "save")
      /\ UNCHANGED <<binding, interrupt, thread, worker, stdout, buffered, heard>>
  BY DEF Commit, Base, engineVars
<1>2. /\ attempt' \in [Attempt -> AttemptRow]
      /\ At(t)' = "save" /\ Base(t)' = Base(t) /\ From(t)' = From(t)
      /\ \A u \in Attempt \ {t} : Apart(u)
  BY <1>1, GotoEffect DEF Place, Apart
<1>3. /\ transcript' \in Seq(Turn) /\ Len(transcript') = Len(transcript) + 1
      /\ DOMAIN transcript' = 1..Len(transcript) + 1 /\ DOMAIN transcript = 1..Len(transcript)
      /\ \A i \in DOMAIN transcript : transcript'[i] = transcript[i]
      /\ transcript'[Len(transcript) + 1] = t
      /\ Generation = Len(transcript) + 1 /\ Len(transcript) \in Nat
  BY <1>1, Places, AppendOf DEF Turn
<1>4. TypeOK'
  BY <1>1, <1>2, <1>3, AttemptAssumption DEF AttemptAssumption, Inv, TypeOK, AttemptRow
<1>5. AttemptOK(t) /\ worker[t].turn = "ended" /\ ~worker[t].up
  BY <1>1 DEF Inv, AttemptOK, DoneOK, WorkerOK, Supervising
<1>6. AttemptOK(t)'
  <2>1. BaseOK(t)' /\ CommitOK(t)'
    BY <1>1, <1>2, <1>3 DEF BaseOK, CommitOK, Committed, Idle, Generation
  <2>2. FromOK(t)'
    BY <1>1, <1>2, FromStays DEF Idle
  <2>3. WorkerOK(t)' /\ AnswersOK(t)' /\ DoneOK(t)'
    BY <1>1, <1>2, <1>5 DEF AttemptOK, WorkerOK, AnswersOK, DoneOK, Idle, StartUp, Committed
  <2>4. OpenOK(t)'
    BY <1>1, <1>2, <1>5 DEF OpenOK
  <2>5. ThreadOK(t)' /\ TraceOK(t)'
    BY <1>1, <1>2, <1>3, <1>5 DEF AttemptOK, ThreadOK, TraceOK
  <2> QED
    BY <2>1, <2>2, <2>3, <2>4, <2>5 DEF AttemptOK
<1>7. ASSUME NEW u \in Attempt \ {t} PROVE AttemptOK(u)'
  BY <1>1, <1>2, ApartKept
<1>8. RowOK(binding)'
  <2>1. binding # NoBinding =>
           /\ attempt'[binding.turn].at = "completed"
           /\ attempt'[binding.turn].base + 1 = binding.generation
    BY <1>1, <1>2, RowStays DEF Inv, TypeOK
  <2> QED
    BY <1>1, <2>1 DEF RowOK, At, Base
<1> QED
  BY <1>4, <1>6, <1>7, <1>8 DEF Inv

LEMMA SaveKeeps ==
  ASSUME Inv, NEW t \in Attempt, Save(t)
  PROVE  Inv'
<1>1. /\ At(t) = "save" /\ Base(t) + 1 = Generation
      /\ binding' = [generation |-> Base(t) + 1, turn |-> t] /\ Goto(t, "completed")
      /\ UNCHANGED <<transcript, interrupt, thread, worker, stdout, buffered, heard>>
  BY DEF Save, Base, engineVars
<1>2. /\ attempt' \in [Attempt -> AttemptRow]
      /\ At(t)' = "completed" /\ Base(t)' = Base(t) /\ From(t)' = From(t)
      /\ \A u \in Attempt \ {t} : Apart(u)
  BY <1>1, GotoEffect DEF Place, Final, Apart
<1>3. binding' \in Binding
  <2>1. Base(t) + 1 \in 1..TranscriptBound + 1
    BY <1>1, Places, AttemptAssumption DEF AttemptAssumption, Inv, TypeOK
  <2> QED
    BY <1>1, <2>1 DEF Binding
<1>4. TypeOK'
  BY <1>1, <1>2, <1>3 DEF Inv, TypeOK, AttemptRow
<1>5. RowOK(binding)'
  <2>1. binding'.turn = t /\ binding'.generation = Base(t) + 1
    BY <1>1
  <2>2. attempt'[binding'.turn].at = "completed"
        /\ attempt'[binding'.turn].base + 1 = binding'.generation
    BY <1>2, <2>1 DEF At, Base
  <2> QED
    BY <2>2 DEF RowOK, At, Base
<1>6. AttemptOK(t)'
  <2>1. AttemptOK(t) /\ worker[t].turn = "ended" /\ ~worker[t].up
    BY <1>1 DEF Inv, AttemptOK, DoneOK, WorkerOK, Supervising, Committed
  <2>2. BaseOK(t)' /\ CommitOK(t)'
    BY <1>1, <1>2, <2>1 DEF AttemptOK, BaseOK, CommitOK, Committed, Idle, Generation
  <2>3. FromOK(t)'
    BY <1>1, <1>2, FromStays DEF Idle
  <2>4. WorkerOK(t)' /\ AnswersOK(t)' /\ DoneOK(t)'
    BY <1>1, <1>2, <2>1 DEF AttemptOK, WorkerOK, AnswersOK, DoneOK, Idle, StartUp, Committed
  <2>5. OpenOK(t)'
    BY <1>1, <1>2, <2>1 DEF OpenOK
  <2>6. ThreadOK(t)' /\ TraceOK(t)'
    BY <1>1, <1>2, <2>1 DEF AttemptOK, ThreadOK, TraceOK
  <2> QED
    BY <2>2, <2>3, <2>4, <2>5, <2>6 DEF AttemptOK
<1>7. ASSUME NEW u \in Attempt \ {t} PROVE AttemptOK(u)'
  BY <1>1, <1>2, ApartKept
<1> QED
  BY <1>4, <1>5, <1>6, <1>7 DEF Inv

-----------------------------------------------------------------------------
(* The steps of the worker. *)

LEMMA WorkerActs ==
  ASSUME Inv, NEW t \in Attempt, worker[t].up,
         NEW w \in Worker, NEW q \in Seq(Frame), NEW th \in Seq(Turn \cup {Residue}),
         UNCHANGED <<durableVars, attempt, interrupt, buffered, heard>>,
         worker' = [worker EXCEPT ![t] = w], stdout' = [stdout EXCEPT ![t] = q],
         thread' = [thread EXCEPT ![t] = th],
         w.said <= w.emitted, w.asked \in {"nothing", worker[t].asked},
         At(t) \in {"initialize", "config", "open"}
           \/ w.asked \in {"initialize", "config", "open"} => w.turn = "none",
         w.asked # "nothing" => ~Says(q, Answers),
         OneAnswer(q), Says(q, Answers) => worker[t].asked # "nothing" \/ Says(stdout[t], Answers),
         At(t) = "open" /\ Says(q, {"reply"}) => Fresh(t)',
         w.asked = "start" /\ w.turn = "none" => Fresh(t)',
         ThreadOK(t)', TraceOK(t)',
         Says(q, {"completed"}) => w.turn = "ended", worker[t].turn = "ended" => w.turn = "ended"
  PROVE  Inv'
<1>1. /\ worker' \in [Attempt -> Worker] /\ stdout' \in [Attempt -> Seq(Frame)]
      /\ thread' \in [Attempt -> Seq(Turn \cup {Residue})]
      /\ worker'[t] = w /\ stdout'[t] = q /\ thread'[t] = th
      /\ \A u \in Attempt \ {t} : Apart(u)
  BY StaysPut DEF Apart
<1>2. TypeOK'
  BY <1>1, StaysPut, TypesKept DEF Inv, TypeOK
<1>3. UNCHANGED <<transcript, binding>> /\ At(t)' = At(t) /\ Base(t)' = Base(t) /\ From(t)' = From(t)
      /\ buffered' = buffered
  BY DEF durableVars, At, Base, From
<1>4. AttemptOK(t) /\ Supervising(t)
  BY DEF Inv, AttemptOK, WorkerOK
<1>5. BaseOK(t)' /\ CommitOK(t)'
  BY <1>3, <1>4 DEF AttemptOK, BaseOK, CommitOK, Generation
<1>6. FromOK(t)'
  BY <1>1, <1>3, <1>4, FromStays DEF Supervising, Final, Idle
<1>7. WorkerOK(t)'
  BY <1>1, <1>3, <1>4 DEF WorkerOK, Supervising, Final, Idle
<1>8. AnswersOK(t)'
  BY <1>1, <1>3, <1>4 DEF AttemptOK, AnswersOK
<1>9. OpenOK(t)'
  BY <1>1, <1>3 DEF OpenOK
<1>10. DoneOK(t)'
  BY <1>1, <1>3, <1>4 DEF AttemptOK, DoneOK
<1>11. AttemptOK(t)'
  BY <1>5, <1>6, <1>7, <1>8, <1>9, <1>10 DEF AttemptOK
<1>12. At(t) # "completed"
  BY <1>4 DEF Supervising, Final
<1> QED
  BY <1>1, <1>2, <1>3, <1>11, <1>12, OneAttempt

\* What the worker writes does not change its thread.
LEMMA WriteKeeps ==
  ASSUME Inv, NEW t \in Attempt, worker[t].up, NEW w \in Worker, NEW q \in Seq(Frame),
         UNCHANGED <<durableVars, attempt, interrupt, buffered, heard, thread>>,
         worker' = [worker EXCEPT ![t] = w], stdout' = [stdout EXCEPT ![t] = q],
         w.said <= w.emitted, w.asked \in {"nothing", worker[t].asked}, w.turn = worker[t].turn,
         w.asked # "nothing" => ~Says(q, Answers),
         OneAnswer(q), Says(q, Answers) => worker[t].asked # "nothing" \/ Says(stdout[t], Answers),
         At(t) = "open" /\ Says(q, {"reply"}) => Says(stdout[t], {"reply"}),
         Says(q, {"completed"}) => Says(stdout[t], {"completed"})
  PROVE  Inv'
<1>1. thread' = [thread EXCEPT ![t] = thread[t]] /\ thread[t] \in Seq(Turn \cup {Residue})
  BY StaysPut
<1>2. AttemptOK(t) /\ worker'[t] = w
  BY StaysPut DEF Inv
<1>3. Fresh(t) => Fresh(t)'
  BY DEF Fresh, Base, From, durableVars
<1>4. ThreadOK(t)' /\ TraceOK(t)'
  BY <1>2 DEF AttemptOK, ThreadOK, TraceOK, Base, durableVars
<1>5. /\ At(t) = "open" /\ Says(q, {"reply"}) => Fresh(t)'
      /\ w.asked = "start" /\ w.turn = "none" => Fresh(t)'
  BY <1>2, <1>3 DEF AttemptOK, OpenOK
<1>6. /\ At(t) \in {"initialize", "config", "open"}
           \/ w.asked \in {"initialize", "config", "open"} => w.turn = "none"
      /\ Says(q, {"completed"}) => w.turn = "ended"
  BY <1>2 DEF AttemptOK, WorkerOK, DoneOK
<1> QED
  BY <1>1, <1>4, <1>5, <1>6, WorkerActs

LEMMA RepliesKeep ==
  ASSUME Inv, NEW t \in Attempt, Answer(t) \/ Refuse(t)
  PROVE  Inv'
<1> DEFINE w == [worker[t] EXCEPT !.asked = "nothing"]
<1>1. PICK frame \in Answers :
        /\ worker[t].up /\ worker[t].asked # "nothing"
        /\ frame = "reply" => worker[t].asked # "open"
        /\ stdout' = [stdout EXCEPT ![t] = Append(@, frame)]
        /\ worker' = [worker EXCEPT ![t].asked = "nothing"]
        /\ UNCHANGED <<durableVars, attempt, interrupt, thread, buffered, heard>>
  BY DEF Answer, Refuse, Write, Answers
<1>2. w \in Worker /\ worker' = [worker EXCEPT ![t] = w] /\ w.asked = "nothing"
      /\ w.turn = worker[t].turn /\ w.said <= w.emitted
  <2>1. worker[t] \in Worker /\ worker \in [Attempt -> Worker] /\ worker[t].said <= worker[t].emitted
    BY StaysPut DEF Inv, AttemptOK, WorkerOK
  <2> QED
    BY <1>1, <2>1 DEF Worker
<1> DEFINE q == Append(stdout[t], frame)
<1>3. frame \in Frame /\ ~Says(stdout[t], Answers) /\ stdout[t] \in Seq(Frame)
  BY <1>1, StaysPut DEF Frame, Answers, Inv, AttemptOK, AnswersOK
<1>4. /\ q \in Seq(Frame) /\ OneAnswer(q) /\ stdout' = [stdout EXCEPT ![t] = q]
      /\ \A F : Says(q, F) => Says(stdout[t], F) \/ frame \in F
  BY <1>1, <1>3, AppendSays
<1>5. At(t) = "open" /\ Says(q, {"reply"}) => Says(stdout[t], {"reply"})
  BY <1>1, <1>4 DEF Inv, AttemptOK, AnswersOK, StartUp
<1>6. Says(q, {"completed"}) => Says(stdout[t], {"completed"})
  BY <1>4 DEF Answers
<1> HIDE DEF w, q
<1> QED
  BY <1>1, <1>2, <1>4, <1>5, <1>6, WriteKeeps

LEMMA EmitKeeps ==
  ASSUME Inv, NEW t \in Attempt, NEW event \in {"text", "call"}, Emit(t, event)
  PROVE  Inv'
<1>1. /\ worker[t].up /\ worker[t].turn = "running" /\ worker[t].emitted < EventBound
      /\ stdout' = [stdout EXCEPT ![t] = Append(@, event)]
      /\ UNCHANGED <<durableVars, attempt, interrupt, thread, buffered, heard>>
  BY DEF Emit, Write
<1>2. PICK w \in Worker :
        /\ worker' = [worker EXCEPT ![t] = w] /\ w.asked = worker[t].asked
        /\ w.turn = worker[t].turn /\ w.said <= w.emitted
  <2>1. worker[t] \in Worker /\ worker \in [Attempt -> Worker] /\ worker[t].said <= worker[t].emitted
    BY StaysPut DEF Inv, AttemptOK, WorkerOK
  <2> DEFINE n == worker[t].emitted + 1
             m == IF event = "text" THEN worker[t].said + 1 ELSE worker[t].said
  <2>2. n \in 0..EventBound /\ m \in 0..EventBound /\ m <= n
    BY <1>1, <2>1, AttemptAssumption DEF AttemptAssumption, Worker
  <2>3. worker' = [worker EXCEPT ![t] = [worker[t] EXCEPT !.emitted = n, !.said = m]]
    BY <2>1 DEF Emit
  <2> HIDE DEF n, m
  <2>4. /\ [worker[t] EXCEPT !.emitted = n, !.said = m] \in Worker
        /\ [worker[t] EXCEPT !.emitted = n, !.said = m].asked = worker[t].asked
        /\ [worker[t] EXCEPT !.emitted = n, !.said = m].turn = worker[t].turn
        /\ [worker[t] EXCEPT !.emitted = n, !.said = m].said = m
        /\ [worker[t] EXCEPT !.emitted = n, !.said = m].emitted = n
    BY <2>1, <2>2 DEF Worker
  <2> QED
    BY <2>2, <2>3, <2>4
<1> DEFINE q == Append(stdout[t], event)
<1>3. event \in Frame /\ event \notin Answers /\ stdout[t] \in Seq(Frame) /\ OneAnswer(stdout[t])
  BY StaysPut DEF Frame, Event, Answers
<1>4. /\ q \in Seq(Frame) /\ OneAnswer(q) /\ stdout' = [stdout EXCEPT ![t] = q]
      /\ \A F : Says(q, F) => Says(stdout[t], F) \/ event \in F
  BY <1>1, <1>3, AppendSays
<1>5. /\ Says(q, Answers) => Says(stdout[t], Answers)
      /\ Says(q, {"reply"}) => Says(stdout[t], {"reply"})
      /\ Says(q, {"completed"}) => Says(stdout[t], {"completed"})
  BY <1>3, <1>4
<1>6. w.asked # "nothing" => ~Says(q, Answers)
  BY <1>2, <1>5 DEF Inv, AttemptOK, AnswersOK
<1> HIDE DEF q
<1> QED
  BY <1>1, <1>2, <1>4, <1>5, <1>6, WriteKeeps

LEMMA DieKeeps ==
  ASSUME Inv, NEW t \in Attempt, Die(t)
  PROVE  Inv'
<1>1. /\ worker[t].up /\ stdout[t] = <<>>
      /\ worker' = [worker EXCEPT ![t].up = FALSE, ![t].asked = "nothing"]
      /\ UNCHANGED <<durableVars, attempt, interrupt, thread, stdout, buffered, heard>>
  BY DEF Die
<1> DEFINE w == [worker[t] EXCEPT !.up = FALSE, !.asked = "nothing"]
<1>2. worker[t] \in Worker /\ worker \in [Attempt -> Worker] /\ worker[t].said <= worker[t].emitted
  BY StaysPut DEF Inv, AttemptOK, WorkerOK
<1>3. w \in Worker /\ w.asked = "nothing" /\ w.turn = worker[t].turn /\ w.said <= w.emitted
  BY <1>2 DEF Worker
<1>4. worker' = [worker EXCEPT ![t] = w]
  BY <1>1, <1>2
<1>5. stdout' = [stdout EXCEPT ![t] = stdout[t]] /\ stdout[t] \in Seq(Frame)
  BY <1>1, StaysPut
<1> HIDE DEF w
<1> QED
  BY <1>1, <1>3, <1>4, <1>5, StaysPut, WriteKeeps

\* The worker goes on in its thread, never in Hermes' turn.
LEMMA EndTurnKeeps ==
  ASSUME Inv, NEW t \in Attempt, NEW terminal \in {"completed", "failed", "interrupted", "bad"},
         EndTurn(t, terminal)
  PROVE  Inv'
<1> DEFINE w == [worker[t] EXCEPT !.turn = "ended"]
           q == Append(stdout[t], terminal)
           th == Append(thread[t], Residue)
<1>1. /\ worker[t].up /\ worker[t].turn = "running"
      /\ worker' = [worker EXCEPT ![t].turn = "ended"]
      /\ thread' = [thread EXCEPT ![t] = th] /\ stdout' = [stdout EXCEPT ![t] = q]
      /\ UNCHANGED <<durableVars, attempt, interrupt, buffered, heard>>
  BY DEF EndTurn, Write
<1>2. w \in Worker /\ worker' = [worker EXCEPT ![t] = w] /\ w.asked = worker[t].asked
      /\ w.turn = "ended" /\ w.said <= w.emitted
  <2>1. worker[t] \in Worker /\ worker \in [Attempt -> Worker] /\ worker[t].said <= worker[t].emitted
    BY StaysPut DEF Inv, AttemptOK, WorkerOK
  <2> QED
    BY <1>1, <2>1 DEF Worker
<1>3. terminal \in Frame /\ terminal \notin Answers /\ stdout[t] \in Seq(Frame) /\ OneAnswer(stdout[t])
  BY StaysPut DEF Frame, Event, Answers
<1>4. /\ q \in Seq(Frame) /\ OneAnswer(q)
      /\ \A F : Says(q, F) => Says(stdout[t], F) \/ terminal \in F
  BY <1>3, AppendSays
<1>5. /\ Says(q, Answers) => Says(stdout[t], Answers)
      /\ Says(q, {"reply"}) => Says(stdout[t], {"reply"})
  BY <1>3, <1>4 DEF Answers
<1>6. AttemptOK(t) /\ At(t) \notin {"initialize", "config", "open"}
      /\ w.asked \notin {"initialize", "config", "open"}
  BY <1>1, <1>2 DEF Inv, AttemptOK, WorkerOK
<1>7. w.asked # "nothing" => ~Says(q, Answers)
  BY <1>2, <1>5, <1>6 DEF AttemptOK, AnswersOK
<1>8. /\ th \in Seq(Turn \cup {Residue}) /\ DOMAIN th = DOMAIN thread[t] \cup {Len(thread[t]) + 1}
      /\ \A i \in DOMAIN thread[t] : th[i] = thread[t][i]
      /\ th[Len(thread[t]) + 1] = Residue /\ DOMAIN thread[t] = 1..Len(thread[t])
  BY StaysPut, AppendOf
<1>9. thread'[t] = th /\ transcript' = transcript /\ Base(t)' = Base(t) /\ worker'[t] = w
  BY <1>1, <1>2, StaysPut DEF durableVars, Base
<1> HIDE DEF w, q, th
<1>10. ThreadOK(t)'
  <2>1. Residue # t
    BY AttemptAssumption DEF AttemptAssumption
  <2>2. /\ Base(t) \in DOMAIN thread[t] /\ thread[t][Base(t)] = t
        /\ \A i \in 1..Base(t) - 1 : thread[t][i] = transcript[i]
        /\ \A i \in DOMAIN thread[t] : thread[t][i] = t => i = Base(t)
    BY <1>1, <1>6 DEF AttemptOK, ThreadOK
  <2>3. 1..Base(t) - 1 \subseteq DOMAIN thread[t] /\ Len(thread[t]) \in Nat
    BY <1>8, <2>2, StaysPut, Places
  <2>4. Base(t) \in DOMAIN th /\ th[Base(t)] = t
    BY <1>8, <2>2
  <2>5. \A i \in 1..Base(t) - 1 : th[i] = transcript[i]
    BY <1>8, <2>2, <2>3
  <2>6. \A i \in DOMAIN th : th[i] = t => i = Base(t)
    BY <1>8, <2>1, <2>2
  <2> QED
    BY <1>9, <2>4, <2>5, <2>6 DEF ThreadOK
<1>11. TraceOK(t)'
  BY <1>6, <1>8, <1>9 DEF AttemptOK, TraceOK
<1> QED
  BY <1>1, <1>2, <1>4, <1>5, <1>6, <1>7, <1>8, <1>10, <1>11, WorkerActs

\* The fork of a saved thread through its turn is the transcript.
LEMMA OpenedIsFresh ==
  ASSUME Inv, NEW t \in Attempt
  PROVE  /\ Opened(t) \in Seq(Turn \cup {Residue})
         /\ IF From(t) = NoBinding THEN Opened(t) = <<>>
            ELSE /\ Len(Opened(t)) = Base(t) - 1
                 /\ \A i \in 1..Base(t) - 1 : Opened(t)[i] = transcript[i]
                 /\ Base(t) - 1 \in DOMAIN transcript
<1>1. CASE From(t) = NoBinding
  BY <1>1 DEF Opened, From
<1>2. CASE From(t) # NoBinding
  <2>1. PICK b \in Attempt : b = From(t).turn /\ At(b) = "completed" /\ Base(b) + 1 = Base(t)
    BY <1>2, Places DEF Inv, AttemptOK, FromOK, RowOK, Binding
  <2>2. AttemptOK(b) /\ worker[b].turn # "none" /\ thread[b] \in Seq(Turn \cup {Residue})
    BY <2>1, StaysPut DEF Inv, AttemptOK, DoneOK, Committed
  <2>3. /\ Base(b) \in DOMAIN thread[b] /\ thread[b][Base(b)] = b
        /\ \A i \in 1..Base(b) - 1 : thread[b][i] = transcript[i]
        /\ \A i \in DOMAIN thread[b] : thread[b][i] = b => i = Base(b)
        /\ Base(b) \in DOMAIN transcript /\ transcript[Base(b)] = b
    BY <2>1, <2>2 DEF AttemptOK, ThreadOK, CommitOK, Committed
  <2>4. /\ Through(thread[b], b) \in Seq(Turn \cup {Residue})
        /\ Len(Through(thread[b], b)) = Base(b)
        /\ \A i \in 1..Base(b) : Through(thread[b], b)[i] = thread[b][i]
    BY <2>2, <2>3, ThroughPlace
  <2>5. Opened(t) = Through(thread[b], b)
    BY <1>2, <2>1 DEF Opened, From
  <2>6. Base(b) \in Nat /\ Base(t) - 1 = Base(b)
    BY <2>1, Places
  <2>7. \A i \in 1..Base(b) : thread[b][i] = transcript[i]
    BY <2>3, <2>6
  <2> QED
    BY <1>2, <2>3, <2>4, <2>5, <2>6, <2>7
<1> QED
  BY <1>1, <1>2

LEMMA OpenKeeps ==
  ASSUME Inv, NEW t \in Attempt, OpenThread(t)
  PROVE  Inv'
<1> DEFINE w == [worker[t] EXCEPT !.asked = "nothing"]
           q == Append(stdout[t], "reply")
<1>0. PICK th : th = Opened(t)
  OBVIOUS
<1>1. /\ worker[t].up /\ worker[t].asked = "open"
      /\ thread' = [thread EXCEPT ![t] = th] /\ stdout' = [stdout EXCEPT ![t] = q]
      /\ worker' = [worker EXCEPT ![t].asked = "nothing"]
      /\ UNCHANGED <<durableVars, attempt, interrupt, buffered, heard>>
  BY <1>0 DEF OpenThread, Asked, Write
<1>2. w \in Worker /\ worker' = [worker EXCEPT ![t] = w] /\ w.asked = "nothing"
      /\ w.turn = worker[t].turn /\ w.said <= w.emitted
  <2>1. worker[t] \in Worker /\ worker \in [Attempt -> Worker] /\ worker[t].said <= worker[t].emitted
    BY StaysPut DEF Inv, AttemptOK, WorkerOK
  <2> QED
    BY <1>1, <2>1 DEF Worker
<1>3. AttemptOK(t) /\ worker[t].turn = "none" /\ ~Says(stdout[t], Answers)
  BY <1>1 DEF Inv, AttemptOK, WorkerOK, AnswersOK
<1>4. /\ q \in Seq(Frame) /\ OneAnswer(q)
      /\ \A F : Says(q, F) => Says(stdout[t], F) \/ "reply" \in F
  BY <1>3, StaysPut, AppendSays DEF Frame
<1>5. Says(q, {"completed"}) => FALSE
  BY <1>3, <1>4 DEF AttemptOK, DoneOK
<1>6. th \in Seq(Turn \cup {Residue})
      /\ IF From(t) = NoBinding THEN th = <<>>
         ELSE /\ Len(th) = Base(t) - 1
              /\ \A i \in 1..Base(t) - 1 : th[i] = transcript[i]
              /\ Base(t) - 1 \in DOMAIN transcript
  BY <1>0, OpenedIsFresh
<1>7. thread'[t] = th /\ transcript' = transcript /\ Base(t)' = Base(t) /\ From(t)' = From(t)
      /\ worker'[t] = w
  BY <1>1, <1>2, StaysPut DEF durableVars, Base, From
<1> HIDE DEF w, q
<1>8. Fresh(t)'
  BY <1>6, <1>7 DEF Fresh
<1>9. ThreadOK(t)'
  BY <1>2, <1>3, <1>7 DEF ThreadOK
<1>10. TraceOK(t)'
  <2>1. DOMAIN transcript = 1..Len(transcript) /\ Len(transcript) \in Nat /\ DOMAIN th = 1..Len(th)
    BY <1>6, Places
  <2>2. \A i \in DOMAIN th : i \in DOMAIN transcript /\ th[i] = transcript[i]
    BY <1>6, <2>1
  <2> QED
    BY <1>7, <2>2 DEF TraceOK
<1> QED
  BY <1>1, <1>2, <1>3, <1>4, <1>5, <1>6, <1>8, <1>9, <1>10, WorkerActs

\* The turn begins after the whole transcript: the history comes with the fork
\* or with the prompt, never both.
LEMMA BeginTurnKeeps ==
  ASSUME Inv, NEW t \in Attempt, BeginTurn(t)
  PROVE  Inv'
<1> DEFINE w == [worker[t] EXCEPT !.turn = "running"]
<1>0. PICK th : th = thread[t] \o Input(t) \o <<t>>
  OBVIOUS
<1>1. /\ worker[t].up /\ worker[t].asked = "start" /\ worker[t].turn = "none"
      /\ thread' = [thread EXCEPT ![t] = th]
      /\ worker' = [worker EXCEPT ![t].turn = "running"]
      /\ UNCHANGED <<durableVars, attempt, interrupt, stdout, buffered, heard>>
  BY <1>0 DEF BeginTurn, Asked
<1>2. w \in Worker /\ worker' = [worker EXCEPT ![t] = w] /\ w.asked = "start"
      /\ w.turn = "running" /\ w.said <= w.emitted
  <2>1. worker[t] \in Worker /\ worker \in [Attempt -> Worker] /\ worker[t].said <= worker[t].emitted
    BY StaysPut DEF Inv, AttemptOK, WorkerOK
  <2> QED
    BY <1>1, <2>1 DEF Worker
<1>3. AttemptOK(t) /\ Fresh(t) /\ Supervising(t)
  BY <1>1 DEF Inv, AttemptOK, OpenOK, WorkerOK
<1> DEFINE n == Base(t) - 1
           S == Turn \cup {Residue}
<1>4. n \in 0..Len(transcript) /\ Base(t) = n + 1 /\ Len(transcript) \in Nat
      /\ DOMAIN transcript = 1..Len(transcript)
  BY <1>3, Places DEF AttemptOK, BaseOK, Supervising, Idle, Final
<1>5. PICK p \in Seq(S) : th = p \o <<t>> /\ Len(p) = n /\ \A i \in 1..n : p[i] = transcript[i]
  <2>1. CASE From(t) = NoBinding
    <3>1. thread[t] = <<>> /\ Input(t) = SubSeq(transcript, 1, n)
      BY <1>3, <2>1 DEF Fresh, Input, History, From, Base
    <3>2. \A i \in 1..n : transcript[i] \in S
      BY <1>4, Places
    <3>3. /\ SubSeq(transcript, 1, n) \in Seq(S) /\ Len(SubSeq(transcript, 1, n)) = n
          /\ \A i \in 1..n : SubSeq(transcript, 1, n)[i] = transcript[i]
      BY <1>4, <3>2, SubSeqProperties
    <3>4. <<>> \o SubSeq(transcript, 1, n) = SubSeq(transcript, 1, n)
      BY <3>3, ConcatEmptySeq
    <3> QED
      BY <1>0, <3>1, <3>3, <3>4
  <2>2. CASE From(t) # NoBinding
    <3>1. Input(t) = <<>> /\ thread[t] \in Seq(S) /\ Len(thread[t]) = n
          /\ \A i \in 1..n : thread[t][i] = transcript[i]
      BY <1>3, <2>2, Places DEF Fresh, Input, From
    <3>2. thread[t] \o <<>> = thread[t]
      BY <3>1, ConcatEmptySeq
    <3> QED
      BY <1>0, <3>1, <3>2
  <2> QED
    BY <2>1, <2>2
<1>6. /\ th \in Seq(S) /\ Len(th) = n + 1 /\ DOMAIN th = 1..n + 1
      /\ \A i \in 1..n : th[i] = transcript[i]
      /\ th[n + 1] = t
  <2>1. <<t>> \in Seq(S) /\ Len(<<t>>) = 1 /\ <<t>>[1] = t
    BY DEF Turn
  <2>2. /\ th \in Seq(S) /\ Len(th) = n + 1
        /\ \A i \in 1..n + 1 : th[i] = IF i <= n THEN p[i] ELSE <<t>>[i - n]
    BY <1>4, <1>5, <2>1, ConcatProperties
  <2> QED
    BY <1>4, <1>5, <2>1, <2>2
<1>7. thread'[t] = th /\ transcript' = transcript /\ Base(t)' = n + 1 /\ worker'[t] = w
  BY <1>1, <1>2, <1>4, StaysPut DEF durableVars, Base
<1>8. \A i \in 1..n : i \in DOMAIN transcript /\ transcript[i] # t
  BY <1>3, <1>4 DEF AttemptOK, CommitOK, Supervising, Committed, Final
<1>9. ThreadOK(t)'
  BY <1>4, <1>6, <1>7, <1>8 DEF ThreadOK
<1>10. TraceOK(t)'
  BY <1>4, <1>6, <1>7, <1>8 DEF TraceOK
<1>11. stdout' = [stdout EXCEPT ![t] = stdout[t]] /\ stdout[t] \in Seq(Frame) /\ OneAnswer(stdout[t])
  BY <1>1, StaysPut
<1>12. At(t) \notin {"initialize", "config", "open"} /\ ~Says(stdout[t], Answers)
       /\ ~Says(stdout[t], {"completed"})
  BY <1>1, <1>3 DEF AttemptOK, AnswersOK, DoneOK, StartUp
<1> HIDE DEF w
<1> QED
  BY <1>1, <1>2, <1>6, <1>9, <1>10, <1>11, <1>12, WorkerActs

\* Another process may only append.
LEMMA ElsewhereKeeps ==
  ASSUME Inv, AppendElsewhere
  PROVE  Inv'
<1>1. /\ Len(transcript) < TranscriptBound /\ transcript' = Append(transcript, Elsewhere)
      /\ UNCHANGED <<binding, attempt, interrupt, thread, worker, stdout, buffered, heard>>
  BY DEF AppendElsewhere, engineVars
<1>2. transcript \in Seq(Turn) /\ Elsewhere \in Turn /\ Elsewhere \notin Attempt
  BY AttemptAssumption DEF AttemptAssumption, Inv, TypeOK, Turn
<1>3. /\ transcript' \in Seq(Turn) /\ Len(transcript') = Len(transcript) + 1
      /\ DOMAIN transcript' = 1..Len(transcript) + 1 /\ DOMAIN transcript = 1..Len(transcript)
      /\ \A i \in DOMAIN transcript : transcript'[i] = transcript[i]
      /\ transcript'[Len(transcript) + 1] = Elsewhere /\ Len(transcript) \in Nat
  BY <1>1, <1>2, AppendOf
<1>4. TypeOK'
  BY <1>1, <1>3, AttemptAssumption DEF AttemptAssumption, Inv, TypeOK
<1>5. RowOK(binding)'
  BY <1>1 DEF Inv, RowOK, At, Base
<1>6. ASSUME NEW u \in Attempt PROVE AttemptOK(u)'
  <2>1. AttemptOK(u) /\ Base(u) \in Nat
    BY Places
  <2>2. BaseOK(u)' /\ CommitOK(u)'
    BY <1>1, <1>2, <1>3, <2>1 DEF AttemptOK, BaseOK, CommitOK, At, Base, Generation
  <2>3. FromOK(u)' /\ WorkerOK(u)' /\ AnswersOK(u)' /\ DoneOK(u)'
    BY <1>1, <2>1 DEF AttemptOK, FromOK, WorkerOK, AnswersOK, DoneOK, RowOK, At, Base, From,
       Supervising
  <2>4. \A i \in 1..Base(u) - 1 : transcript'[i] = transcript[i]
    BY <1>3, <2>1 DEF AttemptOK, BaseOK, Generation
  <2>5. OpenOK(u)' /\ ThreadOK(u)'
    BY <1>1, <2>1, <2>4 DEF AttemptOK, OpenOK, ThreadOK, Fresh, At, Base, From
  <2>6. TraceOK(u)'
    BY <1>1, <1>3, <2>1 DEF AttemptOK, TraceOK
  <2> QED
    BY <2>2, <2>3, <2>5, <2>6 DEF AttemptOK
<1> QED
  BY <1>4, <1>5, <1>6 DEF Inv

-----------------------------------------------------------------------------
(* The theorems. *)

\* Nothing in the argument looks at the interrupts.
LEMMA StutterKeeps ==
  ASSUME Inv, UNCHANGED vars
  PROVE  Inv'
<1>1. /\ UNCHANGED <<transcript, binding, attempt, thread, worker, stdout, buffered, heard>>
      /\ interrupt' = interrupt
  BY DEF vars
<1>2. TypeOK' /\ RowOK(binding)'
  BY <1>1 DEF Inv, TypeOK, RowOK, At, Base
<1>3. ASSUME NEW u \in Attempt PROVE AttemptOK(u)'
  <2>1. AttemptOK(u)
    BY DEF Inv
  <2>2. BaseOK(u)' /\ CommitOK(u)' /\ FromOK(u)'
    BY <1>1, <2>1 DEF AttemptOK, BaseOK, CommitOK, FromOK, RowOK, At, Base, From, Generation
  <2>3. WorkerOK(u)' /\ AnswersOK(u)' /\ DoneOK(u)'
    BY <1>1, <2>1 DEF AttemptOK, WorkerOK, AnswersOK, DoneOK, At, Supervising
  <2>4. OpenOK(u)' /\ ThreadOK(u)' /\ TraceOK(u)'
    BY <1>1, <2>1 DEF AttemptOK, OpenOK, ThreadOK, TraceOK, Fresh, At, Base, From
  <2> QED
    BY <2>2, <2>3, <2>4 DEF AttemptOK
<1> QED
  BY <1>2, <1>3 DEF Inv

LEMMA NextKeeps ==
  ASSUME Inv, [Next]_vars
  PROVE  Inv'
<1>1. ASSUME NEW t \in Attempt, StartUpStep(t) PROVE Inv'
  BY <1>1, BeginKeeps, LoadKeeps, EndsKeep, ProceedKeeps DEF StartUpStep
<1>2. ASSUME NEW t \in Attempt, TurnStep(t) PROVE Inv'
  BY <1>2, KeepKeeps, TakesKeep, MovesKeep, EndsKeep DEF TurnStep
<1>3. ASSUME NEW t \in Attempt, InterruptStep(t) PROVE Inv'
  BY <1>3, MovesKeep, AskInterruptKeeps, AcknowledgedKeeps, TakesKeep, EndsKeep DEF InterruptStep
<1>4. ASSUME NEW t \in Attempt, ShutdownStep(t) \/ EndStep(t) PROVE Inv'
  BY <1>4, CloseKeeps, EndsKeep, CommitKeeps, SaveKeeps, MovesKeep DEF ShutdownStep, EndStep
<1>5. ASSUME NEW t \in Attempt, Interrupt(t) \/ Crash(t) PROVE Inv'
  BY <1>5, InterruptKeeps, EndsKeep
<1>6. ASSUME NEW t \in Attempt, WorkerStep(t) PROVE Inv'
  BY <1>6, OpenKeeps, BeginTurnKeeps, RepliesKeep, EmitKeeps, EndTurnKeeps, DieKeeps DEF WorkerStep
<1> QED
  BY <1>1, <1>2, <1>3, <1>4, <1>5, <1>6, ElsewhereKeeps, StutterKeeps DEF Next

LEMMA SpecInv == Spec => []Inv
<1>1. Inv /\ [Next]_vars => Inv'
  BY NextKeeps
<1> QED
  BY InitHolds, <1>1, PTL DEF Spec

\* Every variable keeps its type: in particular the transcript and the rows stay
\* within their bounds, and what is buffered are events, never answers.
THEOREM CodexTypeCorrect == Spec => []TypeOK
<1>1. Inv => TypeOK
  BY DEF Inv
<1> QED
  BY <1>1, SpecInv, PTL

\* Two sequences with the same elements are the same.
LEMMA SameSeq ==
  ASSUME NEW S, NEW T, NEW p \in Seq(S), NEW q \in Seq(T), NEW n \in Nat, Len(p) = n, Len(q) = n,
         \A i \in 1..n : p[i] = q[i]
  PROVE  p = q
<1>1. p \in [1..n -> S] /\ q \in [1..n -> T]
  BY LenProperties
<1> QED
  BY <1>1

\* What a completed attempt's thread holds through its turn.
LEMMA ThreadOfTurn ==
  ASSUME Inv, NEW t \in Attempt, worker[t].turn # "none"
  PROVE  /\ Base(t) \in Nat \ {0}
         /\ Through(thread[t], t) \in Seq(Turn \cup {Residue})
         /\ Len(Through(thread[t], t)) = Base(t)
         /\ \A i \in 1..Base(t) - 1 : Through(thread[t], t)[i] = transcript[i]
         /\ Through(thread[t], t)[Base(t)] = t
<1>1. /\ thread[t] \in Seq(Turn \cup {Residue})
      /\ Base(t) \in DOMAIN thread[t] /\ thread[t][Base(t)] = t
      /\ \A i \in 1..Base(t) - 1 : thread[t][i] = transcript[i]
      /\ \A i \in DOMAIN thread[t] : thread[t][i] = t => i = Base(t)
  BY Places DEF AttemptOK, ThreadOK
<1>2. /\ Through(thread[t], t) \in Seq(Turn \cup {Residue})
      /\ Len(Through(thread[t], t)) = Base(t)
      /\ \A i \in 1..Base(t) : Through(thread[t], t)[i] = thread[t][i]
  BY <1>1, ThroughPlace
<1>3. Base(t) \in Nat \ {0}
  BY <1>1
<1> QED
  BY <1>1, <1>2, <1>3

\* The first turns of the session.
LEMMA PrefixOf ==
  ASSUME Inv, NEW n \in 0..Len(transcript)
  PROVE  /\ Prefix(n) \in Seq(Turn) /\ Len(Prefix(n)) = n
         /\ \A i \in 1..n : Prefix(n)[i] = transcript[i]
<1>1. transcript \in Seq(Turn) /\ Len(transcript) \in Nat
  BY DEF Inv, TypeOK
<1>2. \A i \in 1..n : transcript[i] \in Turn
  BY <1>1
<1> QED
  BY <1>1, <1>2, SubSeqProperties DEF Prefix

\* Whichever hosts raced to save their bindings, in whatever order: the thread of
\* the saved binding, through its last turn, is the transcript at its generation
\* (persist_worker_binding, after the commit and in a transaction of its own).
THEOREM BindingIsSession == Spec => []BindingIsTranscript
<1>1. ASSUME Inv, binding # NoBinding
      PROVE  Through(thread[binding.turn], binding.turn) = Prefix(binding.generation - 1)
  <2>1. PICK b \in Attempt : b = binding.turn /\ At(b) = "completed"
                             /\ Base(b) + 1 = binding.generation
    BY <1>1 DEF Inv, TypeOK, RowOK, Binding
  <2>2. AttemptOK(b) /\ worker[b].turn # "none"
    BY <1>1, <2>1 DEF Inv, AttemptOK, DoneOK, Committed
  <2>3. /\ Base(b) \in DOMAIN transcript /\ transcript[Base(b)] = b
    BY <2>1, <2>2 DEF AttemptOK, CommitOK, Committed
  <2> DEFINE n == Base(b)
             p == Through(thread[b], b)
  <2>4. n \in Nat \ {0} /\ p \in Seq(Turn \cup {Residue}) /\ Len(p) = n
        /\ (\A i \in 1..n - 1 : p[i] = transcript[i]) /\ p[n] = b
    BY <1>1, <2>2, ThreadOfTurn
  <2>5. n \in 0..Len(transcript) /\ binding.generation - 1 = n
    BY <1>1, <2>1, <2>3, <2>4, Places
  <2>6. Prefix(n) \in Seq(Turn) /\ Len(Prefix(n)) = n /\ \A i \in 1..n : Prefix(n)[i] = transcript[i]
    BY <1>1, <2>5, PrefixOf
  <2> HIDE DEF n, p
  <2>7. \A i \in 1..n : p[i] = Prefix(n)[i]
    <3> SUFFICES ASSUME NEW i \in 1..n PROVE p[i] = Prefix(n)[i]
      OBVIOUS
    <3>1. CASE i = n
      BY <3>1, <2>3, <2>4, <2>6 DEF n
    <3>2. CASE i # n
      <4>1. i \in 1..n - 1
        BY <3>2, <2>4
      <4> QED
        BY <4>1, <2>4, <2>6
    <3> QED
      BY <3>1, <3>2
  <2>8. p = Prefix(n)
    BY <2>4, <2>6, <2>7, SameSeq
  <2> QED
    BY <2>1, <2>5, <2>8 DEF n, p
<1>2. Inv => BindingIsTranscript
  BY <1>1 DEF BindingIsTranscript
<1> QED
  BY <1>2, SpecInv, PTL

\* The worker reasons about the session its attempt was started on: not a turn
\* less, and none that was never committed, with the history given by the fork or
\* by the prompt and never by both (project_worker_input, thread/fork).
THEOREM ContextIsSession == Spec => []ContextIsCanonical
<1>1. ASSUME Inv, NEW t \in Attempt, worker[t].turn # "none"
      PROVE  Through(thread[t], t) = Append(Prefix(attempt[t].base - 1), t)
  <2> DEFINE n == Base(t)
             p == Through(thread[t], t)
             r == Append(Prefix(n - 1), t)
  <2>1. n \in Nat \ {0} /\ p \in Seq(Turn \cup {Residue}) /\ Len(p) = n
        /\ (\A i \in 1..n - 1 : p[i] = transcript[i]) /\ p[n] = t
    BY <1>1, ThreadOfTurn
  <2>2. n - 1 \in 0..Len(transcript)
    BY <1>1, <2>1, Places DEF AttemptOK, BaseOK
  <2>3. Prefix(n - 1) \in Seq(Turn) /\ Len(Prefix(n - 1)) = n - 1
        /\ \A i \in 1..n - 1 : Prefix(n - 1)[i] = transcript[i]
    BY <1>1, <2>2, PrefixOf
  <2>4. t \in Turn
    BY DEF Turn
  <2> HIDE DEF n, p
  <2>5. /\ r \in Seq(Turn) /\ Len(r) = n /\ DOMAIN Prefix(n - 1) = 1..n - 1
        /\ \A i \in 1..n - 1 : r[i] = Prefix(n - 1)[i]
        /\ r[n] = t
    BY <2>1, <2>3, <2>4, AppendOf
  <2> HIDE DEF r
  <2>6. \A i \in 1..n : p[i] = r[i]
    <3> SUFFICES ASSUME NEW i \in 1..n PROVE p[i] = r[i]
      OBVIOUS
    <3>1. CASE i = n
      BY <3>1, <2>1, <2>5
    <3>2. CASE i # n
      <4>1. i \in 1..n - 1
        BY <3>2, <2>1
      <4> QED
        BY <4>1, <2>1, <2>3, <2>5
    <3> QED
      BY <3>1, <3>2
  <2>7. p = r
    BY <2>1, <2>5, <2>6, SameSeq
  <2> QED
    BY <2>7 DEF n, p, r, Base
<1>2. Inv => ContextIsCanonical
  BY <1>1 DEF ContextIsCanonical
<1> QED
  BY <1>2, SpecInv, PTL

\* A turn that failed or was interrupted is in no transcript, no saved binding and
\* no other attempt's thread: the append, the binding and the fork all come from
\* attempts that committed.
THEOREM NothingUncommitted == Spec => []NoTraceOfUncommitted
<1>1. ASSUME Inv, NEW t \in Attempt, At(t) \in {"failed", "interrupted"}
      PROVE  /\ \A i \in DOMAIN transcript : transcript[i] # t
             /\ binding.turn # t
             /\ \A u \in Attempt \ {t} : \A i \in DOMAIN thread[u] : thread[u][i] # t
  <2>1. \A i \in DOMAIN transcript : transcript[i] # t
    BY <1>1 DEF Inv, AttemptOK, CommitOK, Committed
  <2>2. binding.turn # t
    <3>1. CASE binding = NoBinding
      BY <3>1, AttemptAssumption DEF AttemptAssumption, NoBinding
    <3>2. CASE binding # NoBinding
      BY <1>1, <3>2 DEF Inv, RowOK
    <3> QED
      BY <3>1, <3>2
  <2>3. ASSUME NEW u \in Attempt \ {t}, NEW i \in DOMAIN thread[u] PROVE thread[u][i] # t
    <3>1. Residue # t
      BY AttemptAssumption DEF AttemptAssumption
    <3>2. \/ thread[u][i] \in {u, Residue}
          \/ \E j \in DOMAIN transcript : transcript[j] = thread[u][i]
      BY <1>1 DEF Inv, AttemptOK, TraceOK
    <3> QED
      BY <3>1, <3>2, <2>1
  <2> QED
    BY <2>1, <2>2, <2>3
<1>2. Inv => NoTraceOfUncommitted
  BY <1>1 DEF NoTraceOfUncommitted
<1> QED
  BY <1>2, SpecInv, PTL

-----------------------------------------------------------------------------
(* The answer.  What the worker said is heard, buffered or still in the    *)
(* pipe, and all of it before the end of the turn.                         *)

Texts(queue) == Cardinality({i \in DOMAIN queue : queue[i] = "text"})

LastWord(queue) ==
    \A i, j \in DOMAIN queue : queue[i] = "completed" /\ queue[j] = "text" => j < i

\* The first queue is read before the second.
Balanced(told, said, first, second) ==
    /\ told + Texts(first) + Texts(second) = said
    /\ LastWord(first) /\ LastWord(second)
    /\ Says(first, {"completed"}) => ~Says(second, {"text"})

Counting == Idle \cup StartUp \cup {"running", "tool"}
Closed == Closing \cup {"commit"} \cup Committed

AnswerOK(t) ==
    /\ At(t) \in Counting => Balanced(heard[t], worker[t].said, buffered[t], stdout[t])
    /\ At(t) \in Closed => heard[t] = worker[t].said

LEMMA TextsFinite ==
  ASSUME NEW S, NEW q \in Seq(S)
  PROVE  /\ IsFiniteSet({i \in DOMAIN q : q[i] = "text"})
         /\ Texts(q) \in Nat
         /\ ~Says(q, {"text"}) => Texts(q) = 0
<1> DEFINE T == {i \in DOMAIN q : q[i] = "text"}
<1>1. DOMAIN q = 1 .. Len(q) /\ Len(q) \in Nat
  OBVIOUS
<1>2. IsFiniteSet(T)
  <2>1. IsFiniteSet(1 .. Len(q)) /\ T \in SUBSET (1 .. Len(q))
    BY <1>1, FS_Interval
  <2> QED
    BY <2>1, FS_Subset
<1>3. ~Says(q, {"text"}) => T = {}
  BY DEF Says
<1> QED
  BY <1>2, <1>3, FS_CardinalityType, FS_EmptySet DEF Texts

LEMMA TextsAppend ==
  ASSUME NEW S, NEW q \in Seq(S), NEW e \in S
  PROVE  /\ Texts(Append(q, e)) = IF e = "text" THEN Texts(q) + 1 ELSE Texts(q)
         /\ LastWord(q) /\ (e = "text" => ~Says(q, {"completed"})) => LastWord(Append(q, e))
<1> DEFINE r == Append(q, e)
           T == {i \in DOMAIN q : q[i] = "text"}
           U == {i \in DOMAIN r : r[i] = "text"}
<1>1. /\ r \in Seq(S) /\ Len(r) = Len(q) + 1 /\ Len(q) \in Nat
      /\ DOMAIN r = 1 .. Len(q) + 1 /\ DOMAIN q = 1 .. Len(q)
      /\ \A i \in DOMAIN q : r[i] = q[i]
      /\ r[Len(q) + 1] = e
  BY AppendOf
<1>2. U = IF e = "text" THEN T \cup {Len(q) + 1} ELSE T
  <2> HIDE DEF r
  <2> QED BY <1>1
<1>3. IsFiniteSet(T) /\ Len(q) + 1 \notin T
  BY <1>1, TextsFinite
<1>4. Texts(r) = IF e = "text" THEN Texts(q) + 1 ELSE Texts(q)
  <2> Cardinality(T \cup {Len(q) + 1}) = Cardinality(T) + 1
    BY <1>3, FS_AddElement
  <2> QED
    BY <1>2 DEF Texts
<1>5. LastWord(q) /\ (e = "text" => ~Says(q, {"completed"})) => LastWord(r)
  <2> HIDE DEF r
  <2> QED BY <1>1 DEF LastWord, Says
<1> QED
  BY <1>4, <1>5

LEMMA TextsTail ==
  ASSUME NEW S, NEW q \in Seq(S), q # <<>>
  PROVE  /\ Texts(q) = IF Head(q) = "text" THEN Texts(Tail(q)) + 1 ELSE Texts(Tail(q))
         /\ LastWord(q) => LastWord(Tail(q))
         /\ LastWord(q) /\ Head(q) = "completed" => ~Says(q, {"text"})
<1> DEFINE r == Tail(q)
           T == {i \in DOMAIN q : q[i] = "text"}
           U == {i \in DOMAIN r : r[i] = "text"}
           V == {i + 1 : i \in U}
           f == [i \in U |-> i + 1]
<1>1. /\ r \in Seq(S) /\ Head(q) = q[1] /\ Len(q) \in Nat \ {0} /\ Len(r) = Len(q) - 1
      /\ DOMAIN q = 1 .. Len(q) /\ DOMAIN r = 1 .. Len(q) - 1
      /\ \A i \in DOMAIN r : r[i] = q[i + 1]
  <2>1. r \in Seq(S) /\ Head(q) = q[1] /\ Len(r) = Len(q) - 1
        /\ \A i \in 1 .. Len(r) : r[i] = q[i + 1]
    BY HeadTailProperties, TailOf
  <2>2. Len(q) \in Nat \ {0}
    BY EmptySeq
  <2> QED
    BY <2>1, <2>2, LenProperties
<1> HIDE DEF r
<1>2. T = IF Head(q) = "text" THEN V \cup {1} ELSE V
  <2>1. \A i \in T : i = 1 \/ (i - 1 \in U /\ i = (i - 1) + 1)
    BY <1>1
  <2>2. \A i \in U : i + 1 \in T /\ i + 1 # 1
    BY <1>1
  <2>3. 1 \in T <=> Head(q) = "text"
    BY <1>1
  <2> HIDE DEF T, U
  <2>4. T \subseteq V \cup {1} /\ V \subseteq T /\ 1 \notin V
    BY <2>1, <2>2
  <2> QED
    BY <2>3, <2>4
<1>3. IsFiniteSet(U)
  BY <1>1, TextsFinite
<1>4. IsFiniteSet(V) /\ Cardinality(V) = Cardinality(U)
  <2>1. f \in Bijection(U, V)
    BY <1>1 DEF Bijection, Injection, Surjection, IsInjective
  <2> QED
    BY <1>3, <2>1, FS_Bijection DEF ExistsBijection
<1>5. 1 \notin V
  BY <1>1
<1>6. Texts(q) = IF Head(q) = "text" THEN Texts(r) + 1 ELSE Texts(r)
  <2> Cardinality(V \cup {1}) = Cardinality(V) + 1
    BY <1>4, <1>5, FS_AddElement
  <2> QED
    BY <1>2, <1>4 DEF Texts
<1>7. LastWord(q) => LastWord(r)
  BY <1>1 DEF LastWord
<1>8. LastWord(q) /\ Head(q) = "completed" => ~Says(q, {"text"})
  BY <1>1 DEF LastWord, Says
<1> QED
  BY <1>6, <1>7, <1>8 DEF r

LEMMA NothingToRead == Texts(<<>>) = 0 /\ LastWord(<<>>)
<1>1. Texts(<<>>) = 0
  BY FS_EmptySet DEF Texts
<1> QED
  BY <1>1 DEF LastWord

LEMMA OnlyEmpty ==
  ASSUME NEW n \in Nat
  PROVE  Balanced(n, n, <<>>, <<>>)
BY NothingToRead, EmptySays DEF Balanced

\* An event is buffered behind the others.
LEMMA BalancedKeep ==
  ASSUME NEW S, NEW first \in Seq(S), NEW second \in Seq(S), second # <<>>,
         NEW told \in Nat, NEW said, Balanced(told, said, first, second)
  PROVE  Balanced(told, said, Append(first, Head(second)), Tail(second))
<1> DEFINE e == Head(second)
<1>1. /\ e \in S /\ Tail(second) \in Seq(S)
      /\ \A F : Says(Tail(second), F) => Says(second, F)
      /\ \A F : e \in F => Says(second, F)
  BY TailSays
<1>2. /\ told + Texts(first) + Texts(second) = said
      /\ LastWord(first) /\ LastWord(second)
      /\ Says(first, {"completed"}) => ~Says(second, {"text"})
  BY DEF Balanced
<1>3. /\ Texts(second) = IF e = "text" THEN Texts(Tail(second)) + 1 ELSE Texts(Tail(second))
      /\ LastWord(Tail(second))
      /\ e = "completed" => ~Says(second, {"text"})
  BY <1>2, TextsTail
<1>4. e = "text" => ~Says(first, {"completed"})
  BY <1>1, <1>2
<1> HIDE DEF e
<1>5. /\ Texts(Append(first, e)) = IF e = "text" THEN Texts(first) + 1 ELSE Texts(first)
      /\ LastWord(Append(first, e))
  BY <1>1, <1>2, <1>4, TextsAppend
<1>6. Says(Append(first, e), {"completed"}) => Says(first, {"completed"}) \/ e = "completed"
  BY <1>1, AppendSays
<1>7. Texts(first) \in Nat /\ Texts(second) \in Nat /\ Texts(Tail(second)) \in Nat
  BY <1>1, TextsFinite
<1>8. told + Texts(Append(first, e)) + Texts(Tail(second)) = said
  BY <1>2, <1>3, <1>5, <1>7
<1>9. Says(Append(first, e), {"completed"}) => ~Says(Tail(second), {"text"})
  BY <1>1, <1>2, <1>3, <1>6
<1>10. Balanced(told, said, Append(first, e), Tail(second))
  BY <1>3, <1>5, <1>8, <1>9 DEF Balanced
<1> QED
  BY <1>10 DEF e

\* A frame of the first queue is read.
LEMMA BalancedFirst ==
  ASSUME NEW S, NEW first \in Seq(S), NEW second \in Seq(S), first # <<>>,
         NEW told \in Nat, NEW said, Balanced(told, said, first, second)
  PROVE  /\ Balanced(IF Head(first) = "text" THEN told + 1 ELSE told, said, Tail(first), second)
         /\ Head(first) = "completed" => told = said
<1>1. /\ Head(first) \in S /\ Tail(first) \in Seq(S)
      /\ \A F : Says(Tail(first), F) => Says(first, F)
      /\ \A F : Head(first) \in F => Says(first, F)
  BY TailSays
<1>2. /\ told + Texts(first) + Texts(second) = said
      /\ LastWord(first) /\ LastWord(second)
      /\ Says(first, {"completed"}) => ~Says(second, {"text"})
  BY DEF Balanced
<1>3. /\ Texts(first) = IF Head(first) = "text" THEN Texts(Tail(first)) + 1 ELSE Texts(Tail(first))
      /\ LastWord(Tail(first))
      /\ Head(first) = "completed" => ~Says(first, {"text"})
  BY <1>2, TextsTail
<1>4. /\ Texts(first) \in Nat /\ Texts(second) \in Nat /\ Texts(Tail(first)) \in Nat
      /\ ~Says(first, {"text"}) => Texts(first) = 0
      /\ ~Says(second, {"text"}) => Texts(second) = 0
  BY <1>1, TextsFinite
<1>5. Balanced(IF Head(first) = "text" THEN told + 1 ELSE told, said, Tail(first), second)
  <2>1. (IF Head(first) = "text" THEN told + 1 ELSE told) + Texts(Tail(first)) + Texts(second) = said
    BY <1>2, <1>3, <1>4
  <2> QED
    BY <1>1, <1>2, <1>3, <2>1 DEF Balanced
<1>6. Head(first) = "completed" => told = said
  <2>1. Head(first) = "completed" => Texts(first) = 0 /\ Texts(second) = 0
    BY <1>1, <1>2, <1>3, <1>4
  <2> QED
    BY <1>2, <2>1
<1> QED
  BY <1>5, <1>6

\* Nothing is buffered, and a frame of the pipe is read.
LEMMA BalancedSecond ==
  ASSUME NEW S, NEW first \in Seq(S), NEW second \in Seq(S), second # <<>>,
         NEW told \in Nat, NEW said, Balanced(told, said, first, second)
  PROVE  /\ Head(second) # "text" => Balanced(told, said, first, Tail(second))
         /\ first = <<>> /\ Head(second) = "text" => Balanced(told + 1, said, first, Tail(second))
         /\ first = <<>> /\ Head(second) = "completed" => told = said
<1>1. /\ Head(second) \in S /\ Tail(second) \in Seq(S)
      /\ \A F : Says(Tail(second), F) => Says(second, F)
  BY TailSays
<1>2. /\ told + Texts(first) + Texts(second) = said
      /\ LastWord(first) /\ LastWord(second)
      /\ Says(first, {"completed"}) => ~Says(second, {"text"})
  BY DEF Balanced
<1>3. /\ Texts(second) = IF Head(second) = "text" THEN Texts(Tail(second)) + 1 ELSE Texts(Tail(second))
      /\ LastWord(Tail(second))
      /\ Head(second) = "completed" => ~Says(second, {"text"})
  BY <1>2, TextsTail
<1>4. /\ Texts(first) \in Nat /\ Texts(second) \in Nat /\ Texts(Tail(second)) \in Nat
      /\ ~Says(second, {"text"}) => Texts(second) = 0
      /\ first = <<>> => Texts(first) = 0
  BY <1>1, TextsFinite, NothingToRead
<1>5. Head(second) # "text" => Balanced(told, said, first, Tail(second))
  BY <1>1, <1>2, <1>3, <1>4 DEF Balanced
<1>6. first = <<>> /\ Head(second) = "text" => Balanced(told + 1, said, first, Tail(second))
  <2>1. Head(second) = "text" => told + 1 + Texts(first) + Texts(Tail(second)) = said
    BY <1>2, <1>3, <1>4
  <2> QED
    BY <1>1, <1>2, <1>3, <2>1 DEF Balanced
<1>7. first = <<>> /\ Head(second) = "completed" => told = said
  BY <1>2, <1>3, <1>4
<1> QED
  BY <1>5, <1>6, <1>7

\* The worker writes a frame.
LEMMA BalancedWrite ==
  ASSUME NEW S, NEW first \in Seq(S), NEW second \in Seq(S), NEW e \in S,
         NEW told \in Nat, NEW said, Balanced(told, said, first, second),
         e = "text" => ~Says(first, {"completed"}) /\ ~Says(second, {"completed"})
  PROVE  Balanced(told, IF e = "text" THEN said + 1 ELSE said, first, Append(second, e))
<1>1. /\ told + Texts(first) + Texts(second) = said
      /\ LastWord(first) /\ LastWord(second)
      /\ Says(first, {"completed"}) => ~Says(second, {"text"})
  BY DEF Balanced
<1>2. /\ Texts(Append(second, e)) = IF e = "text" THEN Texts(second) + 1 ELSE Texts(second)
      /\ LastWord(Append(second, e))
  BY <1>1, TextsAppend
<1>3. Says(Append(second, e), {"text"}) => Says(second, {"text"}) \/ e = "text"
  BY AppendSays
<1>4. Texts(first) \in Nat /\ Texts(second) \in Nat
  BY TextsFinite
<1>5. told + Texts(first) + Texts(Append(second, e)) = IF e = "text" THEN said + 1 ELSE said
  BY <1>1, <1>2, <1>4
<1>6. Says(first, {"completed"}) => ~Says(Append(second, e), {"text"})
  BY <1>1, <1>3
<1> QED
  BY <1>1, <1>2, <1>5, <1>6 DEF Balanced

-----------------------------------------------------------------------------
AnswersInv == \A t \in Attempt : AnswerOK(t)

\* What a step of one attempt has to leave alone in the others.
Aside(u) ==
    /\ At(u)' = At(u) /\ heard'[u] = heard[u] /\ worker'[u].said = worker[u].said
    /\ stdout'[u] = stdout[u] /\ buffered'[u] = buffered[u]

LEMMA OneAnswered ==
  ASSUME AnswersInv, NEW t \in Attempt, \A u \in Attempt \ {t} : Aside(u), AnswerOK(t)'
  PROVE  AnswersInv'
BY DEF AnswersInv, AnswerOK, Aside

\* Nothing was said, written or read.
LEMMA QuietAnswered ==
  ASSUME AnswersInv, UNCHANGED <<heard, stdout, buffered>>, NEW t \in Attempt,
         \A u \in Attempt : worker'[u].said = worker[u].said,
         \A u \in Attempt \ {t} : At(u)' = At(u),
         At(t)' \in Counting => At(t) \in Counting,
         At(t)' \in Closed => At(t) \in Closed
  PROVE  AnswersInv'
<1>1. AnswerOK(t) /\ \A u \in Attempt \ {t} : Aside(u)
  BY DEF AnswersInv, Aside
<1>2. AnswerOK(t)'
  BY <1>1 DEF AnswerOK
<1> QED
  BY <1>1, <1>2, OneAnswered

LEMMA MovesAnswered ==
  ASSUME Inv, AnswersInv, NEW t \in Attempt,
         \/ AnswerCall(t) \/ GiveUpStartUp(t) \/ NotAcknowledged(t) \/ Settled(t)
         \/ InterruptTimesOut(t) \/ Exit(t) \/ Commit(t) \/ Save(t) \/ SaveFails(t)
  PROVE  AnswersInv'
<1>1. PICK place \in {"running", "stopping", "stopStderr", "closeStderr", "save", "completed"} :
        /\ Goto(t, place) /\ UNCHANGED <<heard, stdout, buffered, worker>>
        /\ place = "running" => At(t) = "tool"
        /\ place = "closeStderr" => At(t) = "closing"
        /\ place = "save" => At(t) = "commit"
        /\ place = "completed" => At(t) = "save"
  BY DEF AnswerCall, GiveUpStartUp, NotAcknowledged, Settled, InterruptTimesOut, Exit, Commit,
     Save, SaveFails, engineVars
<1>2. At(t)' = place /\ \A u \in Attempt \ {t} : At(u)' = At(u)
  <2>1. place \in Place
    BY DEF Place, Stopping, Closing, Final
  <2>2. At(t)' = place /\ \A u \in Attempt \ {t} : attempt'[u] = attempt[u]
    BY <1>1, <2>1, GotoEffect
  <2> QED
    BY <2>2 DEF At
<1>3. At(t)' \in Counting => At(t) \in Counting
  BY <1>1, <1>2 DEF Counting, Idle, StartUp
<1>4. At(t)' \in Closed => At(t) \in Closed
  BY <1>1, <1>2 DEF Closed, Closing, Committed
<1> QED
  BY <1>1, <1>2, <1>3, <1>4, QuietAnswered

LEMMA AsksAnswered ==
  ASSUME Inv, AnswersInv, NEW t \in Attempt, AskInterrupt(t) \/ Begin(t) \/ LoadBinding(t)
  PROVE  AnswersInv'
<1>1. /\ UNCHANGED <<heard, stdout, buffered>>
      /\ \A u \in Attempt : worker'[u].said = worker[u].said
      /\ \A u \in Attempt \ {t} : At(u)' = At(u)
      /\ At(t)' \in {"interrupt", "load", "initialize"} /\ At(t) \notin Closed
      /\ At(t)' # "interrupt" => At(t) \in Counting
  <2>1. attempt \in [Attempt -> AttemptRow] /\ worker \in [Attempt -> Worker]
    BY StaysPut
  <2>2. CASE AskInterrupt(t)
    BY <2>1, <2>2 DEF AskInterrupt, Ask, Goto, At, AttemptRow, Worker, Closed, Closing, Committed
  <2>3. CASE Begin(t)
    BY <2>1, <2>3 DEF Begin, At, AttemptRow, Worker, Closed, Closing, Committed, Counting, Idle, engineVars
  <2>4. CASE LoadBinding(t)
    BY <2>1, <2>4 DEF LoadBinding, At, AttemptRow, Worker, Closed, Closing, Committed, Counting, Idle
  <2> QED
    BY <2>2, <2>3, <2>4
<1>2. At(t)' \in Counting => At(t) \in Counting
  BY <1>1 DEF Counting, Idle, StartUp
<1>3. At(t)' \notin Closed
  BY <1>1 DEF Closed, Closing, Committed
<1> QED
  BY <1>1, <1>2, <1>3, QuietAnswered

LEMMA OthersAnswered ==
  ASSUME Inv, AnswersInv, NEW t \in Attempt, Interrupt(t) \/ BeginTurn(t) \/ Die(t)
  PROVE  AnswersInv'
<1>1. /\ UNCHANGED <<heard, stdout, buffered, attempt>>
      /\ \A u \in Attempt : worker'[u].said = worker[u].said
  <2>1. worker \in [Attempt -> Worker]
    BY StaysPut
  <2>2. CASE Interrupt(t)
    BY <2>2 DEF Interrupt, engineVars
  <2>3. CASE BeginTurn(t)
    BY <2>1, <2>3 DEF BeginTurn, Worker
  <2>4. CASE Die(t)
    BY <2>1, <2>4 DEF Die, Worker
  <2> QED
    BY <2>2, <2>3, <2>4
<1> QED
  BY <1>1, QuietAnswered DEF At

LEMMA EndAnswered ==
  ASSUME Inv, AnswersInv, NEW t \in Attempt,
         \/ LoadFails(t) \/ StartUpFails(t) \/ CallFails(t) \/ RequestRefused(t) \/ TurnFails(t)
         \/ SettledOtherwise(t) \/ ShutdownTimesOut(t) \/ Stopped(t) \/ CloseFails(t) \/ CommitFails(t) \/ Crash(t)
  PROVE  AnswersInv'
<1>1. PICK outcome \in {"failed", "interrupted", "crashed"} : End(t, outcome)
  BY DEF LoadFails, StartUpFails, CallFails, RequestRefused, TurnFails, SettledOtherwise,
     ShutdownTimesOut, Stopped, CloseFails, CommitFails, Crash
<1>2. /\ At(t)' = outcome /\ heard'[t] = 0 /\ worker'[t].said = 0
      /\ stdout'[t] = <<>> /\ buffered'[t] = <<>>
      /\ \A u \in Attempt \ {t} : Aside(u)
  BY <1>1, StaysPut DEF End, Dismiss, NoWorker, At, Aside, AttemptRow
<1>3. AnswerOK(t)'
  BY <1>2, OnlyEmpty DEF AnswerOK, Closed, Closing, Committed
<1> QED
  BY <1>2, <1>3, OneAnswered

LEMMA CloseAnswered ==
  ASSUME Inv, AnswersInv, NEW t \in Attempt, CloseStdin(t) \/ Close(t)
  PROVE  AnswersInv'
<1>1. PICK place \in {"stopExit", "commit"} :
      /\ At(t)' = place /\ heard' = heard
      /\ place = "commit" => At(t) = "closeStderr"
      /\ worker'[t].said = worker[t].said
      /\ \A u \in Attempt \ {t} : Aside(u)
  <2>1. CASE CloseStdin(t)
    BY <2>1, StaysPut DEF CloseStdin, Abandon, Goto, Dismiss, At, Aside, AttemptRow, Worker
  <2>2. CASE Close(t)
    BY <2>2, StaysPut DEF Close, Abandon, Goto, Dismiss, At, Aside, AttemptRow, Worker
  <2> QED
    BY <2>1, <2>2
<1>2. AnswerOK(t)'
  BY <1>1 DEF AnswersInv, AnswerOK, Closed, Closing, Committed, Counting, Idle, StartUp
<1> QED
  BY <1>1, <1>2, OneAnswered

LEMMA KeepAnswered ==
  ASSUME Inv, AnswersInv, NEW t \in Attempt, Keep(t)
  PROVE  AnswersInv'
<1>1. /\ At(t)' = At(t) /\ heard' = heard /\ worker' = worker
      /\ stdout[t] # <<>> /\ Head(stdout[t]) \in Event
      /\ stdout'[t] = Tail(stdout[t])
      /\ buffered'[t] = Append(buffered[t], Head(stdout[t]))
      /\ \A u \in Attempt \ {t} : Aside(u)
  BY StaysPut DEF Keep, Reading, At, Aside
<1>2. At(t) \in Counting =>
        Balanced(heard[t], worker[t].said, Append(buffered[t], Head(stdout[t])), Tail(stdout[t]))
  <2>1. heard[t] \in Nat /\ stdout[t] \in Seq(Frame) /\ buffered[t] \in Seq(Frame)
    BY StaysPut DEF Frame
  <2> QED
    BY <1>1, <2>1, BalancedKeep DEF AnswersInv, AnswerOK
<1>3. AnswerOK(t)'
  BY <1>1, <1>2 DEF AnswersInv, AnswerOK
<1> QED
  BY <1>1, <1>3, OneAnswered

\* An answer is read, which is no text.
LEMMA RepliesAnswered ==
  ASSUME Inv, AnswersInv, NEW t \in Attempt, Proceed(t) \/ Acknowledged(t)
  PROVE  AnswersInv'
<1>1. /\ heard' = heard /\ worker'[t].said = worker[t].said
      /\ stdout[t] # <<>> /\ Head(stdout[t]) = "reply"
      /\ stdout'[t] = Tail(stdout[t]) /\ buffered' = buffered
      /\ \A u \in Attempt \ {t} : Aside(u)
      /\ At(t)' \notin Closed
      /\ At(t)' # "settling" => At(t) \in Counting
  <2>1. attempt \in [Attempt -> AttemptRow] /\ worker \in [Attempt -> Worker]
        /\ stdout \in [Attempt -> Seq(Frame)]
    BY StaysPut
  <2>2. CASE Acknowledged(t)
    BY <2>1, <2>2 DEF Acknowledged, Goto, At, Aside, AttemptRow, Closed, Closing, Committed
  <2>3. CASE Proceed(t)
    <3>1. PICK place \in StartUp \cup {"running"} :
            /\ attempt' = [attempt EXCEPT ![t].at = place]
            /\ worker' = worker \/ worker' = [worker EXCEPT ![t].asked = place]
      <4>1. At(t) = "start" \/ AfterAnswer[At(t)] \in StartUp
        BY <2>3 DEF Proceed, Waiting, StartUp, AfterAnswer
      <4> QED
        BY <2>3, <4>1 DEF Proceed, Ask, Goto
    <3>2. At(t) \in Counting
      BY <2>3 DEF Proceed, Waiting, Counting
    <3> QED
      BY <2>1, <2>3, <3>1, <3>2
         DEF Proceed, At, Aside, AttemptRow, Worker, Closed, Closing, Committed, StartUp
  <2> QED
    BY <2>2, <2>3
<1>2. At(t) \in Counting =>
        Balanced(heard[t], worker[t].said, buffered[t], Tail(stdout[t]))
  <2>1. heard[t] \in Nat /\ stdout[t] \in Seq(Frame) /\ buffered[t] \in Seq(Frame)
    BY StaysPut DEF Frame
  <2> QED
    BY <1>1, <2>1, BalancedSecond DEF AnswersInv, AnswerOK
<1>3. "settling" \notin Counting
  BY DEF Counting, Idle, StartUp
<1>4. At(t)' \in Counting => Balanced(heard'[t], worker'[t].said, buffered'[t], stdout'[t])
  <2>1. At(t)' \in Counting => At(t)' # "settling"
    BY <1>3
  <2> QED
    BY <1>1, <1>2, <2>1
<1>5. AnswerOK(t)'
  BY <1>1, <1>4 DEF AnswerOK
<1> QED
  BY <1>1, <1>5, OneAnswered

\* An event is taken from the front of the two queues.
LEMMA TakesAnswered ==
  ASSUME Inv, AnswersInv, NEW t \in Attempt,
         HearText(t) \/ BeginCall(t) \/ RefuseRequest(t) \/ HearCompleted(t) \/ Settle(t)
  PROVE  AnswersInv'
<1>1. HasNext(t) /\ TakeNext(t) /\ worker' = worker /\ attempt[t] \in AttemptRow
      /\ attempt \in [Attempt -> AttemptRow] /\ heard \in [Attempt -> Nat]
      /\ stdout[t] \in Seq(Frame) /\ buffered[t] \in Seq(Frame)
      /\ stdout \in [Attempt -> Seq(Frame)] /\ buffered \in [Attempt -> Seq(Event)]
  <2>1. HasNext(t) /\ TakeNext(t) /\ worker' = worker
    BY DEF HearText, BeginCall, RefuseRequest, HearCompleted, Settle
  <2>2. Event \subseteq Frame
    BY DEF Frame
  <2> QED
    BY <2>1, <2>2, StaysPut
<1>2. /\ \A u \in Attempt \ {t} : Aside(u)
      /\ \/ heard'[t] = heard[t] /\ At(t)' = "tool" /\ Front(t) # "text"
         \/ heard'[t] = heard[t] /\ At(t)' \in {"refusing", "settling"}
         \/ heard'[t] = heard[t] + 1 /\ At(t)' = "running" /\ Front(t) = "text"
         \/ heard'[t] = heard[t] /\ At(t)' = "closing" /\ Front(t) = "completed"
      /\ At(t)' # "settling" => At(t) = "running"
  <2>1. \A u \in Attempt \ {t} : stdout'[u] = stdout[u] /\ buffered'[u] = buffered[u]
    BY <1>1, TakeEffect
  <2>2. CASE HearText(t)
    BY <1>1, <2>1, <2>2 DEF HearText, Listening, Aside, At
  <2>3. CASE BeginCall(t)
    BY <1>1, <2>1, <2>3 DEF BeginCall, Listening, Goto, Aside, At, AttemptRow
  <2>4. CASE HearCompleted(t)
    BY <1>1, <2>1, <2>4 DEF HearCompleted, Listening, Goto, Aside, At, AttemptRow
  <2>5. CASE Settle(t)
    BY <1>1, <2>1, <2>5 DEF Settle, Aside, At
  <2>6. CASE RefuseRequest(t)
    BY <1>1, <2>1, <2>6 DEF RefuseRequest, Listening, Goto, Aside, At, AttemptRow
  <2> QED
    BY <2>2, <2>3, <2>4, <2>5, <2>6
<1>3. At(t) = "running" => Balanced(heard[t], worker[t].said, buffered[t], stdout[t])
  BY DEF AnswersInv, AnswerOK, Counting
<1>4. At(t) = "running" =>
        /\ Balanced(IF Front(t) = "text" THEN heard[t] + 1 ELSE heard[t], worker[t].said,
                    buffered'[t], stdout'[t])
        /\ Front(t) = "completed" => heard[t] = worker[t].said
  <2>1. CASE buffered[t] # <<>>
    <3>1. Front(t) = Head(buffered[t]) /\ buffered'[t] = Tail(buffered[t]) /\ stdout'[t] = stdout[t]
      <4>1. Front(t) = Head(buffered[t])
        BY <1>1, <2>1, FrontOf DEF Front
      <4>2. buffered' = [buffered EXCEPT ![t] = Tail(buffered[t])] /\ stdout' = stdout
        BY <1>1, <2>1 DEF TakeNext
      <4> QED
        BY <1>1, <4>1, <4>2
    <3> QED
      BY <1>1, <1>3, <2>1, <3>1, BalancedFirst
  <2>2. CASE buffered[t] = <<>>
    <3>1. /\ Front(t) = Head(stdout[t]) /\ stdout'[t] = Tail(stdout[t]) /\ stdout[t] # <<>>
          /\ buffered'[t] = buffered[t]
      <4>1. Front(t) = Head(stdout[t]) /\ stdout[t] # <<>>
        BY <1>1, <2>2, FrontOf DEF Front, HasNext
      <4>2. stdout' = [stdout EXCEPT ![t] = Tail(stdout[t])] /\ buffered' = buffered
        BY <1>1, <2>2 DEF TakeNext
      <4> QED
        BY <1>1, <4>1, <4>2
    <3>2. ASSUME At(t) = "running"
          PROVE  /\ Front(t) # "text" =>
                      Balanced(heard[t], worker[t].said, buffered[t], Tail(stdout[t]))
                 /\ Front(t) = "text" =>
                      Balanced(heard[t] + 1, worker[t].said, buffered[t], Tail(stdout[t]))
                 /\ Front(t) = "completed" => heard[t] = worker[t].said
      <4>1. Balanced(heard[t], worker[t].said, buffered[t], stdout[t]) /\ heard[t] \in Nat
        BY <1>1, <1>3, <3>2
      <4>2. /\ Head(stdout[t]) # "text" =>
                 Balanced(heard[t], worker[t].said, buffered[t], Tail(stdout[t]))
            /\ buffered[t] = <<>> /\ Head(stdout[t]) = "text" =>
                 Balanced(heard[t] + 1, worker[t].said, buffered[t], Tail(stdout[t]))
            /\ buffered[t] = <<>> /\ Head(stdout[t]) = "completed" => heard[t] = worker[t].said
        <5>1. stdout[t] # <<>> /\ stdout[t] \in Seq(Frame) /\ buffered[t] \in Seq(Frame)
          BY <1>1, <3>1
        <5> QED
          BY <4>1, <5>1, BalancedSecond
      <4> QED
        BY <2>2, <3>1, <4>2
    <3> QED
      BY <3>1, <3>2
  <2> QED
    BY <2>1, <2>2
<1>5. AnswerOK(t)'
  <2>1. At(t)' \in Counting =>
          At(t)' \in {"tool", "running"}
    BY <1>2 DEF Counting, Idle, StartUp
  <2>2. At(t)' \in Closed => At(t)' = "closing"
    BY <1>2 DEF Closed, Closing, Committed
  <2> QED
    BY <1>1, <1>2, <1>4, <2>1, <2>2 DEF AnswerOK
<1> QED
  BY <1>2, <1>5, OneAnswered

\* What the worker writes before the end of its turn is still to come.
LEMMA WritesAnswered ==
  ASSUME Inv, AnswersInv, NEW t \in Attempt, NEW e \in Frame,
         UNCHANGED <<attempt, buffered, heard>>, Write(t, e), worker[t].up,
         \A u \in Attempt \ {t} : worker'[u] = worker[u],
         worker'[t].said = IF e = "text" THEN worker[t].said + 1 ELSE worker[t].said,
         e = "text" => worker[t].turn = "running"
  PROVE  AnswersInv'
<1>1. /\ stdout'[t] = Append(stdout[t], e) /\ \A u \in Attempt \ {t} : Aside(u)
      /\ heard[t] \in Nat /\ stdout[t] \in Seq(Frame) /\ buffered[t] \in Seq(Frame)
      /\ At(t)' = At(t) /\ buffered'[t] = buffered[t] /\ heard'[t] = heard[t]
  BY StaysPut DEF Write, Aside, At, Frame
<1>2. /\ At(t) \in {"closing", "closeStderr", "commit"} \cup Committed => worker[t].turn = "ended"
      /\ worker[t].turn # "ended" =>
           ~Says(stdout[t], {"completed"}) /\ ~Says(buffered[t], {"completed"})
  BY DEF Inv, AttemptOK, DoneOK
<1>3. At(t) \in Counting =>
        Balanced(heard[t], worker'[t].said, buffered[t], Append(stdout[t], e))
  BY <1>1, <1>2, BalancedWrite DEF AnswersInv, AnswerOK
<1>4. At(t) \in Closed => e # "text"
  BY <1>2 DEF Closed, Closing
<1>5. AnswerOK(t)'
  BY <1>1, <1>3, <1>4 DEF AnswersInv, AnswerOK
<1> QED
  BY <1>1, <1>5, OneAnswered

LEMMA WorkerAnswered ==
  ASSUME Inv, AnswersInv, NEW t \in Attempt, WorkerStep(t)
  PROVE  AnswersInv'
<1> worker \in [Attempt -> Worker]
  BY StaysPut
<1>1. CASE OpenThread(t)
  BY <1>1, WritesAnswered DEF OpenThread, Asked, Frame, Worker
<1>2. CASE BeginTurn(t) \/ Die(t)
  BY <1>2, OthersAnswered
<1>3. CASE Answer(t)
  BY <1>3, WritesAnswered DEF Answer, Frame, Worker
<1>4. CASE Refuse(t)
  BY <1>4, WritesAnswered DEF Refuse, Frame, Worker
<1>5. ASSUME NEW event \in {"text", "call"}, Emit(t, event) PROVE AnswersInv'
  BY <1>5, WritesAnswered DEF Emit, Frame, Event, Worker
<1>6. ASSUME NEW terminal \in {"completed", "failed", "interrupted", "bad"}, EndTurn(t, terminal)
      PROVE  AnswersInv'
  BY <1>6, WritesAnswered DEF EndTurn, Frame, Event, Worker
<1> QED
  BY <1>1, <1>2, <1>3, <1>4, <1>5, <1>6 DEF WorkerStep

LEMMA InitAnswered == Init => AnswersInv
<1> SUFFICES ASSUME Init, NEW t \in Attempt PROVE AnswerOK(t)
  BY DEF AnswersInv
<1>1. /\ At(t) = "new" /\ heard[t] = 0 /\ worker[t].said = 0
      /\ buffered[t] = <<>> /\ stdout[t] = <<>>
  BY DEF Init, At, NoWorker
<1> QED
  BY <1>1, OnlyEmpty DEF AnswerOK, Closed, Closing, Committed

LEMMA NextAnswered ==
  ASSUME Inv, AnswersInv, [Next]_vars
  PROVE  AnswersInv'
<1>1. ASSUME NEW t \in Attempt, StartUpStep(t) PROVE AnswersInv'
  BY <1>1, AsksAnswered, EndAnswered, RepliesAnswered DEF StartUpStep
<1>2. ASSUME NEW t \in Attempt, TurnStep(t) PROVE AnswersInv'
  BY <1>2, KeepAnswered, TakesAnswered, MovesAnswered, EndAnswered DEF TurnStep
<1>3. ASSUME NEW t \in Attempt, InterruptStep(t) PROVE AnswersInv'
  BY <1>3, MovesAnswered, AsksAnswered, RepliesAnswered, TakesAnswered, EndAnswered
     DEF InterruptStep
<1>4. ASSUME NEW t \in Attempt, ShutdownStep(t) \/ EndStep(t) PROVE AnswersInv'
  BY <1>4, CloseAnswered, EndAnswered, MovesAnswered DEF ShutdownStep, EndStep
<1>5. ASSUME NEW t \in Attempt, Interrupt(t) \/ Crash(t) PROVE AnswersInv'
  BY <1>5, OthersAnswered, EndAnswered
<1>6. CASE AppendElsewhere \/ UNCHANGED vars
  BY <1>6 DEF AppendElsewhere, vars, engineVars, AnswersInv, AnswerOK, At
<1> QED
  BY <1>1, <1>2, <1>3, <1>4, <1>5, <1>6, WorkerAnswered DEF Next

\* What is committed was said by the worker, all of it (AnswerIsComplete): every
\* text is heard, buffered or in the pipe until the end of the turn, which the
\* worker writes last and the engine reads last.
THEOREM AnswerIsWhole == Spec => []AnswerIsComplete
<1>1. Inv /\ AnswersInv /\ [Next]_vars => AnswersInv'
  BY NextAnswered
<1>2. AnswersInv => AnswerIsComplete
  BY DEF AnswersInv, AnswerIsComplete, AnswerOK, Closed, Closing, Committed
<1> QED
  BY InitAnswered, SpecInv, <1>1, <1>2, PTL DEF Spec
=============================================================================

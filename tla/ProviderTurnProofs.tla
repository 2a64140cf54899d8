------------------------- MODULE ProviderTurnProofs -------------------------
(* The invariants of a direct turn, for any calls, any text, any number of *)
(* attempts and prompts, and sessions of any length.                       *)
(*                                                                         *)
(* The first half is about operators alone: a list may be flattened and    *)
(* messages may be grouped one at a time from the left (Flattens,          *)
(* Semanticizes), so appending to a conversation appends to its projection *)
(* and to what is read back from it (ProjectAppend, SemanticizeAppend).    *)
(* Hence a conversation stays Faithful when a prompt, an answer (Plain) or *)
(* a round of tools (Round) is appended: its projection reads back as      *)
(* itself, answers every call, and the conversation is valid.              *)
(*                                                                         *)
(* The second half is the invariant IInv: the session is Faithful and is   *)
(* the record; what the turn asks is the projection of the session and     *)
(* what was said since (Asks); the accumulators hold exactly what was sent *)
(* (Gathered); a round stands between its calls and their results          *)
(* (InRound).                                                              *)
EXTENDS ProviderTurn, SequenceTheorems, FiniteSetTheorems, WellFoundedInduction,
        TLAPS

-----------------------------------------------------------------------------
(* Recursion over the naturals, with sets and functions for the predicates *)
(* and the operators of the library's theorems.                            *)

LEMMA Induction ==
  ASSUME NEW P, 0 \in P, \A n \in Nat : n \in P => n + 1 \in P
  PROVE  Nat \subseteq P
<1> DEFINE T == Nat \ P
<1>1. SUFFICES ASSUME T # {} PROVE FALSE
  OBVIOUS
<1>2. T \subseteq Nat
  OBVIOUS
<1> HIDE DEF T
<1>3. PICK x \in T : \A y \in T : ~(<<y, x>> \in OpToRel(<, Nat))
  BY <1>1, <1>2, NatLessThanWellFounded, WFMin
<1>4. x \in Nat /\ x \notin P /\ x # 0
  BY <1>3 DEF T
<1>5. x - 1 \in Nat /\ x - 1 < x
  BY <1>4
<1>6. <<x - 1, x>> \in OpToRel(<, Nat)
  BY <1>4, <1>5 DEF OpToRel
<1>7. x - 1 \in P
  BY <1>3, <1>5, <1>6 DEF T
<1> QED
  BY <1>4, <1>5, <1>7

\* step[k][v] is the value after v, at k.
Runs(g, base, step, n) ==
  /\ g[0] = base
  /\ \A k \in 0 .. n - 1 : g[k + 1] = step[k][g[k]]

LEMMA Recursion ==
  ASSUME NEW S, NEW base \in S, NEW step \in [Nat -> [S -> S]], NEW n \in Nat
  PROVE  \E g \in [0 .. n -> S] : Runs(g, base, step, n)
<1> DEFINE Solves(g, m) == g[0] = base /\ \A k \in 0 .. m - 1 : g[k + 1] = step[k][g[k]]
           P == {m \in Nat : \E g \in [0 .. m -> S] : Solves(g, m)}
<1>1. 0 \in P
  <2> DEFINE g == [k \in 0 .. 0 |-> base]
  <2>1. g \in [0 .. 0 -> S] /\ Solves(g, 0)
    OBVIOUS
  <2> QED
    BY <2>1
<1>2. ASSUME NEW m \in Nat, m \in P PROVE m + 1 \in P
  <2>1. PICK g \in [0 .. m -> S] : Solves(g, m)
    BY <1>2
  <2> DEFINE v == step[m][g[m]]
             h == [k \in 0 .. m + 1 |-> IF k = m + 1 THEN v ELSE g[k]]
  <2>2. v \in S
    OBVIOUS
  <2> HIDE DEF v
  <2>3. h \in [0 .. m + 1 -> S] /\ h[0] = base /\ h[m + 1] = v
    BY <2>1, <2>2
  <2>4. ASSUME NEW k \in 0 .. m PROVE h[k + 1] = step[k][h[k]]
    <3>1. h[k] = g[k]
      OBVIOUS
    <3>2. CASE k = m
      BY <2>3, <3>1, <3>2 DEF v
    <3>3. CASE k # m
      BY <2>1, <3>1, <3>3
    <3> QED
      BY <3>2, <3>3
  <2> HIDE DEF h
  <2>5. Solves(h, m + 1)
    <3>1. (m + 1) - 1 = m
      OBVIOUS
    <3> QED
      BY <2>3, <2>4, <3>1
  <2> HIDE DEF Solves
  <2> QED
    BY <2>3, <2>5
<1> HIDE DEF P
<1>3. n \in P
  BY <1>1, <1>2, Induction
<1> QED
  BY <1>3 DEF P, Runs

-----------------------------------------------------------------------------
(* FlattenSeq, from left to right. *)

Flattening(g, q) ==
    /\ g[0] = <<>>
    /\ \A k \in 0 .. Len(q) - 1 : g[k + 1] = g[k] \o q[k + 1]

LEMMA Flattens ==
  ASSUME NEW S, NEW q \in Seq(Seq(S))
  PROVE  \E g \in [0 .. Len(q) -> Seq(S)] : Flattening(g, q) /\ FlattenSeq(q) = g[Len(q)]
<1> DEFINE n == Len(q)
<1>1. n \in Nat /\ DOMAIN q = 1 .. n /\ \A k \in 1 .. n : q[k] \in Seq(S)
  OBVIOUS
<1>2. PICK g \in [0 .. n -> Seq(S)] : Flattening(g, q)
  <2> DEFINE step == [k \in Nat |-> [v \in Seq(S) |->
                        IF k + 1 \in 1 .. n THEN v \o q[k + 1] ELSE v]]
  <2>1. \A v \in Seq(S), k \in Nat : k + 1 \in 1 .. n => v \o q[k + 1] \in Seq(S)
    BY <1>1, ConcatProperties
  <2>2. step \in [Nat -> [Seq(S) -> Seq(S)]] /\ <<>> \in Seq(S)
    BY <2>1
  <2> DEFINE T == Seq(S)
             e == <<>>
  <2> HIDE DEF n, step, T, e
  <2>3. n \in Nat /\ step \in [Nat -> [T -> T]] /\ e \in T
    BY <1>1, <2>2 DEF n, T, e
  <2>4. PICK g \in [0 .. n -> T] : Runs(g, e, step, n)
    BY <2>3, Recursion
  <2>5. ASSUME NEW k \in 0 .. n - 1 PROVE g[k + 1] = g[k] \o q[k + 1]
    <3>1. k \in Nat /\ k + 1 \in 1 .. n /\ g[k] \in Seq(S)
      BY <2>3, <2>4 DEF T
    <3>2. step[k][g[k]] = g[k] \o q[k + 1]
      BY <3>1 DEF step
    <3> QED
      BY <2>4, <3>2 DEF Runs
  <2> QED
    BY <2>4, <2>5 DEF Flattening, Runs, n, T, e
<1>3. CASE n = 0
  <2>1. q = <<>> /\ FlattenSeq(q) = q
    BY <1>3 DEF FlattenSeq
  <2> QED
    BY <1>2, <1>3, <2>1 DEF Flattening
<1>4. CASE n # 0
  <2> DEFINE Body(f) == [i \in 1 .. n |-> IF i = 1 THEN q[i] ELSE f[i - 1] \o q[i]]
             h == [i \in 1 .. n |-> g[i]]
             flatten == CHOOSE f : f = Body(f)
  <2>1. h = Body(h)
    <3>1. ASSUME NEW i \in 1 .. n PROVE h[i] = Body(h)[i]
      <4>1. g[i] = g[i - 1] \o q[i] /\ i - 1 \in 0 .. n
        <5>1. i - 1 \in 0 .. n - 1 /\ (i - 1) + 1 = i
          BY <1>1
        <5>2. \A k \in 0 .. n - 1 : g[k + 1] = g[k] \o q[k + 1]
          BY <1>2 DEF Flattening
        <5>3. g[(i - 1) + 1] = g[i - 1] \o q[(i - 1) + 1]
          BY <5>1, <5>2
        <5> QED
          BY <1>1, <5>1, <5>3
      <4>2. CASE i = 1
        BY <1>1, <1>2, <4>1, <4>2, ConcatEmptySeq DEF Flattening
      <4>3. CASE i # 1
        BY <1>1, <4>1, <4>3
      <4> QED
        BY <4>2, <4>3
    <3> QED
      BY <3>1
  <2>2. FlattenSeq(q) = flatten[n]
    BY <1>4 DEF FlattenSeq
  <2>3. flatten = Body(flatten)
    BY <2>1
  <2>4. \A i \in 1 .. n : flatten[i] = IF i = 1 THEN q[i] ELSE flatten[i - 1] \o q[i]
    BY <2>3
  <2> HIDE DEF flatten
  <2> DEFINE P == {k \in Nat : k + 1 \in 1 .. n => flatten[k + 1] = g[k + 1]}
  <2>5. 0 \in P
    <3>1. g[1] = <<>> \o q[1] /\ q[1] \in Seq(S) /\ flatten[1] = q[1]
      <4>1. 0 \in 0 .. n - 1 /\ 0 + 1 = 1 /\ 1 \in 1 .. n
        BY <1>1, <1>4
      <4> QED
        BY <1>1, <1>2, <2>4, <4>1 DEF Flattening
    <3> QED
      BY <3>1, ConcatEmptySeq
  <2>6. ASSUME NEW k \in Nat, k \in P PROVE k + 1 \in P
    <3> SUFFICES ASSUME k + 2 \in 1 .. n PROVE flatten[k + 2] = g[k + 2]
      OBVIOUS
    <3>1. k + 1 \in 0 .. n - 1 /\ (k + 1) + 1 = k + 2 /\ (k + 2) - 1 = k + 1 /\ k + 2 # 1
          /\ k + 1 \in 1 .. n
      BY <1>1
    <3>2. g[k + 2] = g[k + 1] \o q[k + 2]
      BY <1>2, <3>1 DEF Flattening
    <3>3. flatten[k + 2] = flatten[k + 1] \o q[k + 2]
      BY <2>4, <3>1
    <3> QED
      BY <2>6, <3>1, <3>2, <3>3
  <2> HIDE DEF P
  <2>7. n - 1 \in P
    <3>1. n - 1 \in Nat
      BY <1>1, <1>4
    <3>2. Nat \subseteq P
      BY <2>5, <2>6, Induction
    <3> QED
      BY <3>1, <3>2
  <2> QED
    BY <1>1, <1>2, <1>4, <2>2, <2>7 DEF P
<1> QED
  BY <1>3, <1>4

LEMMA FlattenAppend ==
  ASSUME NEW S, NEW q \in Seq(Seq(S)), NEW s \in Seq(S)
  PROVE  /\ FlattenSeq(q) \in Seq(S)
         /\ FlattenSeq(Append(q, s)) = FlattenSeq(q) \o s
<1> DEFINE n == Len(q)
           r == Append(q, s)
<1>1. /\ r \in Seq(Seq(S)) /\ Len(r) = n + 1 /\ r[n + 1] = s
      /\ n \in Nat /\ \A k \in 1 .. n : r[k] = q[k]
  OBVIOUS
<1> HIDE DEF r
<1>2. PICK g \in [0 .. n -> Seq(S)] : Flattening(g, q) /\ FlattenSeq(q) = g[n]
  BY Flattens
<1>3. PICK h \in [0 .. Len(r) -> Seq(S)] : Flattening(h, r) /\ FlattenSeq(r) = h[Len(r)]
  BY <1>1, Flattens
<1> HIDE DEF n
<1> DEFINE P == {k \in Nat : k <= n => h[k] = g[k]}
<1>4. 0 \in P
  BY <1>2, <1>3 DEF Flattening
<1>5. ASSUME NEW k \in Nat, k \in P PROVE k + 1 \in P
  <2> SUFFICES ASSUME k + 1 <= n PROVE h[k + 1] = g[k + 1]
    OBVIOUS
  <2>1. k \in 0 .. n - 1 /\ k \in 0 .. Len(r) - 1 /\ k + 1 \in 1 .. n /\ k <= n
    BY <1>1
  <2>2. g[k + 1] = g[k] \o q[k + 1]
    BY <1>2, <2>1 DEF Flattening, n
  <2>3. h[k + 1] = h[k] \o r[k + 1]
    BY <1>3, <2>1 DEF Flattening
  <2> QED
    BY <1>1, <1>5, <2>1, <2>2, <2>3
<1> HIDE DEF P
<1>6. n \in P
  BY <1>1, <1>4, <1>5, Induction
<1>7. h[n] = g[n]
  BY <1>1, <1>6 DEF P
<1>8. h[n + 1] = h[n] \o r[n + 1]
  <2>1. n \in 0 .. Len(r) - 1
    BY <1>1
  <2> QED
    BY <1>3, <2>1 DEF Flattening
<1> QED
  BY <1>1, <1>2, <1>3, <1>7, <1>8 DEF r

-----------------------------------------------------------------------------
(* The fold of Grouped, from left to right. *)

LEMMA MessagesAreTyped ==
  /\ \A t \in 0 .. TextBound + TurnBound :
       Assistant(t) \in Message /\ User(t) \in Message
  /\ \A t \in 0 .. TextBound + TurnBound, calls \in Seq(ToolCall) :
       WithCalls(t, calls) \in Message /\ Request(t, calls) \in Message
  /\ \A id \in CallId : Tool(id) \in Message
  /\ \A ids \in Seq(CallId) : Results(ids) \in Message
<1>1. <<>> \in Seq(ToolCall) /\ <<>> \in Seq(CallId)
  OBVIOUS
<1>2. \A id \in CallId : <<id>> \in Seq(CallId)
  OBVIOUS
<1>3. 0 \in 0 .. TextBound + TurnBound
  BY ProviderAssumption
<1> QED
  BY <1>1, <1>2, <1>3 DEF Message, Assistant, User, WithCalls, Request, Tool, Results

LEMMA GroupedIsTyped ==
  ASSUME NEW semantic \in Seq(Message), NEW m \in Message
  PROVE  Grouped(semantic, m) \in Seq(Message)
<1>1. m.ids \in Seq(CallId) /\ m.calls \in Seq(ToolCall)
      /\ m.text \in 0 .. TextBound + TurnBound
  BY DEF Message
<1>2. /\ Results(m.ids) \in Message
      /\ Request(m.text, m.calls) \in Message
  BY <1>1, MessagesAreTyped
<1>3. CASE m.kind = "tool" /\ semantic # <<>> /\ Last(semantic).kind = "results"
  <2>1. Last(semantic) \in Message /\ Front(semantic) \in Seq(Message)
    <3>1. Len(semantic) \in 1 .. Len(semantic) /\ Len(semantic) - 1 \in Nat
      BY <1>3, EmptySeq
    <3>2. SubSeq(semantic, 1, Len(semantic) - 1) \in Seq(Message)
      <4>1. \A i \in 1 .. Len(semantic) - 1 : semantic[i] \in Message
        BY <3>1, ElementOfSeq
      <4> QED
        BY <3>1, <4>1, SubSeqProperties
    <3> QED
      BY <3>1, <3>2 DEF Last, Front
  <2>2. Last(semantic).ids \in Seq(CallId)
    BY <2>1 DEF Message
  <2>3. Last(semantic).ids \o m.ids \in Seq(CallId)
    BY <1>1, <2>2, ConcatProperties
  <2>4. Results(Last(semantic).ids \o m.ids) \in Message
    BY <2>3, MessagesAreTyped
  <2>5. Grouped(semantic, m)
          = Append(Front(semantic), Results(Last(semantic).ids \o m.ids))
    BY <1>3 DEF Grouped
  <2> QED
    BY <2>1, <2>4, <2>5
<1>4. CASE ~(m.kind = "tool" /\ semantic # <<>> /\ Last(semantic).kind = "results")
  <2>1. Grouped(semantic, m) \in
          {Append(semantic, Results(m.ids)), Append(semantic, Request(m.text, m.calls)),
           Append(semantic, m)}
    BY <1>4 DEF Grouped
  <2> QED
    BY <1>2, <2>1
<1> QED
  BY <1>3, <1>4

LEMMA MaxIs ==
  ASSUME NEW n \in Nat, NEW s \in SUBSET (1 .. n), n \in s
  PROVE  Max(s) = n
<1>1. \A y \in s : n >= y
  OBVIOUS
<1>2. \A x \in s : (\A y \in s : x >= y) => x = n
  OBVIOUS
<1> QED
  BY <1>1, <1>2 DEF Max

Grouping(g, p) ==
  /\ g[0] = <<>>
  /\ \A k \in 0 .. Len(p) - 1 : g[k + 1] = Grouped(g[k], p[k + 1])

\* The body of the fold's recursion over the sets of positions up to n.
Folded(h, p, n) ==
  [s \in SUBSET (1 .. n) |->
     IF s = {} THEN <<>> ELSE Grouped(h[s \ {Max(s)}], p[Max(s)])]

LEMMA FoldedExists ==
  ASSUME NEW p, NEW n \in Nat
  PROVE  \E h : h = Folded(h, p, n)
<1> DEFINE P == {m \in Nat : \E h : h = Folded(h, p, m)}
<1>1. 0 \in P
  <2> DEFINE h == [s \in SUBSET (1 .. 0) |-> <<>>]
  <2>1. \A s \in SUBSET (1 .. 0) : s = {}
    OBVIOUS
  <2>2. h = Folded(h, p, 0)
    BY <2>1 DEF Folded
  <2> QED
    BY <2>2
<1>2. ASSUME NEW m \in Nat, m \in P PROVE m + 1 \in P
  <2>1. PICK h : h = Folded(h, p, m)
    BY <1>2
  <2> DEFINE f == [s \in SUBSET (1 .. m + 1) |->
                     IF m + 1 \in s THEN Grouped(h[s \ {m + 1}], p[m + 1]) ELSE h[s]]
  <2>2. ASSUME NEW s \in SUBSET (1 .. m + 1) PROVE f[s] = Folded(f, p, m + 1)[s]
    <3>1. CASE m + 1 \in s
      <4>1. Max(s) = m + 1
        BY <3>1, MaxIs
      <4>2. s \ {m + 1} \in SUBSET (1 .. m + 1) /\ m + 1 \notin s \ {m + 1}
        OBVIOUS
      <4>3. f[s \ {m + 1}] = h[s \ {m + 1}]
        BY <4>2
      <4> HIDE DEF f
      <4>4. f[s] = Grouped(h[s \ {m + 1}], p[m + 1])
        BY <3>1 DEF f
      <4> QED
        BY <3>1, <4>1, <4>3, <4>4 DEF Folded
    <3>2. CASE m + 1 \notin s
      <4>1. s \in SUBSET (1 .. m)
        BY <3>2
      <4>2. s \ {Max(s)} \in SUBSET (1 .. m + 1) /\ m + 1 \notin s \ {Max(s)}
        BY <3>2
      <4>3. f[s] = h[s] /\ f[s \ {Max(s)}] = h[s \ {Max(s)}]
        BY <3>2, <4>2
      <4> HIDE DEF f
      <4>4. h[s] = IF s = {} THEN <<>> ELSE Grouped(h[s \ {Max(s)}], p[Max(s)])
        BY <2>1, <4>1 DEF Folded
      <4> QED
        BY <4>3, <4>4 DEF Folded
    <3> QED
      BY <3>1, <3>2
  <2>3. f = Folded(f, p, m + 1)
    BY <2>2 DEF Folded
  <2> HIDE DEF f
  <2> QED
    BY <2>3
<1> HIDE DEF P
<1>3. n \in P
  BY <1>1, <1>2, Induction
<1> QED
  BY <1>3 DEF P

LEMMA FoldIs ==
  ASSUME NEW p \in Seq(Message)
  PROVE  semanticize(p) = (CHOOSE h : h = Folded(h, p, Len(p)))[1 .. Len(p)]
<1>1. DOMAIN p = 1 .. Len(p)
  OBVIOUS
<1> QED
  BY <1>1 DEF semanticize, FoldLeft, MapThenFoldSet, Folded

LEMMA Semanticizes ==
  ASSUME NEW p \in Seq(Message)
  PROVE  \E g \in [0 .. Len(p) -> Seq(Message)] :
           Grouping(g, p) /\ semanticize(p) = g[Len(p)]
<1> DEFINE n == Len(p)
<1>1. n \in Nat /\ DOMAIN p = 1 .. n /\ \A k \in 1 .. n : p[k] \in Message
  OBVIOUS
<1>2. PICK g \in [0 .. n -> Seq(Message)] : Grouping(g, p)
  <2> DEFINE T == Seq(Message)
             e == <<>>
             step == [k \in Nat |-> [v \in T |->
                        IF k + 1 \in 1 .. n THEN Grouped(v, p[k + 1]) ELSE v]]
  <2>1. \A v \in T, k \in Nat : k + 1 \in 1 .. n => Grouped(v, p[k + 1]) \in T
    BY <1>1, GroupedIsTyped
  <2>2. e \in T
    OBVIOUS
  <2> HIDE DEF n, T, e
  <2>3. step \in [Nat -> [T -> T]]
    BY <2>1
  <2> HIDE DEF step
  <2>4. PICK g \in [0 .. n -> T] : Runs(g, e, step, n)
    BY <1>1, <2>2, <2>3, Recursion
  <2>5. ASSUME NEW k \in 0 .. n - 1 PROVE g[k + 1] = Grouped(g[k], p[k + 1])
    <3>1. k \in Nat /\ k + 1 \in 1 .. n /\ g[k] \in T
      BY <1>1, <2>4
    <3>2. step[k][g[k]] = Grouped(g[k], p[k + 1])
      BY <3>1 DEF step
    <3> QED
      BY <2>4, <3>2 DEF Runs
  <2> QED
    BY <2>4, <2>5 DEF Grouping, Runs, n, T, e
<1> DEFINE h == CHOOSE h : h = Folded(h, p, n)
<1>3. h = Folded(h, p, n)
  BY <1>1, FoldedExists
<1>4. semanticize(p) = h[1 .. n]
  BY FoldIs
<1> HIDE DEF h, n
<1> DEFINE P == {k \in Nat : k <= n => h[1 .. k] = g[k]}
<1>5. 0 \in P
  <2>1. 1 .. 0 = {} /\ {} \in SUBSET (1 .. n)
    OBVIOUS
  <2>2. h[{}] = <<>>
    BY <1>3, <2>1 DEF Folded
  <2> QED
    BY <1>2, <2>1, <2>2 DEF Grouping
<1>6. ASSUME NEW k \in Nat, k \in P PROVE k + 1 \in P
  <2> SUFFICES ASSUME k + 1 <= n PROVE h[1 .. k + 1] = g[k + 1]
    OBVIOUS
  <2>1. 1 .. k + 1 \in SUBSET (1 .. n) /\ 1 .. k + 1 # {} /\ k + 1 \in 1 .. k + 1
    <3>1. k + 1 \in 1 .. k + 1
      OBVIOUS
    <3>2. \A x \in 1 .. k + 1 : x \in 1 .. n
      BY <1>1
    <3> QED
      BY <3>1, <3>2
  <2>2. Max(1 .. k + 1) = k + 1
    BY <2>1, MaxIs
  <2>3. (1 .. k + 1) \ {k + 1} = 1 .. k
    OBVIOUS
  <2>4. h[1 .. k + 1] = Grouped(h[1 .. k], p[k + 1])
    BY <1>3, <2>1, <2>2, <2>3 DEF Folded
  <2>5. g[k + 1] = Grouped(g[k], p[k + 1])
    <3>1. k \in 0 .. n - 1
      BY <1>1
    <3> QED
      BY <1>2, <3>1 DEF Grouping, n
  <2> QED
    BY <1>1, <1>6, <2>4, <2>5
<1> HIDE DEF P
<1>7. n \in P
  BY <1>1, <1>5, <1>6, Induction
<1> QED
  BY <1>1, <1>2, <1>4, <1>7 DEF P, n

LEMMA SemanticizeAppend ==
  ASSUME NEW p \in Seq(Message), NEW m \in Message
  PROVE  /\ semanticize(p) \in Seq(Message)
         /\ semanticize(Append(p, m)) = Grouped(semanticize(p), m)
<1> DEFINE n == Len(p)
           r == Append(p, m)
<1>1. /\ r \in Seq(Message) /\ Len(r) = n + 1 /\ r[n + 1] = m
      /\ n \in Nat /\ \A k \in 1 .. n : r[k] = p[k]
  OBVIOUS
<1> HIDE DEF r
<1>2. PICK g \in [0 .. n -> Seq(Message)] : Grouping(g, p) /\ semanticize(p) = g[n]
  BY Semanticizes
<1>3. PICK h \in [0 .. Len(r) -> Seq(Message)] : Grouping(h, r) /\ semanticize(r) = h[Len(r)]
  BY <1>1, Semanticizes
<1> HIDE DEF n
<1> DEFINE P == {k \in Nat : k <= n => h[k] = g[k]}
<1>4. 0 \in P
  BY <1>2, <1>3 DEF Grouping
<1>5. ASSUME NEW k \in Nat, k \in P PROVE k + 1 \in P
  <2> SUFFICES ASSUME k + 1 <= n PROVE h[k + 1] = g[k + 1]
    OBVIOUS
  <2>1. k \in 0 .. n - 1 /\ k \in 0 .. Len(r) - 1 /\ k + 1 \in 1 .. n /\ k <= n
    BY <1>1
  <2>2. g[k + 1] = Grouped(g[k], p[k + 1])
    BY <1>2, <2>1 DEF Grouping, n
  <2>3. h[k + 1] = Grouped(h[k], r[k + 1])
    BY <1>3, <2>1 DEF Grouping
  <2> QED
    BY <1>1, <1>5, <2>1, <2>2, <2>3
<1> HIDE DEF P
<1>6. n \in P
  BY <1>1, <1>4, <1>5, Induction
<1>7. h[n] = g[n]
  BY <1>1, <1>6 DEF P
<1>8. h[n + 1] = Grouped(h[n], r[n + 1])
  BY <1>1, <1>3 DEF Grouping
<1> QED
  BY <1>1, <1>2, <1>3, <1>7, <1>8 DEF r

LEMMA SemanticizeNothing == semanticize(<<>>) = <<>>
<1>1. <<>> \in Seq(Message) /\ Len(<<>>) = 0
  OBVIOUS
<1> QED
  BY <1>1, Semanticizes DEF Grouping

-----------------------------------------------------------------------------
(* The projection, from left to right. *)

LEMMA IdsAreTyped ==
  ASSUME NEW calls \in Seq(ToolCall)
  PROVE  /\ IdsOf(calls) \in Seq(CallId)
         /\ Len(IdsOf(calls)) = Len(calls)
         /\ DOMAIN IdsOf(calls) = 1 .. Len(calls)
         /\ \A k \in 1 .. Len(calls) : IdsOf(calls)[k] = calls[k].id
<1>1. /\ Len(calls) \in Nat /\ DOMAIN calls = 1 .. Len(calls)
      /\ \A k \in 1 .. Len(calls) : calls[k] \in ToolCall
  OBVIOUS
<1>2. \A k \in 1 .. Len(calls) : calls[k].id \in CallId
  BY <1>1 DEF ToolCall
<1> HIDE DEF ToolCall
<1> QED
  BY <1>1, <1>2 DEF IdsOf

Tools(ids) == [k \in DOMAIN ids |-> Tool(ids[k])]

LEMMA ToolsAreTyped ==
  ASSUME NEW ids \in Seq(CallId)
  PROVE  /\ Tools(ids) \in Seq(Message) /\ Len(Tools(ids)) = Len(ids)
         /\ \A k \in 1 .. Len(ids) : Tools(ids)[k] = Tool(ids[k])
<1>1. /\ Len(ids) \in Nat /\ DOMAIN ids = 1 .. Len(ids)
      /\ \A k \in 1 .. Len(ids) : Tool(ids[k]) \in Message
  BY MessagesAreTyped
<1> HIDE DEF Message
<1> QED
  BY <1>1 DEF Tools

LEMMA ToProviderIsTyped ==
  ASSUME NEW m \in Message
  PROVE  ToProvider(m) \in Seq(Message)
<1>1. m.ids \in Seq(CallId) /\ m.calls \in Seq(ToolCall)
      /\ m.text \in 0 .. TextBound + TurnBound
  BY DEF Message
<1>2. /\ Tools(m.ids) \in Seq(Message)
      /\ WithCalls(m.text, m.calls) \in Message
  BY <1>1, MessagesAreTyped, ToolsAreTyped
<1>3. \/ ToProvider(m) = <<WithCalls(m.text, m.calls)>>
      \/ ToProvider(m) = Tools(m.ids)
      \/ ToProvider(m) = <<m>>
  BY DEF ToProvider, Tools
<1>4. <<m>> \in Seq(Message) /\ <<WithCalls(m.text, m.calls)>> \in Seq(Message)
  <2> HIDE DEF Message
  <2> QED
    BY <1>2
<1> QED
  BY <1>2, <1>3, <1>4

LEMMA ProjectAppend ==
  ASSUME NEW c \in Seq(Message), NEW m \in Message
  PROVE  /\ project_conversation(c) \in Seq(Message)
         /\ project_conversation(Append(c, m)) = project_conversation(c) \o ToProvider(m)
<1> DEFINE n == Len(c)
           Each(d) == [k \in DOMAIN d |-> ToProvider(d[k])]
           r == Append(c, m)
<1>1. /\ r \in Seq(Message) /\ Len(r) = n + 1 /\ r[n + 1] = m /\ DOMAIN r = 1 .. n + 1
      /\ n \in Nat /\ DOMAIN c = 1 .. n
      /\ \A k \in 1 .. n : r[k] = c[k] /\ c[k] \in Message
  OBVIOUS
<1> HIDE DEF n, r
<1>2. Each(c) \in Seq(Seq(Message)) /\ Len(Each(c)) = n
  BY <1>1, ToProviderIsTyped
<1>3. ToProvider(m) \in Seq(Message)
  BY ToProviderIsTyped
<1>4. Each(r) = Append(Each(c), ToProvider(m))
  <2>1. Len(Each(r)) = n + 1 /\ Each(r) \in Seq(Seq(Message))
    <3>1. \A k \in 1 .. n + 1 : ToProvider(r[k]) \in Seq(Message)
      BY <1>1, <1>3, ToProviderIsTyped
    <3> QED
      BY <1>1, <3>1
  <2> DEFINE a == Append(Each(c), ToProvider(m))
  <2>2. /\ Len(a) = n + 1 /\ a \in Seq(Seq(Message)) /\ a[n + 1] = ToProvider(m)
        /\ \A k \in 1 .. n : a[k] = Each(c)[k]
    BY <1>2, <1>3, AppendProperties
  <2>3. ASSUME NEW k \in 1 .. n + 1 PROVE Each(r)[k] = a[k]
    <3>1. CASE k = n + 1
      BY <1>1, <2>2, <3>1
    <3>2. CASE k # n + 1
      <4>1. k \in 1 .. n
        BY <1>1, <3>2
      <4> QED
        BY <1>1, <2>2, <4>1
    <3> QED
      BY <3>1, <3>2
  <2> HIDE DEF a, Each
  <2>4. Each(r) = a
    BY <2>1, <2>2, <2>3, SeqEqual
  <2> QED
    BY <2>4 DEF a
<1> HIDE DEF Each
<1>5. /\ FlattenSeq(Each(c)) \in Seq(Message)
      /\ FlattenSeq(Append(Each(c), ToProvider(m))) = FlattenSeq(Each(c)) \o ToProvider(m)
  BY <1>2, <1>3, FlattenAppend
<1>6. /\ project_conversation(c) = FlattenSeq(Each(c))
      /\ project_conversation(r) = FlattenSeq(Each(r))
  BY DEF project_conversation, Each
<1> QED
  BY <1>4, <1>5, <1>6 DEF r

LEMMA ProjectNothing == project_conversation(<<>>) = <<>>
<1>1. [k \in DOMAIN <<>> |-> ToProvider(<<>>[k])] = <<>>
  OBVIOUS
<1> QED
  BY <1>1 DEF project_conversation, FlattenSeq

-----------------------------------------------------------------------------
(* What the projection of a conversation keeps of it. *)

Answered(ms) ==
  \A k \in DOMAIN ms :
    LET ids == IdsOf(ms[k].calls) IN
    /\ k + Len(ids) <= Len(ms)
    /\ \A j \in DOMAIN ids : ms[k + j] = Tool(ids[j])

Linked(c) ==
  /\ Begins(Head(c))
  /\ \A k \in 1 .. Len(c) - 1 : Follows(c[k + 1], c[k])
  /\ \A k \in DOMAIN c : IsInjective(IdsOf(c[k].calls))

Faithful(c) ==
  /\ semanticize(project_conversation(c)) = c
  /\ Answered(project_conversation(c))
  /\ ValidConversation(c)

LEMMA AnsweredConcat ==
  ASSUME NEW a \in Seq(Message), NEW b \in Seq(Message), Answered(a), Answered(b)
  PROVE  Answered(a \o b)
<1> DEFINE ms == a \o b
<1>1. /\ Len(a) \in Nat /\ Len(b) \in Nat /\ Len(ms) = Len(a) + Len(b)
      /\ DOMAIN a = 1 .. Len(a) /\ DOMAIN b = 1 .. Len(b)
      /\ DOMAIN ms = 1 .. Len(a) + Len(b)
      /\ \A k \in 1 .. Len(a) : a[k] \in Message
      /\ \A k \in 1 .. Len(b) : b[k] \in Message
  OBVIOUS
<1>2. /\ \A k \in 1 .. Len(a) : ms[k] = a[k]
      /\ \A k \in 1 .. Len(b) : ms[Len(a) + k] = b[k]
  OBVIOUS
<1> HIDE DEF ms
<1> SUFFICES ASSUME NEW k \in DOMAIN ms
             PROVE  /\ k + Len(IdsOf(ms[k].calls)) <= Len(ms)
                    /\ \A j \in DOMAIN IdsOf(ms[k].calls) :
                         ms[k + j] = Tool(IdsOf(ms[k].calls)[j])
  BY DEF Answered, ms
<1>3. CASE k <= Len(a)
  <2>1. k \in 1 .. Len(a) /\ ms[k] = a[k] /\ a[k].calls \in Seq(ToolCall)
    BY <1>1, <1>2, <1>3 DEF Message
  <2> DEFINE ids == IdsOf(a[k].calls)
  <2>2. Len(ids) \in Nat /\ DOMAIN ids = 1 .. Len(ids)
    BY <2>1, IdsAreTyped
  <2>3. k + Len(ids) <= Len(a) /\ \A j \in DOMAIN ids : a[k + j] = Tool(ids[j])
    BY <1>1, <2>1 DEF Answered
  <2> HIDE DEF ids
  <2>4. ASSUME NEW j \in DOMAIN ids PROVE ms[k + j] = Tool(ids[j])
    <3>1. k + j \in 1 .. Len(a)
      BY <1>1, <2>1, <2>2, <2>3
    <3> QED
      BY <1>2, <2>3, <3>1
  <2>5. k + Len(ids) <= Len(ms)
    BY <1>1, <2>1, <2>2, <2>3
  <2> QED
    BY <2>1, <2>4, <2>5 DEF ids
<1>4. CASE ~(k <= Len(a))
  <2> DEFINE i == k - Len(a)
  <2>1. i \in 1 .. Len(b) /\ Len(a) + i = k
    BY <1>1, <1>4
  <2> HIDE DEF i
  <2>2. ms[k] = b[i] /\ b[i].calls \in Seq(ToolCall)
    BY <1>1, <1>2, <2>1 DEF Message
  <2> DEFINE ids == IdsOf(b[i].calls)
  <2>3. Len(ids) \in Nat /\ DOMAIN ids = 1 .. Len(ids)
    BY <2>2, IdsAreTyped
  <2>4. i + Len(ids) <= Len(b) /\ \A j \in DOMAIN ids : b[i + j] = Tool(ids[j])
    BY <1>1, <2>1 DEF Answered
  <2> HIDE DEF ids
  <2>5. ASSUME NEW j \in DOMAIN ids PROVE ms[k + j] = Tool(ids[j])
    <3>1. i + j \in 1 .. Len(b) /\ k + j = Len(a) + (i + j)
      BY <1>1, <2>1, <2>3, <2>4
    <3> QED
      BY <1>2, <2>4, <3>1
  <2>6. k + Len(ids) <= Len(ms)
    BY <1>1, <2>1, <2>3, <2>4
  <2> QED
    BY <2>2, <2>5, <2>6 DEF ids
<1> QED
  BY <1>3, <1>4

LEMMA Links ==
  ASSUME NEW c \in Seq(Message), NEW m \in Message, IsInjective(IdsOf(m.calls)),
         c = <<>> => Begins(m),
         c # <<>> => Linked(c) /\ Follows(m, Last(c))
  PROVE  Linked(Append(c, m)) /\ Last(Append(c, m)) = m /\ Append(c, m) # <<>>
<1> DEFINE n == Len(c)
           r == Append(c, m)
<1>1. /\ r \in Seq(Message) /\ Len(r) = n + 1 /\ r[n + 1] = m /\ DOMAIN r = 1 .. n + 1
      /\ n \in Nat /\ DOMAIN c = 1 .. n /\ r # <<>> /\ Head(r) = r[1]
      /\ \A k \in 1 .. n : r[k] = c[k]
  <2>1. n \in Nat /\ DOMAIN c = 1 .. n
    OBVIOUS
  <2>2. /\ r \in Seq(Message) /\ r # <<>> /\ Len(r) = n + 1 /\ r[n + 1] = m
        /\ \A k \in 1 .. n : r[k] = c[k]
    BY AppendProperties
  <2> HIDE DEF r, n
  <2>3. DOMAIN r = 1 .. n + 1 /\ Head(r) = r[1]
    BY <2>1, <2>2
  <2> QED
    BY <2>1, <2>2, <2>3
<1>2. c = <<>> <=> n = 0
  OBVIOUS
<1>3. c # <<>> => Head(c) = c[1]
  OBVIOUS
<1> HIDE DEF r, n
<1>4. Begins(Head(r))
  <2>1. CASE c = <<>>
    BY <1>1, <1>2, <2>1
  <2>2. CASE c # <<>>
    <3>1. 1 \in 1 .. n
      BY <1>1, <1>2, <2>2
    <3> QED
      BY <1>1, <1>3, <2>2, <3>1 DEF Linked
  <2> QED
    BY <2>1, <2>2
<1>5. ASSUME NEW k \in 1 .. n PROVE Follows(r[k + 1], r[k])
  <2>1. c # <<>>
    BY <1>1, <1>2
  <2>2. CASE k = n
    BY <1>1, <2>1, <2>2 DEF Last, n
  <2>3. CASE k # n
    <3>1. k \in 1 .. n - 1 /\ k + 1 \in 1 .. n
      BY <1>1, <2>3
    <3> QED
      BY <1>1, <2>1, <3>1 DEF Linked, n
  <2> QED
    BY <2>2, <2>3
<1>6. ASSUME NEW k \in 1 .. n + 1 PROVE IsInjective(IdsOf(r[k].calls))
  <2>1. CASE k = n + 1
    BY <1>1, <2>1
  <2>2. CASE k # n + 1
    <3>1. k \in 1 .. n /\ c # <<>>
      BY <1>1, <1>2, <2>2
    <3> QED
      BY <1>1, <3>1 DEF Linked
  <2> QED
    BY <2>1, <2>2
<1>7. Linked(r)
  <2>1. Len(r) - 1 = n
    BY <1>1
  <2> QED
    BY <1>1, <1>4, <1>5, <1>6, <2>1 DEF Linked
<1> QED
  BY <1>1, <1>7 DEF r, Last

LEMMA ValidIsLinked ==
  ASSUME NEW c \in Seq(Message)
  PROVE  ValidConversation(c) <=>
           (c # <<>> => Linked(c) /\ Last(c).kind # "request")
BY DEF ValidConversation, Linked

LEMMA NoCallsAreAnswered ==
  ASSUME NEW m \in Message, m.calls = <<>>
  PROVE  Answered(<<m>>) /\ IsInjective(IdsOf(m.calls))
<1>1. /\ Len(IdsOf(m.calls)) = 0 /\ DOMAIN IdsOf(m.calls) = {}
  <2>1. <<>> \in Seq(ToolCall) /\ Len(<<>>) = 0 /\ 1 .. 0 = {}
    OBVIOUS
  <2> QED
    BY <2>1, IdsAreTyped
<1> HIDE DEF Message
<1> QED
  BY <1>1 DEF Answered, IsInjective

\* A prompt or an answer is said.
LEMMA Plain ==
  ASSUME NEW c \in Seq(Message), NEW m \in Message, Faithful(c),
         m.kind \in {"user", "assistant"}, m.calls = <<>>,
         c = <<>> => Begins(m),
         c # <<>> => Follows(m, Last(c))
  PROVE  /\ project_conversation(Append(c, m)) = Append(project_conversation(c), m)
         /\ Faithful(Append(c, m))
<1> DEFINE p == project_conversation(c)
           d == Append(c, m)
<1>1. p \in Seq(Message)
  BY ProjectAppend
<1>2. project_conversation(d) = Append(p, m)
  <2>1. ToProvider(m) = <<m>>
    BY DEF ToProvider
  <2>2. project_conversation(d) = p \o <<m>>
    BY <2>1, ProjectAppend
  <2> HIDE DEF p, d
  <2> QED
    BY <1>1, <2>2, AppendIsConcat
<1> HIDE DEF p
<1>3. semanticize(Append(p, m)) = d
  <2>1. semanticize(Append(p, m)) = Grouped(c, m)
    BY <1>1, SemanticizeAppend DEF Faithful, p
  <2> QED
    BY <2>1 DEF Grouped
<1>4. Answered(Append(p, m))
  <2>1. Answered(p) /\ Answered(<<m>>) /\ <<m>> \in Seq(Message)
    BY NoCallsAreAnswered DEF Faithful, p
  <2>2. Answered(p \o <<m>>)
    BY <1>1, <2>1, AnsweredConcat
  <2> QED
    BY <1>1, <2>2, AppendIsConcat
<1>5. ValidConversation(d)
  <2>1. IsInjective(IdsOf(m.calls))
    BY NoCallsAreAnswered
  <2>2. c # <<>> => Linked(c)
    BY ValidIsLinked DEF Faithful
  <2>3. Linked(d) /\ Last(d) = m
    BY <2>1, <2>2, Links
  <2>4. d \in Seq(Message)
    OBVIOUS
  <2> HIDE DEF d
  <2> QED
    BY <2>3, <2>4, ValidIsLinked
<1> QED
  BY <1>2, <1>3, <1>4, <1>5 DEF Faithful, p

LEMMA RoundIsAnswered ==
  ASSUME NEW t \in 0 .. TextBound + TurnBound, NEW calls \in Seq(ToolCall)
  PROVE  Answered(<<WithCalls(t, calls)>> \o Tools(IdsOf(calls)))
<1> DEFINE ids == IdsOf(calls)
           w == WithCalls(t, calls)
           tail == <<w>> \o Tools(ids)
<1>1. ids \in Seq(CallId) /\ Len(ids) \in Nat /\ DOMAIN ids = 1 .. Len(ids)
  BY IdsAreTyped
<1>2. /\ Tools(ids) \in Seq(Message) /\ Len(Tools(ids)) = Len(ids)
      /\ \A k \in 1 .. Len(ids) : Tools(ids)[k] = Tool(ids[k])
  BY <1>1, ToolsAreTyped
<1>3. w \in Message /\ w.calls = calls
  BY MessagesAreTyped DEF WithCalls
<1> HIDE DEF ids, w
<1>4. /\ tail \in Seq(Message) /\ Len(tail) = 1 + Len(ids) /\ tail[1] = w
      /\ \A k \in 1 .. Len(ids) : tail[1 + k] = Tools(ids)[k]
  <2>1. <<w>> \in Seq(Message) /\ Len(<<w>>) = 1 /\ <<w>>[1] = w
    BY <1>3
  <2>2. /\ tail \in Seq(Message) /\ Len(tail) = 1 + Len(ids)
        /\ \A i \in 1 .. 1 + Len(ids) :
             tail[i] = IF i <= 1 THEN <<w>>[i] ELSE Tools(ids)[i - 1]
    BY <1>2, <2>1, ConcatProperties
  <2> HIDE DEF tail
  <2>3. tail[1] = w
    BY <1>1, <2>1, <2>2
  <2>4. ASSUME NEW k \in 1 .. Len(ids) PROVE tail[1 + k] = Tools(ids)[k]
    <3>1. 1 + k \in 1 .. 1 + Len(ids) /\ ~(1 + k <= 1) /\ (1 + k) - 1 = k
      BY <1>1
    <3> QED
      BY <2>2, <3>1
  <2> QED
    BY <2>2, <2>3, <2>4
<1> HIDE DEF tail
<1>5. DOMAIN tail = 1 .. 1 + Len(ids)
  BY <1>4
<1> SUFFICES ASSUME NEW k \in DOMAIN tail
             PROVE  /\ k + Len(IdsOf(tail[k].calls)) <= Len(tail)
                    /\ \A j \in DOMAIN IdsOf(tail[k].calls) :
                         tail[k + j] = Tool(IdsOf(tail[k].calls)[j])
  BY DEF Answered, tail, ids, w
<1>6. CASE k = 1
  <2>1. IdsOf(tail[k].calls) = ids
    BY <1>3, <1>4, <1>6 DEF ids
  <2> QED
    BY <1>1, <1>2, <1>4, <1>6, <2>1
<1>7. CASE k # 1
  <2> DEFINE i == k - 1
  <2>1. i \in 1 .. Len(ids) /\ 1 + i = k
    BY <1>1, <1>5, <1>7
  <2> HIDE DEF i
  <2>2. tail[k] = Tool(ids[i])
    BY <1>2, <1>4, <2>1
  <2>3. tail[k].calls = <<>>
    BY <2>2 DEF Tool
  <2>4. Len(IdsOf(tail[k].calls)) = 0 /\ DOMAIN IdsOf(tail[k].calls) = {}
    <3>1. <<>> \in Seq(ToolCall) /\ Len(<<>>) = 0 /\ 1 .. 0 = {}
      OBVIOUS
    <3> QED
      BY <2>3, <3>1, IdsAreTyped
  <2> QED
    BY <1>1, <1>4, <1>5, <2>4
<1> QED
  BY <1>6, <1>7

LEMMA Concatenations ==
  ASSUME NEW a \in Seq(Message), NEW b \in Seq(Message), NEW m \in Message
  PROVE  /\ a \o b \in Seq(Message)
         /\ a \o Append(b, m) = Append(a \o b, m)
         /\ SubSeq(Append(a \o b, m), Len(a) + 1, Len(Append(a \o b, m))) = Append(b, m)
         /\ Last(Append(b, m)) = m /\ Append(b, m) # <<>>
         /\ Append(b, m) \in Seq(Message)
         /\ b # <<>> => Head(Append(b, m)) = Head(b)
         /\ b # <<>> => a \o b # <<>> /\ Last(a \o b) = Last(b)
<1>1. a \o b \in Seq(Message) /\ Append(b, m) \in Seq(Message) /\ <<m>> \in Seq(Message)
      /\ Len(a) \in Nat /\ Len(b) \in Nat /\ Len(Append(b, m)) = Len(b) + 1
      /\ Len(a \o b) = Len(a) + Len(b)
  OBVIOUS
<1>2. a \o Append(b, m) = Append(a \o b, m)
  <2>1. Append(b, m) = b \o <<m>> /\ Append(a \o b, m) = (a \o b) \o <<m>>
    BY <1>1, AppendIsConcat
  <2> QED
    BY <1>1, <2>1, ConcatAssociative
<1>3. SubSeq(a \o Append(b, m), Len(a) + 1, Len(a \o Append(b, m))) = Append(b, m)
  <2> DEFINE t == Append(b, m)
  <2>1. Len(a \o t) = Len(a) + Len(t) /\ Len(t) \in Nat \ {0} /\ t \in Seq(Message)
    BY <1>1, ConcatProperties
  <2>2. Len(a) + 1 \in Len(a) + 1 .. Len(a) + Len(t)
        /\ Len(a) + Len(t) \in Len(a) + 1 .. Len(a) + Len(t)
        /\ (Len(a) + 1) - Len(a) = 1 /\ (Len(a) + Len(t)) - Len(a) = Len(t)
    BY <1>1, <2>1
  <2> HIDE DEF t
  <2>3. SubSeq(a \o t, Len(a) + 1, Len(a) + Len(t)) = SubSeq(t, 1, Len(t))
    BY <2>1, <2>2, SubSeqOfConcat2
  <2> QED
    BY <2>1, <2>3, SubSeqFull DEF t
<1>4. Last(Append(b, m)) = m /\ Append(b, m) # <<>>
  BY AppendProperties DEF Last
<1>5. b # <<>> => Head(Append(b, m)) = Head(b)
  BY HeadTailAppend
<1>6. ASSUME b # <<>> PROVE a \o b # <<>> /\ Last(a \o b) = Last(b)
  <2>1. Len(b) # 0 /\ Len(a) + Len(b) \in 1 .. Len(a) + Len(b)
        /\ (Len(a) + Len(b) <= Len(a) => FALSE)
        /\ (Len(a) + Len(b)) - Len(a) = Len(b)
    BY <1>1, <1>6, EmptySeq
  <2>2. (a \o b)[Len(a) + Len(b)] = b[Len(b)]
    BY <2>1, ConcatProperties
  <2>3. a \o b # <<>>
    BY <1>1, <1>6, ConcatEqualIffEmpty
  <2> QED
    BY <1>1, <2>2, <2>3 DEF Last
<1> QED
  BY <1>1, <1>2, <1>3, <1>4, <1>5, <1>6

LEMMA FrontOfAppend ==
  ASSUME NEW s \in Seq(Message), NEW r \in Message
  PROVE  Front(Append(s, r)) = s /\ Last(Append(s, r)) = r /\ Append(s, r) # <<>>
<1> DEFINE t == Append(s, r)
<1>1. /\ t \in Seq(Message) /\ Len(t) = Len(s) + 1 /\ Len(s) \in Nat /\ t[Len(s) + 1] = r
      /\ t = s \o <<r>> /\ <<r>> \in Seq(Message) /\ t # <<>>
  BY AppendProperties, AppendIsConcat
<1> HIDE DEF t
<1>2. CASE s = <<>>
  <2>1. Len(s) = 0 /\ Len(t) - 1 = 0
    BY <1>1, <1>2
  <2> QED
    BY <1>1, <1>2, <2>1, SubSeqEmpty DEF Front, Last, t
<1>3. CASE s # <<>>
  <2>1. 1 \in 1 .. Len(s) /\ Len(s) \in 1 .. Len(s) /\ Len(t) - 1 = Len(s)
    BY <1>1, <1>3, EmptySeq
  <2>2. SubSeq(s \o <<r>>, 1, Len(s)) = SubSeq(s, 1, Len(s))
    BY <1>1, <2>1, SubSeqOfConcat1
  <2> QED
    BY <1>1, <2>1, <2>2, SubSeqFull DEF Front, Last, t
<1> QED
  BY <1>2, <1>3

LEMMA ToolsAppend ==
  ASSUME NEW ids \in Seq(CallId), NEW id \in CallId
  PROVE  Tools(Append(ids, id)) = Append(Tools(ids), Tool(id))
<1> DEFINE longer == Append(ids, id)
           a == Tools(longer)
           b == Append(Tools(ids), Tool(id))
<1>1. /\ longer \in Seq(CallId) /\ Len(longer) = Len(ids) + 1 /\ Len(ids) \in Nat
      /\ longer[Len(ids) + 1] = id
      /\ \A k \in 1 .. Len(ids) : longer[k] = ids[k]
  BY AppendProperties
<1> HIDE DEF longer
<1>2. /\ a \in Seq(Message) /\ Len(a) = Len(ids) + 1
      /\ \A k \in 1 .. Len(ids) + 1 : a[k] = Tool(longer[k])
  BY <1>1, ToolsAreTyped
<1>3. /\ Tools(ids) \in Seq(Message) /\ Len(Tools(ids)) = Len(ids) /\ Tool(id) \in Message
      /\ \A k \in 1 .. Len(ids) : Tools(ids)[k] = Tool(ids[k])
  BY ToolsAreTyped, MessagesAreTyped
<1>4. /\ b \in Seq(Message) /\ Len(b) = Len(ids) + 1 /\ b[Len(ids) + 1] = Tool(id)
      /\ \A k \in 1 .. Len(ids) : b[k] = Tools(ids)[k]
  BY <1>3, AppendProperties
<1> HIDE DEF a, b
<1>5. ASSUME NEW k \in 1 .. Len(ids) + 1 PROVE a[k] = b[k]
  <2>1. CASE k = Len(ids) + 1
    BY <1>1, <1>2, <1>4, <2>1
  <2>2. CASE k # Len(ids) + 1
    <3>1. k \in 1 .. Len(ids)
      BY <1>1, <2>2
    <3> QED
      BY <1>1, <1>2, <1>3, <1>4, <3>1
  <2> QED
    BY <2>1, <2>2
<1>6. a = b
  BY <1>2, <1>4, <1>5, SeqEqual
<1> QED
  BY <1>6 DEF a, b, longer

\* One more result joins the batch.
LEMMA OneMoreResult ==
  ASSUME NEW q \in Seq(Message), NEW s \in Seq(Message),
         NEW ids \in Seq(CallId), NEW id \in CallId,
         semanticize(q \o Tools(ids)) = Append(s, Results(ids))
  PROVE  semanticize(q \o Tools(Append(ids, id))) = Append(s, Results(Append(ids, id)))
<1>1. /\ Tools(ids) \in Seq(Message) /\ Tool(id) \in Message /\ Results(ids) \in Message
      /\ q \o Tools(ids) \in Seq(Message)
  BY ToolsAreTyped, MessagesAreTyped, ConcatProperties
<1>2. q \o Tools(Append(ids, id)) = Append(q \o Tools(ids), Tool(id))
  <2>1. Tools(Append(ids, id)) = Append(Tools(ids), Tool(id))
    BY ToolsAppend
  <2> QED
    BY <1>1, <2>1, Concatenations
<1>3. semanticize(q \o Tools(Append(ids, id))) = Grouped(Append(s, Results(ids)), Tool(id))
  BY <1>1, <1>2, SemanticizeAppend
<1>4. /\ Front(Append(s, Results(ids))) = s /\ Last(Append(s, Results(ids))) = Results(ids)
      /\ Append(s, Results(ids)) # <<>>
  BY <1>1, FrontOfAppend
<1>5. /\ Results(ids).kind = "results" /\ Results(ids).ids = ids
      /\ Tool(id).kind = "tool" /\ Tool(id).ids = <<id>>
  BY DEF Results, Tool
<1>6. ids \o <<id>> = Append(ids, id)
  BY AppendIsConcat
<1> QED
  BY <1>3, <1>4, <1>5, <1>6 DEF Grouped

LEMMA FirstResult ==
  ASSUME NEW q \in Seq(Message), NEW id \in CallId,
         semanticize(q) # <<>>, Last(semanticize(q)).kind = "request"
  PROVE  semanticize(q \o Tools(<<id>>)) = Append(semanticize(q), Results(<<id>>))
<1>1. Tool(id) \in Message /\ Tool(id).kind = "tool" /\ Tool(id).ids = <<id>>
  BY MessagesAreTyped DEF Tool
<1>2. Tools(<<id>>) = <<Tool(id)>>
  BY DEF Tools
<1>3. q \o Tools(<<id>>) = Append(q, Tool(id))
  BY <1>1, <1>2, AppendIsConcat
<1>4. semanticize(Append(q, Tool(id))) = Grouped(semanticize(q), Tool(id))
  BY <1>1, SemanticizeAppend
<1> QED
  BY <1>1, <1>3, <1>4 DEF Grouped

LEMMA ResultsAreGrouped ==
  ASSUME NEW q \in Seq(Message), NEW ids \in Seq(CallId), ids # <<>>,
         semanticize(q) # <<>>, Last(semanticize(q)).kind = "request"
  PROVE  semanticize(q \o Tools(ids)) = Append(semanticize(q), Results(ids))
<1> DEFINE s == semanticize(q)
           Batched(some) == semanticize(q \o Tools(some)) = Append(s, Results(some))
           First(k) == SubSeq(ids, 1, k)
           P == {k \in Nat : k + 1 <= Len(ids) => Batched(First(k + 1))}
<1>1. s \in Seq(Message)
  BY SemanticizeAppend, MessagesAreTyped, EmptySeq, ProviderAssumption
<1>2. Len(ids) \in Nat \ {0} /\ \A k \in 1 .. Len(ids) : ids[k] \in CallId
  BY EmptySeq, ElementOfSeq
<1> HIDE DEF s
<1>3. \A k \in 1 .. Len(ids) : First(k) \in Seq(CallId)
  <2> SUFFICES ASSUME NEW k \in 1 .. Len(ids) PROVE First(k) \in Seq(CallId)
    OBVIOUS
  <2>1. \A i \in 1 .. k : ids[i] \in CallId
    BY <1>2
  <2> QED
    BY <1>2, <2>1, SubSeqProperties
<1>4. 0 \in P
  <2>1. 1 \in 1 .. Len(ids)
    BY <1>2
  <2>2. First(1) = <<ids[1]>>
    <3>1. First(1) \in Seq(CallId) /\ Len(First(1)) = 1 /\ First(1)[1] = ids[1]
      <4>1. \A i \in 1 .. 1 : ids[i] \in CallId
        BY <1>2, <2>1
      <4>2. /\ Len(First(1)) = IF 1 <= 1 THEN 1 - 1 + 1 ELSE 0
            /\ \A i \in 1 .. 1 - 1 + 1 : First(1)[i] = ids[1 + i - 1]
        BY <4>1, SubSeqProperties
      <4> QED
        BY <1>3, <2>1, <4>2
    <3> HIDE DEF First
    <3> QED
      BY <3>1
  <2>3. Batched(<<ids[1]>>)
    BY <1>2, <2>1, FirstResult DEF s
  <2> HIDE DEF First
  <2>4. Batched(First(1)) /\ 0 + 1 = 1
    BY <2>2, <2>3
  <2> HIDE DEF Batched
  <2> QED
    BY <2>4
<1>5. ASSUME NEW k \in Nat, k \in P PROVE k + 1 \in P
  <2> SUFFICES ASSUME k + 2 <= Len(ids) PROVE Batched(First(k + 2))
    OBVIOUS
  <2>1. k + 1 \in 1 .. Len(ids) /\ k + 2 \in 1 .. Len(ids) /\ 1 \in 1 .. Len(ids)
        /\ k + 2 \in 1 .. Len(ids) /\ (k + 2) - 1 = k + 1
    BY <1>2
  <2>2. Batched(First(k + 1)) /\ First(k + 1) \in Seq(CallId) /\ ids[k + 2] \in CallId
    BY <1>2, <1>3, <1>5, <2>1
  <2>3. First(k + 2) = Append(First(k + 1), ids[k + 2])
    <3>1. First(k + 2) = SubSeq(ids, 1, (k + 2) - 1) \o <<ids[k + 2]>>
      BY <2>1, SubSeqRecursiveSecond
    <3>2. First(k + 2) = First(k + 1) \o <<ids[k + 2]>>
      BY <2>1, <3>1
    <3> HIDE DEF First
    <3> QED
      BY <2>2, <3>2, AppendIsConcat
  <2> HIDE DEF First
  <2>4. Batched(Append(First(k + 1), ids[k + 2]))
    BY <1>1, <2>2, OneMoreResult
  <2> QED
    BY <2>3, <2>4
<1> HIDE DEF P
<1>6. Len(ids) - 1 \in P
  <2>1. Nat \subseteq P
    BY <1>4, <1>5, Induction
  <2> QED
    BY <1>2, <2>1
<1>7. Batched(First(Len(ids)))
  BY <1>2, <1>6 DEF P
<1>8. First(Len(ids)) = ids
  BY SubSeqFull
<1> QED
  BY <1>7, <1>8 DEF s

\* A request for tools and its results are said.
LEMMA Round ==
  ASSUME NEW c \in Seq(Message), Faithful(c), c # <<>>,
         Last(c).kind \in {"user", "results"},
         NEW t \in 0 .. TextBound + TurnBound,
         NEW calls \in Seq(ToolCall), calls # <<>>,
         IsInjective(IdsOf(calls)),
         NEW d, d = Append(Append(c, Request(t, calls)), Results(IdsOf(calls)))
  PROVE  /\ project_conversation(d)
               = Append(project_conversation(c), WithCalls(t, calls)) \o Tools(IdsOf(calls))
         /\ Faithful(d) /\ Last(d).kind = "results" /\ d \in Seq(Message) /\ d # <<>>
<1> DEFINE p == project_conversation(c)
           ids == IdsOf(calls)
           w == WithCalls(t, calls)
           rq == Request(t, calls)
           rs == Results(ids)
           c1 == Append(c, rq)
<1>1. /\ p \in Seq(Message) /\ ids \in Seq(CallId) /\ Len(ids) = Len(calls)
      /\ w \in Message /\ rq \in Message /\ rs \in Message
  BY ProjectAppend, IdsAreTyped, MessagesAreTyped
<1>2. c1 \in Seq(Message) /\ d \in Seq(Message) /\ d = Append(c1, rs)
  BY <1>1
<1>3. /\ ToProvider(rq) = <<w>> /\ ToProvider(rs) = Tools(ids)
      /\ rq.kind = "request" /\ rq.calls = calls
      /\ rs.kind = "results" /\ rs.ids = ids /\ rs.calls = <<>>
      /\ w.kind = "assistant" /\ w.calls = calls /\ w.text = t
  BY DEF ToProvider, Tools, Request, Results, WithCalls
<1>4. Tools(ids) \in Seq(Message)
  BY <1>1, ToolsAreTyped
<1>5. semanticize(p) = c /\ Answered(p) /\ Linked(c)
  BY ValidIsLinked DEF Faithful
<1> HIDE DEF ids, w, rq, rs, p
<1>6. project_conversation(c1) = Append(p, w)
  <2>1. project_conversation(c1) = p \o <<w>>
    BY <1>1, <1>3, ProjectAppend DEF p
  <2> QED
    BY <1>1, <2>1, AppendIsConcat
<1>7. project_conversation(d) = Append(p, w) \o Tools(ids)
  BY <1>1, <1>2, <1>3, <1>6, ProjectAppend
<1>8. semanticize(Append(p, w)) = c1
  <2>1. semanticize(Append(p, w)) = Grouped(c, w)
    BY <1>1, <1>5, SemanticizeAppend
  <2>2. Request(w.text, w.calls) = rq
    BY <1>3 DEF rq
  <2>3. calls # <<>> /\ w.kind # "tool"
    BY <1>3
  <2> QED
    BY <1>3, <2>1, <2>2, <2>3 DEF Grouped
<1>9. semanticize(Append(p, w) \o Tools(ids)) = d
  <2> DEFINE q == Append(p, w)
  <2>1. q \in Seq(Message)
    BY <1>1
  <2>2. Last(c1) = rq /\ c1 # <<>>
    BY <1>1 DEF Last
  <2>3. ids # <<>>
    <3>1. Len(calls) \in Nat \ {0} /\ Len(<<>>) = 0
      BY EmptySeq
    <3> QED
      BY <1>1, <3>1
  <2> HIDE DEF q
  <2>4. semanticize(q) # <<>> /\ Last(semanticize(q)).kind = "request"
    BY <1>3, <1>8, <2>2 DEF q
  <2>5. semanticize(q \o Tools(ids)) = Append(semanticize(q), Results(ids))
    BY <1>1, <2>1, <2>3, <2>4, ResultsAreGrouped
  <2> QED
    BY <1>2, <1>8, <2>5 DEF q, rs
<1>10. Answered(Append(p, w) \o Tools(ids))
  <2>1. Answered(<<w>> \o Tools(ids))
    BY RoundIsAnswered DEF w, ids
  <2>2. <<w>> \o Tools(ids) \in Seq(Message) /\ <<w>> \in Seq(Message)
    BY <1>1, <1>4
  <2>3. Answered(p \o (<<w>> \o Tools(ids)))
    BY <1>1, <1>5, <2>1, <2>2, AnsweredConcat
  <2>4. Append(p, w) = p \o <<w>>
    BY <1>1, AppendIsConcat
  <2>5. (p \o <<w>>) \o Tools(ids) = p \o (<<w>> \o Tools(ids))
    BY <1>1, <1>4, <2>2, ConcatAssociative
  <2> QED
    BY <2>3, <2>4, <2>5
<1>11. ValidConversation(d) /\ Last(d) = rs /\ d # <<>>
  <2>1. Follows(rq, Last(c))
    BY <1>3 DEF Follows
  <2>2. IsInjective(IdsOf(rq.calls))
    BY <1>3
  <2>3. Linked(c1) /\ Last(c1) = rq /\ c1 # <<>>
    BY <1>1, <1>5, <2>1, <2>2, Links
  <2>4. Follows(rs, rq)
    BY <1>3 DEF Follows, ids
  <2>5. IsInjective(IdsOf(rs.calls))
    BY <1>1, <1>3, NoCallsAreAnswered
  <2>6. Linked(d) /\ Last(d) = rs /\ d # <<>>
    <3> HIDE DEF c1
    <3> QED
      BY <1>1, <1>2, <2>3, <2>4, <2>5, Links
  <2> QED
    BY <1>2, <1>3, <2>6, ValidIsLinked
<1> QED
  BY <1>2, <1>3, <1>7, <1>9, <1>10, <1>11 DEF Faithful, p, w, ids

-----------------------------------------------------------------------------
(* The invariant. *)

\* The session reads back as it was written, and is what was said.
Durable ==
  /\ Faithful(transcript)
  /\ transcript # <<>> => Last(transcript).kind = "assistant"
  /\ transcript = record

\* ms asks for what comes after the part s of the turn in the session t.
Asks(t, s, ms) ==
  /\ s # <<>> /\ Begins(Head(s))
  /\ ms = project_conversation(t \o s)
  /\ Faithful(t \o s)
  /\ Last(t \o s).kind \in {"user", "results"}

\* The accumulators hold what was sent.
Gathered ==
  /\ attempt.text = sent.text
  /\ DOMAIN attempt.calls = {i \in Index : sent.pieces[i] > 0}
  /\ DOMAIN attempt.calls \subseteq DOMAIN reply.calls
  /\ \A i \in DOMAIN attempt.calls :
       /\ attempt.calls[i].id \in {NoCall, reply.calls[i]}
       /\ attempt.calls[i].arguments = (sent.pieces[i] = Whole)

Ended == attempt.finish \in {"stop", "tool_calls"} => EverythingSent

\* The turn stands in a round of calls, said and not yet asked about.
InRound(t, s, ms, said, n) ==
  \E before \in Seq(Message), calls \in Seq(ToolCall),
     text \in 0 .. TextBound + TurnBound :
    /\ Asks(t, before, project_conversation(t \o before))
    /\ calls # <<>>
    /\ Len(calls) = n
    /\ IsInjective(IdsOf(calls))
    /\ ms = Append(project_conversation(t \o before), WithCalls(text, calls))
    /\ s = Append(Append(before, Request(text, calls)), Results(IdsOf(calls)))
    /\ IsInjective(said)
    /\ Range(said) \subseteq Range(IdsOf(calls))

Acting ==
  /\ InRound(transcript, story, messages, completed,
             Cardinality(DOMAIN attempt.calls))
  /\ attempt.finish # "length" =>
       EverythingSent /\ DOMAIN attempt.calls = DOMAIN reply.calls

IInv ==
  /\ TypeOK
  /\ Durable
  /\ pc \in {"request", "stream"} => Asks(transcript, story, messages)
  /\ pc = "stream" => Gathered /\ Ended
  /\ pc \in {"approval", "tools"} => Acting

-----------------------------------------------------------------------------
LEMMA Empties ==
  /\ NewAttempt \in Attempt /\ NoReply \in Reply /\ NothingSent \in Sent
  /\ <<>> \in Seq(Message) /\ <<>> \in Seq(CallId)
<1>1. 0 \in 0 .. TextBound /\ 0 \in 0 .. Whole /\ {} \in SUBSET Index
  BY ProviderAssumption DEF Whole
<1>2. <<>> \in PartialCalls
  <2>1. <<>> \in [{} -> Partial]
    OBVIOUS
  <2> QED
    BY <1>1, <2>1 DEF PartialCalls
<1>3. <<>> \in UNION {[I -> CallId] : I \in SUBSET Index}
  <2>1. <<>> \in [{} -> CallId]
    OBVIOUS
  <2> QED
    BY <1>1, <2>1
<1>4. NewAttempt \in Attempt
  BY <1>1, <1>2 DEF NewAttempt, Attempt
<1>5. NoReply \in Reply
  BY <1>1, <1>3 DEF NoReply, Reply
<1>6. NothingSent \in Sent
  BY <1>1 DEF NothingSent, Sent
<1> QED
  BY <1>4, <1>5, <1>6

LEMMA Initially == Init => IInv
<1> SUFFICES ASSUME Init PROVE IInv
  OBVIOUS
<1>1. TypeOK
  BY Empties, ProviderAssumption DEF Init, TypeOK
<1>2. ValidConversation(<<>>) /\ Answered(<<>>)
  BY DEF ValidConversation, Answered
<1>3. Faithful(<<>>)
  BY <1>2, ProjectNothing, SemanticizeNothing DEF Faithful
<1>4. Durable
  BY <1>3 DEF Durable, Init
<1> QED
  BY <1>1, <1>4 DEF Init, IInv

LEMMA Fails == IInv /\ Fail => IInv'
<1> SUFFICES ASSUME IInv, Fail PROVE IInv'
  OBVIOUS
<1>1. TypeOK'
  BY Empties, ProviderAssumption DEF IInv, TypeOK, Fail, Return
<1>2. Durable'
  BY DEF IInv, Durable, Fail
<1> QED
  BY <1>1, <1>2 DEF IInv, Fail, Return

LEMMA Starts == IInv /\ StartTurn => IInv'
<1> SUFFICES ASSUME IInv, StartTurn PROVE IInv'
  OBVIOUS
<1> DEFINE m == User(turn + 1)
<1>1. TypeOK /\ Durable
  BY DEF IInv
<1>2. turn + 1 \in 0 .. TurnBound /\ turn + 1 \in 0 .. TextBound + TurnBound
  BY <1>1, ProviderAssumption DEF TypeOK, StartTurn
<1>3. m \in Message
  BY <1>2, MessagesAreTyped
<1>4. transcript \in Seq(Message) /\ <<m>> \in Seq(Message)
      /\ transcript \o <<m>> = Append(transcript, m)
  BY <1>1, <1>3, AppendIsConcat DEF TypeOK
<1>5. m.kind = "user" /\ m.calls = <<>>
  BY DEF User
<1>6. StartTurn => messages' = Append(project_conversation(transcript), m) /\ story' = <<m>>
  BY DEF StartTurn
<1> HIDE DEF m
<1>7. /\ project_conversation(Append(transcript, m))
           = Append(project_conversation(transcript), m)
      /\ Faithful(Append(transcript, m))
  <2>1. transcript # <<>> => Follows(m, Last(transcript))
    BY <1>1, <1>5 DEF Durable, Follows, Begins
  <2>2. Faithful(transcript) /\ Begins(m)
    BY <1>1, <1>5 DEF Durable, Begins
  <2> QED
    BY <1>3, <1>4, <1>5, <2>1, <2>2, Plain
<1>8. Asks(transcript, <<m>>, messages')
  <2>1. <<m>> # <<>> /\ Head(<<m>>) = m
    OBVIOUS
  <2>2. Last(Append(transcript, m)) = m
    BY <1>3, <1>4, Concatenations
  <2> QED
    BY <1>4, <1>5, <1>6, <1>7, <2>1, <2>2 DEF Asks, Begins
<1>9. TypeOK'
  <2>1. messages' \in Seq(Message) /\ story' \in Seq(Message)
    <3>1. project_conversation(transcript) \in Seq(Message)
      BY <1>3, <1>4, ProjectAppend
    <3>2. Append(project_conversation(transcript), m) \in Seq(Message)
      BY <1>3, <3>1, AppendProperties
    <3> QED
      BY <1>4, <1>6, <3>2
  <2> QED
    BY <1>1, <1>2, <2>1 DEF TypeOK, StartTurn, provider
<1>10. Durable'
  BY <1>1 DEF Durable, StartTurn
<1>11. Asks(transcript, story, messages)'
  BY <1>6, <1>8 DEF StartTurn
<1>12. pc' = "request"
  BY DEF StartTurn
<1> QED
  BY <1>9, <1>10, <1>11, <1>12 DEF IInv

LEMMA Opens == IInv /\ OpenStream => IInv'
<1> SUFFICES ASSUME IInv, OpenStream PROVE IInv'
  OBVIOUS
<1>1. TypeOK'
  BY Empties, ProviderAssumption DEF IInv, TypeOK, OpenStream, history
<1>2. Durable'
  BY DEF IInv, Durable, OpenStream, history
<1>3. Asks(transcript, story, messages)'
  BY DEF IInv, OpenStream, history
<1>4. Gathered'
  <2>1. attempt' = NewAttempt /\ sent' = NothingSent
    BY DEF OpenStream
  <2>2. attempt'.text = 0 /\ sent'.text = 0 /\ DOMAIN attempt'.calls = {}
    BY <2>1 DEF NewAttempt, NothingSent
  <2>3. {i \in Index : sent'.pieces[i] > 0} = {}
    BY <2>1 DEF NothingSent
  <2> QED
    BY <2>2, <2>3 DEF Gathered
<1>5. Ended'
  BY DEF Ended, OpenStream, NewAttempt
<1> QED
  BY <1>1, <1>2, <1>3, <1>4, <1>5 DEF IInv, OpenStream

-----------------------------------------------------------------------------
(* Pieces. *)

LEMMA TextIsRead == IInv /\ ReadText => IInv'
<1> SUFFICES ASSUME IInv, ReadText PROVE IInv'
  OBVIOUS
<1>1. TypeOK /\ pc = "stream" /\ attempt \in Attempt /\ sent \in Sent /\ reply \in Reply
  BY DEF IInv, TypeOK, ReadText, Streaming
<1>2. /\ sent' = [sent EXCEPT !.text = sent.text + 1]
      /\ attempt' = [attempt EXCEPT !.text = attempt.text + 1]
      /\ sent.text < reply.text /\ attempt.finish = "none"
  BY DEF ReadText
<1>3. attempt.text = sent.text /\ reply.text \in 0 .. TextBound
      /\ sent.text \in 0 .. TextBound /\ TextBound \in Nat
  BY <1>1, ProviderAssumption DEF IInv, Gathered, Sent, Reply
<1>4. sent.text + 1 \in 0 .. TextBound
  BY <1>2, <1>3
<1>5. sent' \in Sent /\ attempt' \in Attempt
  BY <1>1, <1>2, <1>3, <1>4 DEF Sent, Attempt
<1>6. TypeOK'
  BY <1>1, <1>5 DEF TypeOK, ReadText, history
<1>7. Durable' /\ Asks(transcript, story, messages)' /\ pc' = "stream"
  BY <1>1 DEF IInv, Durable, ReadText, history
<1>8. /\ attempt'.text = sent'.text /\ attempt'.calls = attempt.calls
      /\ sent'.pieces = sent.pieces /\ attempt'.finish = "none" /\ reply' = reply
  BY <1>1, <1>2, <1>3 DEF Attempt, Sent, ReadText
<1>9. Gathered' /\ Ended'
  BY <1>1, <1>8 DEF IInv, Gathered, Ended
<1> QED
  BY <1>6, <1>7, <1>9 DEF IInv

LEMMA FragmentIsRead ==
  ASSUME NEW i \in Index, NEW said \in CallId \union {NoCall}
  PROVE  IInv /\ ReadFragment(i, said) => IInv'
<1> SUFFICES ASSUME IInv, ReadFragment(i, said) PROVE IInv'
  OBVIOUS
<1>1. TypeOK /\ pc = "stream" /\ attempt \in Attempt /\ sent \in Sent /\ reply \in Reply
  BY DEF IInv, TypeOK, ReadFragment, Streaming
<1>2. CASE ~Stable(PartialOf(i).id, said)
  BY <1>2, Fails DEF ReadFragment
<1>3. CASE Stable(PartialOf(i).id, said)
  <2> DEFINE id == Merged(PartialOf(i).id, said)
             new == [id |-> id, arguments |-> sent.pieces[i] = Whole - 1]
             D == DOMAIN attempt.calls \union {i}
             calls == [j \in D |-> IF j # i THEN attempt.calls[j] ELSE new]
  <2>1. /\ sent' = [sent EXCEPT !.pieces = [sent.pieces EXCEPT ![i] = sent.pieces[i] + 1]]
        /\ attempt' = [attempt EXCEPT !.calls = calls]
        /\ UNCHANGED <<transcript, pc, turn, attempts, messages, seen,
                       completed, reply, history>>
        /\ attempt.finish = "none" /\ i \in DOMAIN reply.calls
        /\ sent.pieces[i] < Whole
        /\ said \in {NoCall, reply.calls[i]} \/ PartialOf(i).id # NoCall
    BY <1>3 DEF ReadFragment
  <2>2. /\ sent.pieces \in [Index -> 0 .. Whole] /\ sent.text \in 0 .. TextBound
        /\ attempt.calls \in PartialCalls
    BY <1>1 DEF Sent, Attempt
  <2>3. PICK I \in SUBSET Index : attempt.calls \in [I -> Partial]
    BY <2>2 DEF PartialCalls
  <2>4. /\ attempt.text = sent.text
        /\ DOMAIN attempt.calls = {k \in Index : sent.pieces[k] > 0}
        /\ DOMAIN attempt.calls \subseteq DOMAIN reply.calls
        /\ \A k \in DOMAIN attempt.calls :
             /\ attempt.calls[k].id \in {NoCall, reply.calls[k]}
             /\ attempt.calls[k].arguments = (sent.pieces[k] = Whole)
    BY <1>1 DEF IInv, Gathered
  <2>5. PICK J \in SUBSET Index : reply.calls \in [J -> CallId]
    BY <1>1 DEF Reply
  <2>6. id \in {NoCall, reply.calls[i]}
    <3>1. PartialOf(i).id \in {NoCall, reply.calls[i]}
      BY <2>4 DEF PartialOf
    <3> QED
      BY <1>3, <2>1, <3>1 DEF Stable, Merged
  <2>7. new \in Partial /\ new.id = id /\ new.arguments = (sent.pieces[i] = Whole - 1)
    <3>1. id \in CallId \union {NoCall}
      BY <2>1, <2>5, <2>6
    <3> HIDE DEF id
    <3> QED
      BY <3>1 DEF Partial
  <2> HIDE DEF id, new
  <2>8. D \in SUBSET Index /\ calls \in [D -> Partial]
    BY <2>3, <2>7
  <2>9. calls \in PartialCalls /\ DOMAIN calls = D
    BY <2>8 DEF PartialCalls
  <2>10. sent.pieces[i] \in 0 .. Whole /\ sent.pieces[i] + 1 \in 0 .. Whole
    BY <2>1, <2>2 DEF Whole
  <2> DEFINE pieces == [sent.pieces EXCEPT ![i] = sent.pieces[i] + 1]
  <2>11. /\ pieces \in [Index -> 0 .. Whole] /\ pieces[i] = sent.pieces[i] + 1
         /\ \A k \in Index : k # i => pieces[k] = sent.pieces[k]
    BY <2>2, <2>10
  <2>12. /\ calls[i] = new
         /\ \A k \in D : k # i => calls[k] = attempt.calls[k]
    OBVIOUS
  <2> HIDE DEF pieces, calls
  <2>13. /\ sent' \in Sent /\ sent'.pieces = pieces /\ sent'.text = sent.text
         /\ attempt' \in Attempt /\ attempt'.calls = calls
         /\ attempt'.text = attempt.text /\ attempt'.finish = "none"
    <3>1. sent' = [sent EXCEPT !.pieces = pieces]
      BY <2>1 DEF pieces
    <3>2. sent' \in Sent /\ sent'.pieces = pieces /\ sent'.text = sent.text
      BY <1>1, <2>11, <3>1 DEF Sent
    <3>3. /\ attempt' \in Attempt /\ attempt'.calls = calls
          /\ attempt'.text = attempt.text /\ attempt'.finish = attempt.finish
      BY <1>1, <2>1, <2>9 DEF Attempt
    <3> QED
      BY <2>1, <3>2, <3>3
  <2>14. TypeOK'
    BY <1>1, <2>1, <2>13 DEF TypeOK, history
  <2>15. Durable' /\ Asks(transcript, story, messages)' /\ pc' = "stream"
    BY <1>1, <2>1 DEF IInv, Durable, history
  <2>16. D = {k \in Index : pieces[k] > 0}
    <3>1. ASSUME NEW k \in Index PROVE k \in D <=> pieces[k] > 0
      <4>1. CASE k = i
        BY <2>10, <2>11, <4>1
      <4>2. CASE k # i
        BY <2>4, <2>11, <4>2
      <4> QED
        BY <4>1, <4>2
    <3> QED
      BY <2>8, <3>1
  <2>17. ASSUME NEW k \in D
         PROVE  /\ calls[k].id \in {NoCall, reply.calls[k]}
                /\ calls[k].arguments = (pieces[k] = Whole)
    <3>1. CASE k = i
      <4>1. calls[k].id = id /\ calls[k].arguments = (sent.pieces[i] = Whole - 1)
        BY <2>7, <2>12, <3>1
      <4>2. (sent.pieces[i] = Whole - 1) = (pieces[i] = Whole)
        BY <2>10, <2>11 DEF Whole
      <4> QED
        BY <2>6, <3>1, <4>1, <4>2
    <3>2. CASE k # i
      <4>1. k \in Index /\ k \in DOMAIN attempt.calls
        BY <2>8, <3>2
      <4> QED
        BY <2>4, <2>11, <2>12, <3>2, <4>1
    <3> QED
      BY <3>1, <3>2
  <2>18. Gathered'
    <3>1. D \subseteq DOMAIN reply.calls
      BY <2>1, <2>4
    <3>2. reply' = reply
      BY <2>1
    <3> HIDE DEF D
    <3> QED
      BY <2>4, <2>9, <2>13, <2>16, <2>17, <3>1, <3>2 DEF Gathered
  <2>19. Ended'
    BY <2>13 DEF Ended
  <2> QED
    BY <2>14, <2>15, <2>18, <2>19 DEF IInv
<1> QED
  BY <1>2, <1>3

LEMMA FinishIsRead ==
  ASSUME NEW reason \in Reason
  PROVE  IInv /\ ReadFinish(reason) => IInv'
<1> SUFFICES ASSUME IInv, ReadFinish(reason) PROVE IInv'
  OBVIOUS
<1>1. TypeOK /\ pc = "stream" /\ attempt \in Attempt /\ Gathered
  BY DEF IInv, TypeOK, ReadFinish, Streaming
<1>2. /\ attempt' = [attempt EXCEPT !.finish = reason]
      /\ reason = "length" \/ EverythingSent
      /\ UNCHANGED <<transcript, pc, turn, attempts, messages, seen, completed,
                     provider, history>>
  BY DEF ReadFinish
<1>3. /\ attempt' \in Attempt /\ attempt'.text = attempt.text
      /\ attempt'.calls = attempt.calls /\ attempt'.finish = reason
  BY <1>1, <1>2 DEF Attempt
<1>4. TypeOK'
  BY <1>1, <1>2, <1>3 DEF TypeOK, provider, history
<1>5. Durable' /\ Asks(transcript, story, messages)' /\ pc' = "stream"
  BY <1>1, <1>2 DEF IInv, Durable, history
<1>6. Gathered'
  BY <1>1, <1>2, <1>3 DEF Gathered, provider
<1>7. Ended'
  <2>1. EverythingSent' <=> EverythingSent
    BY <1>2 DEF EverythingSent, provider
  <2> QED
    BY <1>2, <1>3, <2>1 DEF Ended
<1> QED
  BY <1>4, <1>5, <1>6, <1>7 DEF IInv

-----------------------------------------------------------------------------
(* The end of a stream. *)

\* Why a reply without calls, ended with "stop", is all that was meant.
Stopped(reason) == reason \in {"stop", "tool_calls"} => EverythingSent

LEMMA Answers ==
  ASSUME NEW reason \in Reason
  PROVE  IInv /\ pc = "stream" /\ attempt.calls = <<>> /\ Stopped(reason) /\ Answer(reason)
           => IInv'
<1> SUFFICES ASSUME IInv, pc = "stream", attempt.calls = <<>>, Stopped(reason), Answer(reason)
             PROVE  IInv'
  OBVIOUS
<1>1. /\ TypeOK /\ Durable /\ Gathered /\ Asks(transcript, story, messages)
      /\ transcript \in Seq(Message) /\ story \in Seq(Message) /\ record \in Seq(Message)
      /\ attempt \in Attempt /\ sent \in Sent /\ reply \in Reply
  BY DEF IInv, TypeOK
<1> DEFINE c == transcript \o story
           m == Assistant(attempt.text)
           said == Append(story, m)
           semantic == semanticize(Append(messages, m))
<1>2. m \in Message /\ m.kind = "assistant" /\ m.calls = <<>>
  <2>1. attempt.text \in 0 .. TextBound + TurnBound
    BY <1>1, ProviderAssumption DEF Attempt
  <2> QED
    BY <2>1, MessagesAreTyped DEF Assistant
<1> HIDE DEF m
<1>3. /\ c \in Seq(Message) /\ transcript \o said = Append(c, m)
      /\ SubSeq(Append(c, m), Len(transcript) + 1, Len(Append(c, m))) = said
      /\ Last(said) = m /\ said # <<>> /\ Head(said) = Head(story)
      /\ said \in Seq(Message) /\ c # <<>> /\ Last(Append(c, m)) = m
  <2>1. story # <<>>
    BY <1>1 DEF Asks
  <2>2. /\ c \in Seq(Message) /\ transcript \o said = Append(c, m)
        /\ SubSeq(Append(c, m), Len(transcript) + 1, Len(Append(c, m))) = said
        /\ Last(said) = m /\ said # <<>> /\ Head(said) = Head(story)
        /\ said \in Seq(Message) /\ c # <<>>
    BY <1>1, <1>2, <2>1, Concatenations
  <2> HIDE DEF c
  <2>3. Last(Append(c, m)) = m
    BY <1>2, <2>2, Concatenations
  <2> QED
    BY <2>2, <2>3
<1>4. /\ project_conversation(Append(c, m)) = Append(messages, m)
      /\ Faithful(Append(c, m))
  <2>1. Follows(m, Last(c))
    BY <1>1, <1>2 DEF Asks, Follows
  <2>2. Faithful(c) /\ project_conversation(c) = messages
    BY <1>1 DEF Asks
  <2> HIDE DEF c
  <2> QED
    BY <1>2, <1>3, <2>1, <2>2, Plain
<1>5. semantic = Append(c, m)
  BY <1>4 DEF Faithful
<1>6. ValidConversation(semantic) /\ Appended(semantic) = said
  BY <1>3, <1>4, <1>5 DEF Faithful, Appended
<1>7. Appendable(said)
  <2>1. Begins(Head(said))
    BY <1>1, <1>3 DEF Asks
  <2>2. ValidConversation(transcript \o said)
    BY <1>3, <1>4 DEF Faithful
  <2> QED
    BY <1>2, <1>3, <2>1, <2>2 DEF Appendable
<1>8. /\ Return
      /\ transcript' = IF reason = "stop" THEN transcript \o said ELSE transcript
      /\ record' = IF reason = "stop" /\ EverythingSent /\ reply.calls = <<>>
                   THEN record \o Append(story, Assistant(reply.text))
                   ELSE record
  <2> HIDE DEF said, c
  <2> QED
    BY <1>6, <1>7 DEF Answer, semantic, m
<1>9. ASSUME reason = "stop"
      PROVE  reply.calls = <<>> /\ EverythingSent /\ Assistant(reply.text) = m
  <2>1. EverythingSent
    BY <1>9 DEF Stopped
  <2>2. reply.text = attempt.text
    BY <1>1, <2>1 DEF EverythingSent, Gathered
  <2>3. PICK J \in SUBSET Index : reply.calls \in [J -> CallId]
    BY <1>1 DEF Reply
  <2>4. DOMAIN reply.calls = {}
    <3> SUFFICES ASSUME NEW i \in DOMAIN reply.calls PROVE FALSE
      OBVIOUS
    <3>1. i \in Index /\ sent.pieces[i] > 0
      BY <2>1, <2>3 DEF EverythingSent, Whole
    <3>2. i \in DOMAIN attempt.calls
      BY <1>1, <3>1 DEF Gathered
    <3> QED
      BY <3>2
  <2>5. reply.calls = <<>>
    BY <2>3, <2>4
  <2> QED
    BY <2>1, <2>2, <2>5 DEF m
<1>10. transcript' = IF reason = "stop" THEN Append(c, m) ELSE transcript
  BY <1>3, <1>8
<1>11. Durable'
  <2>1. CASE reason = "stop"
    <3>1. transcript' = Append(c, m) /\ record' = record \o said
      BY <1>8, <1>9, <1>10, <2>1
    <3>2. transcript' = record'
      BY <1>1, <1>8, <2>1, <3>1 DEF Durable
    <3> HIDE DEF c
    <3> QED
      BY <1>2, <1>3, <1>4, <3>1, <3>2 DEF Durable
  <2>2. CASE reason # "stop"
    <3>1. transcript' = transcript /\ record' = record
      BY <1>8, <2>2
    <3> QED
      BY <1>1, <3>1 DEF Durable
  <2> QED
    BY <2>1, <2>2
<1>12. TypeOK'
  <2>1. transcript' \in Seq(Message)
    <3> HIDE DEF c
    <3> QED
      BY <1>1, <1>2, <1>3, <1>10
  <2>2. record' \in Seq(Message)
    BY <1>11, <2>1 DEF Durable
  <2> QED
    BY <1>1, <1>8, <2>1, <2>2, Empties, ProviderAssumption DEF TypeOK, Return
<1> QED
  BY <1>8, <1>11, <1>12 DEF IInv, Return

LEMMA Collected ==
  ASSUME TypeOK, Gathered, attempt.calls # <<>>, Finishable(attempt.calls),
         NEW calls, calls = finish_tool_calls(attempt.calls),
         NEW n, n = Cardinality(DOMAIN attempt.calls)
  PROVE  /\ calls \in Seq(ToolCall) /\ Len(calls) = n /\ n \in Nat \ {0}
         /\ SentCalls = calls
         /\ EverythingSent => DOMAIN attempt.calls = DOMAIN reply.calls
<1>1. attempt \in Attempt /\ sent \in Sent /\ reply \in Reply
  BY DEF TypeOK
<1>2. attempt.calls \in PartialCalls
  BY <1>1 DEF Attempt
<1>3. PICK I \in SUBSET Index : attempt.calls \in [I -> Partial]
  BY <1>2 DEF PartialCalls
<1>4. PICK J \in SUBSET Index : reply.calls \in [J -> CallId]
  BY <1>1 DEF Reply
<1>5. I # {} /\ DOMAIN attempt.calls = I
  BY <1>3
<1>6. n \in Nat
  <2>1. IsFiniteSet(Index)
    <3>1. 0 \in Int /\ CallBound - 1 \in Int
      BY ProviderAssumption
    <3>2. IsFiniteSet(0 .. CallBound - 1)
      BY <3>1, FS_Interval, Zenon
    <3> QED
      BY <3>2 DEF Index
  <2>2. IsFiniteSet(I)
    BY <1>3, <2>1, FS_Subset
  <2> QED
    BY <1>5, <2>2, FS_CardinalityType
<1>7. I = 0 .. n - 1 /\ \A i \in I : attempt.calls[i].id # NoCall
  BY <1>5 DEF Finishable
<1>8. n \in Nat \ {0}
  BY <1>5, <1>6, <1>7
<1>9. ASSUME NEW k \in 1 .. n
      PROVE  /\ k - 1 \in I /\ attempt.calls[k - 1] \in ToolCall
             /\ attempt.calls[k - 1]
                  = [id |-> reply.calls[k - 1], arguments |-> sent.pieces[k - 1] = Whole]
  <2>1. k - 1 \in I
    BY <1>7, <1>8
  <2> DEFINE a == attempt.calls[k - 1]
  <2>2. /\ a \in Partial /\ a.id # NoCall /\ a.id \in {NoCall, reply.calls[k - 1]}
        /\ a.arguments = (sent.pieces[k - 1] = Whole) /\ k - 1 \in J
    BY <1>3, <1>4, <1>5, <1>7, <2>1 DEF Gathered
  <2>3. reply.calls[k - 1] \in CallId
    BY <1>4, <2>2
  <2> HIDE DEF a
  <2>4. a = [id |-> reply.calls[k - 1], arguments |-> sent.pieces[k - 1] = Whole]
    BY <2>2 DEF Partial
  <2>5. a \in ToolCall
    BY <2>3, <2>4 DEF ToolCall
  <2> QED
    BY <2>1, <2>4, <2>5 DEF a
<1>10. calls = [k \in 1 .. n |-> attempt.calls[k - 1]]
  BY DEF finish_tool_calls
<1>11. SentCalls = calls
  <2>1. Cardinality({i \in Index : sent.pieces[i] > 0}) = n
    BY DEF Gathered
  <2>2. SentCalls = [k \in 1 .. n |->
           [id |-> reply.calls[k - 1], arguments |-> sent.pieces[k - 1] = Whole]]
    BY <2>1 DEF SentCalls
  <2> QED
    BY <1>9, <1>10, <2>2
<1>12. calls \in Seq(ToolCall) /\ Len(calls) = n
  <2> DEFINE e(k) == attempt.calls[k - 1]
  <2>1. \A k \in 1 .. n : e(k) \in ToolCall
    BY <1>9
  <2>2. calls = [k \in 1 .. n |-> e(k)]
    BY <1>10
  <2> HIDE DEF ToolCall, e
  <2> QED
    BY <1>6, <2>1, <2>2
<1>13. ASSUME EverythingSent PROVE DOMAIN attempt.calls = DOMAIN reply.calls
  <2>1. ASSUME NEW i \in DOMAIN reply.calls PROVE i \in DOMAIN attempt.calls
    <3>1. i \in Index /\ sent.pieces[i] > 0
      BY <1>4, <1>13 DEF EverythingSent, Whole
    <3> QED
      BY <3>1 DEF Gathered
  <2> QED
    BY <2>1 DEF Gathered
<1> QED
  BY <1>8, <1>11, <1>12, <1>13

LEMMA Acts ==
  IInv /\ pc = "stream" /\ attempt.calls # <<>> /\ Finishable(attempt.calls)
       /\ (attempt.finish # "length" => EverythingSent)
       /\ ActOn(finish_tool_calls(attempt.calls))
    => IInv'
<1> SUFFICES ASSUME IInv, pc = "stream", attempt.calls # <<>>, Finishable(attempt.calls),
                    attempt.finish # "length" => EverythingSent,
                    ActOn(finish_tool_calls(attempt.calls))
             PROVE  IInv'
  OBVIOUS
<1> DEFINE calls == finish_tool_calls(attempt.calls)
           ids == IdsOf(calls)
           n == Cardinality(DOMAIN attempt.calls)
           rq == Request(attempt.text, calls)
           rs == Results(ids)
           w == WithCalls(attempt.text, calls)
<1>1. /\ TypeOK /\ Durable /\ Gathered /\ Asks(transcript, story, messages)
      /\ transcript \in Seq(Message) /\ story \in Seq(Message) /\ messages \in Seq(Message)
      /\ attempt.text \in 0 .. TextBound + TurnBound /\ attempt.text = sent.text
  <2>1. TypeOK /\ Gathered /\ Durable /\ Asks(transcript, story, messages)
    BY DEF IInv
  <2>2. attempt \in Attempt
    BY <2>1 DEF TypeOK
  <2>3. attempt.text \in 0 .. TextBound + TurnBound
    BY <2>2, ProviderAssumption DEF Attempt
  <2> QED
    BY <2>1, <2>3 DEF TypeOK, Gathered
<1>2. /\ calls \in Seq(ToolCall) /\ Len(calls) = n /\ n \in Nat \ {0} /\ SentCalls = calls
      /\ EverythingSent => DOMAIN attempt.calls = DOMAIN reply.calls
  BY <1>1, Collected
<1> HIDE DEF calls, n
<1>3. CASE ~Allocatable(calls)
  BY <1>3, Fails DEF ActOn, calls
<1>4. CASE Allocatable(calls)
  <2>1. /\ pc' \in {"approval", "tools"}
        /\ messages' = Append(messages, w)
        /\ seen' = seen \union Range(ids)
        /\ completed' = <<>>
        /\ story' = story \o <<rq, rs>>
        /\ UNCHANGED <<transcript, turn, attempts, attempt, provider, record>>
    BY <1>1, <1>2, <1>4 DEF ActOn, calls
  <2>2. /\ w \in Message /\ rq \in Message /\ rs \in Message
        /\ ids \in Seq(CallId) /\ Range(ids) \subseteq CallId
    <3>1. ids \in Seq(CallId)
      BY <1>2, IdsAreTyped
    <3>2. Range(ids) \subseteq CallId
      BY <3>1 DEF Range
    <3> QED
      BY <1>1, <1>2, <3>1, <3>2, MessagesAreTyped
  <2>3. IsInjective(ids)
    BY <1>4 DEF Allocatable
  <2> HIDE DEF ids, rq, rs, w
  <2>4. /\ story' = Append(Append(story, rq), rs)
        /\ story' \in Seq(Message) /\ messages' \in Seq(Message)
    <3> HIDE DEF Message
    <3>1. story \o <<rq, rs>> = Append(Append(story, rq), rs)
      BY <1>1, <2>2
    <3> QED
      BY <1>1, <2>1, <2>2, <3>1
  <2>5. TypeOK'
    BY <1>1, <2>1, <2>2, <2>4, Empties DEF TypeOK, provider
  <2>6. Durable'
    BY <1>1, <2>1 DEF Durable
  <2>7. InRound(transcript, story', messages', completed', n)
    <3>1. /\ Asks(transcript, story, project_conversation(transcript \o story))
          /\ messages = project_conversation(transcript \o story)
      BY <1>1 DEF Asks
    <3>2. IsInjective(completed') /\ Range(completed') \subseteq Range(IdsOf(calls))
      BY <2>1 DEF IsInjective, Range
    <3>3. /\ messages' = Append(project_conversation(transcript \o story),
                                WithCalls(attempt.text, calls))
          /\ story' = Append(Append(story, Request(attempt.text, calls)),
                             Results(IdsOf(calls)))
      BY <2>1, <2>4, <3>1 DEF w, rq, rs, ids
    <3>4. IsInjective(IdsOf(calls))
      BY <2>3 DEF ids
    <3>5. calls # <<>>
      <4>1. Len(<<>>) = 0
        OBVIOUS
      <4> QED
        BY <1>2, <4>1
    <3> QED
      BY <1>1, <1>2, <3>1, <3>2, <3>3, <3>4, <3>5 DEF InRound
  <2>8. Acting'
    <3>1. /\ transcript' = transcript /\ attempt' = attempt /\ reply' = reply /\ sent' = sent
          /\ Cardinality(DOMAIN attempt'.calls) = n
      BY <2>1 DEF provider, n
    <3>2. EverythingSent' <=> EverythingSent
      BY <3>1 DEF EverythingSent
    <3> QED
      BY <1>2, <2>7, <3>1, <3>2 DEF Acting
  <2> QED
    BY <2>1, <2>5, <2>6, <2>8 DEF IInv
<1> QED
  BY <1>3, <1>4

LEMMA DoneIsRead == IInv /\ ReadDone => IInv'
<1> SUFFICES ASSUME IInv, ReadDone PROVE IInv'
  OBVIOUS
<1> DEFINE reason == IF attempt.finish = "none" THEN "stop" ELSE attempt.finish
<1>1. /\ pc = "stream" /\ Complete(reason)
      /\ attempt.finish # "none" \/ EverythingSent
  BY DEF ReadDone, Streaming
<1>2. attempt \in Attempt /\ Ended
  BY <1>1 DEF IInv, TypeOK
<1>3. attempt.finish \in Reason \union {"none"}
  BY <1>2 DEF Attempt
<1>4. reason \in Reason /\ Stopped(reason)
      /\ (attempt.finish # "length" => EverythingSent)
  BY <1>1, <1>2, <1>3 DEF Reason, Stopped, Ended
<1> HIDE DEF reason
<1>5. CASE attempt.calls = <<>>
  BY <1>1, <1>4, <1>5, Answers DEF Complete
<1>6. CASE attempt.calls # <<>> /\ Finishable(attempt.calls)
  BY <1>1, <1>4, <1>6, Acts DEF Complete
<1>7. CASE attempt.calls # <<>> /\ ~Finishable(attempt.calls)
  BY <1>1, <1>7, Fails DEF Complete
<1> QED
  BY <1>5, <1>6, <1>7

LEMMA StreamEnds == IInv /\ EndOfStream => IInv'
<1> SUFFICES ASSUME IInv, EndOfStream PROVE IInv'
  OBVIOUS
<1>1. CASE attempt.finish = "none"
  BY <1>1, Fails DEF EndOfStream
<1>2. CASE attempt.finish # "none"
  <2>1. pc = "stream" /\ Complete(attempt.finish)
    BY <1>2 DEF EndOfStream, Streaming
  <2>2. attempt \in Attempt /\ Ended
    BY <2>1 DEF IInv, TypeOK
  <2>3. attempt.finish \in Reason
    BY <1>2, <2>2 DEF Attempt
  <2>4. Stopped(attempt.finish) /\ (attempt.finish # "length" => EverythingSent)
    BY <2>2, <2>3 DEF Reason, Stopped, Ended
  <2>5. CASE attempt.calls = <<>>
    BY <2>1, <2>3, <2>4, <2>5, Answers DEF Complete
  <2>6. CASE attempt.calls # <<>> /\ Finishable(attempt.calls)
    BY <2>1, <2>4, <2>6, Acts DEF Complete
  <2>7. CASE attempt.calls # <<>> /\ ~Finishable(attempt.calls)
    BY <2>1, <2>7, Fails DEF Complete
  <2> QED
    BY <2>5, <2>6, <2>7
<1> QED
  BY <1>1, <1>2

-----------------------------------------------------------------------------
(* The tool round. *)

LEMMA BatchIs ==
  ASSUME NEW p \in Seq(Message), NEW text \in 0 .. TextBound + TurnBound,
         NEW calls \in Seq(ToolCall), messages = Append(p, WithCalls(text, calls))
  PROVE  Batch = IdsOf(calls)
<1>1. WithCalls(text, calls) \in Message
  BY MessagesAreTyped
<1>2. Last(messages) = WithCalls(text, calls)
  BY <1>1, Concatenations
<1>3. Last(messages).calls = calls
  BY <1>2 DEF WithCalls
<1> QED
  BY <1>3 DEF Batch

LEMMA ToolIsEnded ==
  ASSUME NEW c \in CallId
  PROVE  IInv /\ ToolEnds(c) => IInv'
<1> SUFFICES ASSUME IInv, ToolEnds(c) PROVE IInv'
  OBVIOUS
<1>1. /\ TypeOK /\ Durable /\ Acting /\ pc = "tools" /\ completed \in Seq(CallId)
      /\ transcript \in Seq(Message)
  BY DEF IInv, TypeOK, ToolEnds
<1>2. /\ c \in Range(Batch) \ Range(completed)
      /\ completed' = Append(completed, c)
      /\ UNCHANGED <<transcript, pc, turn, attempts, messages, seen, attempt,
                     provider, history>>
  BY DEF ToolEnds
<1>3. PICK before \in Seq(Message), calls \in Seq(ToolCall),
           text \in 0 .. TextBound + TurnBound :
        /\ Asks(transcript, before, project_conversation(transcript \o before))
        /\ calls # <<>>
        /\ Len(calls) = Cardinality(DOMAIN attempt.calls)
        /\ IsInjective(IdsOf(calls))
        /\ messages = Append(project_conversation(transcript \o before),
                             WithCalls(text, calls))
        /\ story = Append(Append(before, Request(text, calls)), Results(IdsOf(calls)))
        /\ IsInjective(completed)
        /\ Range(completed) \subseteq Range(IdsOf(calls))
  BY <1>1 DEF Acting, InRound
<1>4. Batch = IdsOf(calls)
  <2>1. project_conversation(transcript \o before) \in Seq(Message)
    <3>1. transcript \o before \in Seq(Message)
      BY <1>1, ConcatProperties
    <3>2. Tool(c) \in Message
      BY MessagesAreTyped
    <3> QED
      BY <3>1, <3>2, ProjectAppend
  <2> QED
    BY <1>3, <2>1, BatchIs
<1>5. IsInjective(completed') /\ Range(completed') \subseteq Range(IdsOf(calls))
  <2> DEFINE n == Len(completed)
  <2>1. /\ n \in Nat /\ DOMAIN completed = 1 .. n /\ DOMAIN completed' = 1 .. n + 1
        /\ completed'[n + 1] = c
        /\ \A k \in 1 .. n : completed'[k] = completed[k]
    BY <1>1, <1>2
  <2>2. \A k \in 1 .. n : completed[k] # c
    BY <1>2, <2>1 DEF Range
  <2> HIDE DEF n
  <2>3. IsInjective(completed')
    BY <1>3, <2>1, <2>2 DEF IsInjective
  <2>4. Range(completed') = Range(completed) \union {c}
    BY <2>1 DEF Range
  <2> QED
    BY <1>2, <1>3, <1>4, <2>3, <2>4
<1>6. TypeOK'
  <2>1. completed' \in Seq(CallId)
    BY <1>1, <1>2
  <2> QED
    BY <1>1, <1>2, <2>1 DEF TypeOK, provider, history
<1>7. Acting'
  <2>1. InRound(transcript, story, messages, completed', Cardinality(DOMAIN attempt.calls))
    BY <1>3, <1>5 DEF InRound
  <2> QED
    BY <1>1, <1>2, <2>1 DEF Acting, EverythingSent, provider, history
<1>8. Durable' /\ pc' = "tools"
  BY <1>1, <1>2 DEF Durable, history
<1> QED
  BY <1>6, <1>7, <1>8 DEF IInv

LEMMA RoundIsDecided == IInv /\ Decide => IInv'
<1> SUFFICES ASSUME IInv, Decide PROVE IInv'
  OBVIOUS
<1>1. /\ TypeOK /\ Durable /\ Acting /\ pc' = "tools"
      /\ UNCHANGED <<transcript, turn, attempts, messages, seen, attempt, completed,
                     reply, sent, story, record>>
  BY DEF IInv, Decide, provider, history
<1>2. TypeOK' /\ Durable'
  BY <1>1 DEF TypeOK, Durable
<1>3. EverythingSent' <=> EverythingSent
  BY <1>1 DEF EverythingSent
<1>4. Acting'
  BY <1>1, <1>3 DEF Acting
<1> QED
  BY <1>1, <1>2, <1>4 DEF IInv

\* Each call of a whole round finds its own result: as many calls ended as
\* there are, no two of them the same.
LEMMA OrderedIsBatch ==
  ASSUME NEW ids \in Seq(CallId), IsInjective(ids),
         completed \in Seq(CallId), IsInjective(completed),
         Range(completed) \subseteq Range(ids),
         Len(completed) = Len(ids), Batch = ids
  PROVE  Ordered = ids
<1> DEFINE n == Len(ids)
           R == Range(ids)
<1>1. /\ n \in Nat /\ DOMAIN ids = 1 .. n /\ DOMAIN completed = 1 .. n
      /\ ids \in [1 .. n -> R] /\ completed \in [1 .. n -> R]
  BY DEF Range
<1>2. IsFiniteSet(1 .. n)
  BY <1>1, FS_Interval
<1> HIDE DEF n
<1>3. IsFiniteSet(R) /\ Cardinality(R) = Cardinality(1 .. n)
  <2>1. ids \in Surjection(1 .. n, R) /\ ids \in Injection(1 .. n, R)
    BY <1>1 DEF Surjection, Injection, Range
  <2> HIDE DEF R
  <2> QED
    BY <1>2, <2>1, FS_Surjection
<1> HIDE DEF R
<1>4. completed \in Surjection(1 .. n, R)
  <2>1. completed \in Injection(1 .. n, R)
    BY <1>1 DEF Injection
  <2> QED
    BY <1>3, <2>1, FS_Injection
<1>5. ASSUME NEW k \in DOMAIN ids
      PROVE  \E j \in DOMAIN completed : completed[j] = ids[k]
  BY <1>1, <1>4 DEF Surjection
<1>6. \A k \in DOMAIN ids :
        completed[CHOOSE j \in DOMAIN completed : completed[j] = ids[k]] = ids[k]
  BY <1>5
<1>7. ids = [k \in DOMAIN ids |-> ids[k]]
  OBVIOUS
<1> QED
  BY <1>6, <1>7 DEF Ordered

LEMMA RoundIsEnded == IInv /\ RoundEnds => IInv'
<1> SUFFICES ASSUME IInv, RoundEnds PROVE IInv'
  OBVIOUS
<1>1. /\ TypeOK /\ Durable /\ Acting /\ completed \in Seq(CallId)
      /\ transcript \in Seq(Message)
  BY DEF IInv, TypeOK, RoundEnds
<1>2. PICK before \in Seq(Message), calls \in Seq(ToolCall),
           text \in 0 .. TextBound + TurnBound :
        /\ Asks(transcript, before, project_conversation(transcript \o before))
        /\ calls # <<>>
        /\ IsInjective(IdsOf(calls))
        /\ messages = Append(project_conversation(transcript \o before),
                             WithCalls(text, calls))
        /\ story = Append(Append(before, Request(text, calls)), Results(IdsOf(calls)))
        /\ IsInjective(completed)
        /\ Range(completed) \subseteq Range(IdsOf(calls))
  BY <1>1 DEF Acting, InRound
<1> DEFINE c == transcript \o before
           ids == IdsOf(calls)
           rq == Request(text, calls)
           rs == Results(ids)
           d == Append(Append(c, rq), rs)
<1>3. rq \in Message /\ rs \in Message /\ ids \in Seq(CallId) /\ Len(ids) = Len(calls)
  BY IdsAreTyped, MessagesAreTyped
<1>4. c \in Seq(Message) /\ project_conversation(c) \in Seq(Message)
  <2>1. c \in Seq(Message)
    BY <1>1, ConcatProperties
  <2> HIDE DEF c
  <2> QED
    BY <1>3, <2>1, ProjectAppend
<1>5. Batch = ids
  BY <1>2, <1>4, BatchIs
<1>6. /\ Len(completed) = Len(Batch)
      /\ pc' = "request"
      /\ messages' = messages \o [k \in DOMAIN Ordered |-> Tool(Ordered[k])]
      /\ completed' = <<>>
      /\ UNCHANGED <<transcript, turn, attempts, seen, attempt, provider, history>>
  BY DEF RoundEnds
<1>7. Ordered = ids
  BY <1>1, <1>2, <1>3, <1>5, <1>6, OrderedIsBatch
<1>8. messages' = Append(project_conversation(c), WithCalls(text, calls)) \o Tools(ids)
  <2> HIDE DEF ids
  <2> QED
    BY <1>2, <1>6, <1>7 DEF Tools
<1>9. before # <<>> /\ Begins(Head(before)) /\ c # <<>>
  BY <1>1, <1>3, Concatenations, <1>2 DEF Asks
<1>10. /\ project_conversation(d)
             = Append(project_conversation(c), WithCalls(text, calls)) \o Tools(ids)
       /\ Faithful(d) /\ Last(d).kind = "results" /\ d \in Seq(Message) /\ d # <<>>
  <2>1. Faithful(c) /\ Last(c).kind \in {"user", "results"}
    BY <1>2 DEF Asks
  <2> HIDE DEF c
  <2> QED
    BY <1>2, <1>4, <1>9, <2>1, Round
<1>11. /\ transcript \o story = d /\ story # <<>> /\ Head(story) = Head(before)
       /\ story \in Seq(Message)
  <2> HIDE DEF rq, rs
  <2> DEFINE one == Append(before, rq)
  <2>1. /\ transcript \o one = Append(c, rq) /\ one # <<>> /\ one \in Seq(Message)
        /\ Head(one) = Head(before)
    BY <1>1, <1>3, <1>9, Concatenations
  <2>2. story = Append(one, rs)
    BY <1>2 DEF rq, rs
  <2> HIDE DEF one, c
  <2>3. /\ transcript \o story = Append(transcript \o one, rs) /\ story # <<>>
        /\ Head(story) = Head(one) /\ story \in Seq(Message)
    BY <1>1, <1>3, <2>1, <2>2, Concatenations
  <2> QED
    BY <2>1, <2>3
<1> HIDE DEF d, c
<1>12. Asks(transcript, story, messages')
  BY <1>8, <1>9, <1>10, <1>11 DEF Asks
<1>13. Asks(transcript, story, messages)'
  BY <1>6, <1>12 DEF history
<1>14. TypeOK'
  <2>1. messages' \in Seq(Message)
    <3>1. project_conversation(d) \in Seq(Message)
      BY <1>3, <1>10, ProjectAppend
    <3> QED
      BY <1>8, <1>10, <3>1
  <2> QED
    BY <1>1, <1>6, <2>1, Empties DEF TypeOK, provider, history
<1>15. Durable'
  BY <1>1, <1>6 DEF Durable, history
<1> QED
  BY <1>6, <1>13, <1>14, <1>15 DEF IInv

-----------------------------------------------------------------------------
(* The theorems. *)

LEMMA IInvIsKept == IInv /\ [Next]_vars => IInv'
<1> SUFFICES ASSUME IInv, [Next]_vars PROVE IInv'
  OBVIOUS
<1>1. CASE StartTurn
  BY <1>1, Starts
<1>2. CASE OpenStream
  BY <1>2, Opens
<1>3. CASE RequestFails \/ RoundFails \/ TimeOut \/ Interrupt \/ ReadFailure
  BY <1>3, Fails DEF RequestFails, RoundFails, TimeOut, Interrupt, ReadFailure
<1>4. CASE ReadText
  BY <1>4, TextIsRead
<1>5. CASE \E i \in Index, said \in CallId \union {NoCall} : ReadFragment(i, said)
  BY <1>5, FragmentIsRead
<1>6. CASE \E reason \in Reason : ReadFinish(reason)
  BY <1>6, FinishIsRead
<1>7. CASE ReadDone
  BY <1>7, DoneIsRead
<1>8. CASE EndOfStream
  BY <1>8, StreamEnds
<1>9. CASE \E c \in CallId : ToolEnds(c)
  BY <1>9, ToolIsEnded
<1>10. CASE RoundEnds
  BY <1>10, RoundIsEnded
<1>11. CASE Decide
  BY <1>11, RoundIsDecided
<1>12. CASE UNCHANGED vars
  <2>1. UNCHANGED <<transcript, pc, turn, attempts, messages, seen, attempt, completed,
                   reply, sent, story, record>>
    BY <1>12 DEF vars, loop, provider, history
  <2>2. TypeOK' /\ Durable'
    BY <2>1 DEF IInv, TypeOK, Durable
  <2>3. (Asks(transcript, story, messages)' <=> Asks(transcript, story, messages))
        /\ (Gathered' <=> Gathered) /\ (EverythingSent' <=> EverythingSent)
    BY <2>1 DEF Gathered, EverythingSent
  <2>4. (Ended' <=> Ended) /\ (Acting' <=> Acting)
    BY <2>1, <2>3 DEF Ended, Acting
  <2> QED
    BY <2>1, <2>2, <2>3, <2>4 DEF IInv
<1> QED
  BY <1>1, <1>2, <1>3, <1>4, <1>5, <1>6, <1>7, <1>8, <1>9, <1>10, <1>11, <1>12
  DEF Next, ReadPiece

LEMMA Invariance == Spec => []IInv
BY Initially, IInvIsKept, PTL DEF Spec

(* Every variable keeps its type: a partial call has a slot of its own, and *)
(* a conversation, what is projected from it and what is read back from the *)
(* projection are sequences of messages.                                    *)
THEOREM ProviderTypeCorrect == Spec => []TypeOK
<1>1. IInv => TypeOK
  BY DEF IInv
<1> QED
  BY <1>1, Invariance, PTL

(* The stored session is the sequence of the turns the provider said in     *)
(* full and ended with "stop" (provider/mod.rs, runtime/lib.rs, sqlite.rs). *)
(* project_conversation and semanticize are inverse on every session the    *)
(* store can hold, the durable prefix is cut where the turn began, and the  *)
(* store's checks refuse no such turn.                                      *)
THEOREM SessionIsWhatWasSaid == Spec => []TranscriptIsWhatWasSaid
<1>1. IInv => TranscriptIsWhatWasSaid
  BY DEF IInv, Durable, TranscriptIsWhatWasSaid
<1> QED
  BY <1>1, Invariance, PTL

(* The messages of every request hold, behind each assistant message with   *)
(* calls, the results of all of them in the model's order, those of earlier *)
(* turns read back from the store included.                                 *)
THEOREM CallsAreAnswered == Spec => []EveryCallIsAnswered
<1>1. IInv => EveryCallIsAnswered
  <2> SUFFICES ASSUME IInv, pc = "request" PROVE Answered(messages)
    BY DEF EveryCallIsAnswered, Answered
  <2> QED
    BY DEF IInv, Asks, Faithful
<1> QED
  BY <1>1, Invariance, PTL

(* A batch of tools is the whole of a reply that was sent whole, unless the *)
(* provider itself reported its token limit.                                *)
THEOREM WholeRepliesAreActedOn == Spec => []ActsOnWholeReplies
<1>1. IInv => ActsOnWholeReplies
  <2> SUFFICES ASSUME IInv, pc \in {"approval", "tools"}, attempt.finish # "length"
               PROVE  EverythingSent /\ Len(Batch) = Cardinality(DOMAIN reply.calls)
    BY DEF ActsOnWholeReplies
  <2>1. /\ Acting /\ EverythingSent /\ DOMAIN attempt.calls = DOMAIN reply.calls
        /\ transcript \in Seq(Message)
    BY DEF IInv, Acting, TypeOK
  <2>2. PICK before \in Seq(Message), calls \in Seq(ToolCall),
             text \in 0 .. TextBound + TurnBound :
          /\ Len(calls) = Cardinality(DOMAIN attempt.calls)
          /\ messages = Append(project_conversation(transcript \o before),
                               WithCalls(text, calls))
    BY <2>1 DEF Acting, InRound
  <2>3. project_conversation(transcript \o before) \in Seq(Message)
    <3>1. transcript \o before \in Seq(Message) /\ WithCalls(text, calls) \in Message
      BY <2>1, ConcatProperties, MessagesAreTyped
    <3> QED
      BY <3>1, ProjectAppend
  <2>4. Batch = IdsOf(calls)
    BY <2>2, <2>3, BatchIs
  <2> QED
    BY <2>1, <2>2, <2>4, IdsAreTyped
<1> QED
  BY <1>1, Invariance, PTL
=============================================================================

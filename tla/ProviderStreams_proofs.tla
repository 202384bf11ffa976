----------------------- MODULE ProviderStreams_proofs -----------------------
(***************************************************************************)
(* Proofs about the streams of the providers, for every protocol, streams  *)
(* of every length and any number of blocks and calls: types, that a       *)
(* message says what its deltas said, that an item that is done stays so,  *)
(* and that what the client is told of an item was announced.              *)
(*                                                                         *)
(* The loop handles one core event at a time, long after the adapter has   *)
(* emitted it. What makes an event fit the state of the loop is said of    *)
(* its block alone (Fits); what comes to fit, or goes on to fit, by the    *)
(* events that are still before it is said of these events (Allowed). The  *)
(* invariant of each adapter is then a list of what it may emit next.      *)
(***************************************************************************)
EXTENDS ProviderStreams, SequenceTheorems, WellFoundedInduction, TLAPS

CoreEvent ==
    [type : CoreTypes, index : Nat, block : {"none", "text", "tool_use", "reasoning"},
     delta : Pieces, signed : BOOLEAN]
AnItem ==
    [type : ItemTypes, status : {"in_progress", "completed"}, text : Pieces, signed : BOOLEAN]
WireNames == CoreTypes \cup AboutItems
AWire == [event : WireNames, at : Nat, text : Pieces]

\* A function on some block indexes.
Partial(S) == UNION {[D -> S] : D \in SUBSET Nat}

LoopTyped ==
    /\ core \in Seq(CoreEvent)
    /\ output \in Seq(AnItem)
    /\ sent \in Seq(AWire)
    /\ contentText \in Partial(Pieces) /\ toolCallArgs \in Partial(Pieces)
    /\ outputIndexes \in Partial(Nat)
    /\ \A i \in DOMAIN outputIndexes : outputIndexes[i] \in 0..(Len(output) - 1)

-----------------------------------------------------------------------------
(***************************************************************************)
(* What the loop does with an event depends on what it knows of the block. *)
(***************************************************************************)

Deeds == {"text", "reasoning", "tool_use", "text_delta", "args_delta", "args_done", "block_done"}
Deed(e) == IF e.type = "block_started" THEN e.block ELSE e.type

SentIn(s, event, at) == \E k \in 1..Len(s) : s[k].event = event /\ s[k].at = at

Has(i) == i \in DOMAIN outputIndexes
IsMessage(i) == Has(i) /\ output[outputIndexes[i] + 1].type = "message"
Live(i) == Has(i) => ~ SentIn(sent, "item_done", outputIndexes[i])
Speaks(i) == IsMessage(i) => i \in DOMAIN contentText
Idle(i) == i \notin DOMAIN contentText \cup reasonIndexes

\* When it does no harm to do something with a block.
Fits(deed, i) ==
    /\ deed = "text" => ~ IsMessage(i) /\ (NothingGoesAstray => Live(i))
    /\ deed = "tool_use" => (NothingGoesAstray => Idle(i))
    /\ deed = "text_delta" => Speaks(i) /\ (NothingGoesAstray => Live(i))
    /\ deed = "args_delta" => (NothingGoesAstray => Has(i) /\ ~ IsMessage(i) /\ Live(i))
    /\ deed = "args_done" =>
         Has(i) /\ ~ IsMessage(i) /\ (NothingGoesAstray => Idle(i) /\ Live(i))
    /\ deed = "block_done" =>
         (NothingGoesAstray => \/ Live(i) /\ Speaks(i)
                               \/ Idle(i) /\ i \in toolCallFinalized)

\* What an event makes fit, and what it leaves fit.
Made ==
    {<<"text", "text_delta">>, <<"text_delta", "text_delta">>, <<"reasoning", "text_delta">>,
     <<"tool_use", "text_delta">>, <<"tool_use", "args_delta">>, <<"tool_use", "args_done">>,
     <<"tool_use", "text">>, <<"text", "block_done">>, <<"text_delta", "block_done">>,
     <<"reasoning", "block_done">>, <<"tool_use", "block_done">>, <<"args_done", "block_done">>}
Left ==
    {<<"text", "args_delta">>, <<"text_delta", "args_delta">>, <<"block_done", "reasoning">>}

Makes(e, deed, i) == e.index = i /\ <<Deed(e), deed>> \in Made
Leaves(e, deed, i) ==
    \/ e.index # i \/ Deed(e) \notin Deeds \/ Deed(e) = "args_delta"
    \/ <<Deed(e), deed>> \in Left

\* It will fit once the first n events of the queue have been handled.
Allowed(queue, n, deed, i) ==
    \/ Fits(deed, i) /\ \A j \in 1..n : Leaves(queue[j], deed, i)
    \/ \E j \in 1..n : /\ Makes(queue[j], deed, i)
                       /\ \A l \in (j + 1)..n : Leaves(queue[l], deed, i)

AllFit(queue) ==
    \A k \in 1..Len(queue), deed \in Deeds, i \in Nat :
        Deed(queue[k]) = deed /\ queue[k].index = i => Allowed(queue, k - 1, deed, i)

Expect(deed, i) == Allowed(core, Len(core), deed, i)

-----------------------------------------------------------------------------
(***************************************************************************)
(* Sequences put together. A recursive function is the one that satisfies  *)
(* its equation, once it is known that there is one; what it computes is   *)
(* proved by looking at the least place where it would be wrong.           *)
(***************************************************************************)

LEMMA Least ==
  ASSUME NEW T \in SUBSET Nat, T # {}
  PROVE  \E n \in T : \A m \in T : n <= m
<1> DEFINE less == {ss \in Nat \X Nat : ss[1] < ss[2]}
<1>1. IsWellFoundedOn(less, Nat)
  BY NatLessThanWellFounded, Zenon DEF OpToRel
<1> HIDE DEF less
<1>2. PICK n \in T : \A m \in T : ~ (<<m, n>> \in less)
  BY <1>1, WFMin
<1>3. ASSUME NEW m \in T PROVE n <= m
  <2>1. ~ (<<m, n>> \in less) /\ m \in Nat /\ n \in Nat
    BY <1>2
  <2>2. ~ (m < n)
    BY <2>1 DEF less
  <2> QED
    BY <2>1, <2>2
<1> QED
  BY <1>3

\* Induction: a set that holds 0, and k with k - 1, holds all up to n.
LEMMA AllUpTo ==
  ASSUME NEW n \in Nat, NEW T, 0 \in T, \A k \in 1..n : k - 1 \in T => k \in T
  PROVE  \A k \in 0..n : k \in T
<1> DEFINE bad == {k \in 0..n : k \notin T}
<1> SUFFICES ASSUME bad # {} PROVE FALSE
  OBVIOUS
<1>1. bad \in SUBSET Nat
  OBVIOUS
<1>2. PICK k \in bad : \A j \in bad : k <= j
  BY <1>1, Least
<1>3. k # 0 /\ k \in 0..n /\ k \notin T
  BY <1>2
<1>4. k \in 1..n /\ k - 1 \in 0..n /\ ~ (k <= k - 1)
  BY <1>3
<1>5. k - 1 \notin bad
  BY <1>2, <1>4
<1> QED
  BY <1>3, <1>4, <1>5

LEMMA ElementsOf ==
  ASSUME NEW S, NEW s \in Seq(S)
  PROVE  Len(s) \in Nat /\ DOMAIN s = 1..Len(s) /\ \A k \in 1..Len(s) : s[k] \in S
  OBVIOUS

LEMMA JoinedAt ==
  ASSUME NEW S, NEW s \in Seq(S), NEW t \in Seq(S)
  PROVE  /\ s \o t \in Seq(S) /\ Len(s \o t) = Len(s) + Len(t)
         /\ \A k \in 1..Len(s) : (s \o t)[k] = s[k]
         /\ \A k \in 1..Len(t) : (s \o t)[Len(s) + k] = t[k]
  OBVIOUS

\* The function in the definition of Flat, for the first n sequences.
IsFlat(f, seqs, n) == f = [k \in 0..n |-> IF k = 0 THEN <<>> ELSE f[k - 1] \o seqs[k]]

LEMMA IsFlatAt ==
  ASSUME NEW f, NEW seqs, NEW n \in Nat
  PROVE  IsFlat(f, seqs, n) => f[0] = <<>> /\ \A k \in 1..n : f[k] = f[k - 1] \o seqs[k]
<1>1. 0 \in 0..n /\ \A k \in 1..n : k \in 0..n /\ k # 0
  OBVIOUS
<1> QED
  BY <1>1 DEF IsFlat

LEMMA FlatLonger ==
  ASSUME NEW seqs, NEW n \in Nat \ {0}, NEW f, IsFlat(f, seqs, n - 1)
  PROVE  \E g : IsFlat(g, seqs, n)
<1> DEFINE g == [k \in 0..n |-> IF k = n THEN f[n - 1] \o seqs[n] ELSE f[k]]
<1>1. n - 1 \in Nat /\ n - 1 \in 0..n /\ n - 1 # n /\ n \in 0..n
  OBVIOUS
<1>2. g[n] = f[n - 1] \o seqs[n] /\ g[n - 1] = f[n - 1]
  BY <1>1
<1>3. ASSUME NEW k \in 0..n PROVE g[k] = IF k = 0 THEN <<>> ELSE g[k - 1] \o seqs[k]
  <2>1. CASE k = n
    BY <1>2, <2>1
  <2>2. CASE k # n
    <3>1. f[k] = IF k = 0 THEN <<>> ELSE f[k - 1] \o seqs[k]
      <4>1. k \in 0..(n - 1)
        BY <2>2
      <4> QED
        BY <4>1 DEF IsFlat
    <3>2. g[k] = f[k] /\ (k # 0 => g[k - 1] = f[k - 1])
      BY <2>2
    <3> QED
      BY <3>1, <3>2
  <2> QED
    BY <2>1, <2>2
<1>4. g = [k \in 0..n |-> g[k]]
  OBVIOUS
<1> HIDE DEF g
<1>5. IsFlat(g, seqs, n)
  BY <1>3, <1>4 DEF IsFlat
<1> QED
  BY <1>5

LEMMA FlatExists == ASSUME NEW seqs, NEW n \in Nat PROVE \E f : IsFlat(f, seqs, n)
<1> DEFINE T == {k \in Nat : \E f : IsFlat(f, seqs, k)}
<1>1. 0 \in T
  <2>1. IsFlat([k \in 0..0 |-> <<>>], seqs, 0)
    BY DEF IsFlat
  <2> QED
    BY <2>1
<1>2. \A k \in 1..n : k - 1 \in T => k \in T
  BY FlatLonger
<1>3. n \in 0..n
  OBVIOUS
<1> HIDE DEF T
<1>4. n \in T
  BY <1>1, <1>2, <1>3, AllUpTo
<1> QED
  BY <1>4 DEF T

LEMMA FlatIs ==
  ASSUME NEW seqs, Len(seqs) \in Nat
  PROVE  \E f : IsFlat(f, seqs, Len(seqs)) /\ Flat(seqs) = f[Len(seqs)]
<1> DEFINE f == CHOOSE g : g = [n \in 0..Len(seqs) |-> IF n = 0 THEN <<>> ELSE g[n - 1] \o seqs[n]]
<1>1. Flat(seqs) = f[Len(seqs)]
  BY DEF Flat
<1>2. \E g : g = [n \in 0..Len(seqs) |-> IF n = 0 THEN <<>> ELSE g[n - 1] \o seqs[n]]
  BY FlatExists DEF IsFlat
<1>3. f = [n \in 0..Len(seqs) |-> IF n = 0 THEN <<>> ELSE f[n - 1] \o seqs[n]]
  BY <1>2
<1> HIDE DEF f
<1> QED
  BY <1>1, <1>3 DEF IsFlat

\* The same with the equation at each place.
LEMMA FlatSteps ==
  ASSUME NEW seqs, Len(seqs) \in Nat
  PROVE  \E f : /\ f[0] = <<>> /\ Flat(seqs) = f[Len(seqs)]
                /\ \A k \in 1..Len(seqs) : f[k] = f[k - 1] \o seqs[k]
<1>1. PICK f : IsFlat(f, seqs, Len(seqs)) /\ Flat(seqs) = f[Len(seqs)]
  BY FlatIs
<1>2. f[0] = <<>> /\ \A k \in 1..Len(seqs) : f[k] = f[k - 1] \o seqs[k]
  BY <1>1, IsFlatAt
<1> QED
  BY <1>1, <1>2

LEMMA FlatTyped ==
  ASSUME NEW S, NEW n \in Nat, NEW seqs, \A k \in 1..n : seqs[k] \in Seq(S),
         NEW f, f[0] = <<>>, \A k \in 1..n : f[k] = f[k - 1] \o seqs[k]
  PROVE  \A k \in 0..n : f[k] \in Seq(S)
<1> DEFINE T == {k \in 0..n : f[k] \in Seq(S)}
<1>1. 0 \in T
  <2>1. <<>> \in Seq(S) /\ 0 \in 0..n
    OBVIOUS
  <2> QED
    BY <2>1
<1>2. ASSUME NEW k \in 1..n, k - 1 \in T PROVE k \in T
  <2>0. k \in 0..n
    OBVIOUS
  <2>1. f[k - 1] \in Seq(S) /\ seqs[k] \in Seq(S) /\ f[k] = f[k - 1] \o seqs[k] /\ k \in 0..n
    BY <1>2, <2>0
  <2>2. f[k - 1] \o seqs[k] \in Seq(S)
    BY <2>1, ConcatProperties
  <2> QED
    BY <2>1, <2>2
<1> HIDE DEF T
<1>3. \A k \in 0..n : k \in T
  BY <1>1, <1>2, AllUpTo
<1> QED
  BY <1>3 DEF T

LEMMA FlatInSeq == ASSUME NEW S, NEW seqs \in Seq(Seq(S)) PROVE Flat(seqs) \in Seq(S)
<1>1. Len(seqs) \in Nat /\ \A k \in 1..Len(seqs) : seqs[k] \in Seq(S)
  BY ElementsOf
<1>2. PICK f : /\ f[0] = <<>> /\ Flat(seqs) = f[Len(seqs)]
               /\ \A k \in 1..Len(seqs) : f[k] = f[k - 1] \o seqs[k]
  BY <1>1, FlatSteps
<1>3. \A k \in 0..Len(seqs) : f[k] \in Seq(S)
  BY <1>1, <1>2, FlatTyped
<1>4. Len(seqs) \in 0..Len(seqs)
  BY <1>1
<1> QED
  BY <1>2, <1>3, <1>4

\* What is put behind a sequence, step by step.
Builds(h, m, a, t) == h[m] = a /\ \A k \in 1..Len(t) : h[m + k] = h[m + (k - 1)] \o t[k]

LEMMA JoinedSteps ==
  ASSUME NEW S, NEW t \in Seq(Seq(S)), NEW a \in Seq(S), NEW m \in Nat,
         NEW g, Builds(g, 0, <<>>, t), NEW h, Builds(h, m, a, t)
  PROVE  h[m + Len(t)] = a \o g[Len(t)]
<1> DEFINE n == Len(t)
           T == {k \in 0..n : h[m + k] = a \o g[k]}
<1>1. n \in Nat /\ n \in 0..n /\ \A k \in 1..n : t[k] \in Seq(S)
  BY ElementsOf
<1>2. g[0] = <<>> /\ \A k \in 1..n : g[k] = g[k - 1] \o t[k]
  <2>1. \A k \in 1..n : 0 + k = k /\ 0 + (k - 1) = k - 1
    BY <1>1
  <2>2. g[0] = <<>> /\ \A k \in 1..n : g[0 + k] = g[0 + (k - 1)] \o t[k]
    BY DEF Builds
  <2> HIDE DEF n
  <2> QED
    BY <2>1, <2>2
<1>3. h[m] = a /\ \A k \in 1..n : h[m + k] = h[m + (k - 1)] \o t[k]
  BY DEF Builds
<1> HIDE DEF n
<1>4. \A k \in 0..n : g[k] \in Seq(S)
  BY <1>1, <1>2, FlatTyped
<1>5. 0 \in T
  <2>1. a \o <<>> = a /\ m + 0 = m /\ 0 \in 0..n
    BY <1>1, ConcatEmptySeq
  <2> QED
    BY <1>2, <1>3, <2>1
<1>6. ASSUME NEW k \in 1..n, k - 1 \in T PROVE k \in T
  <2> DEFINE b == g[k - 1]
             c == t[k]
  <2>1. k \in 0..n /\ k - 1 \in 0..n
    BY <1>1
  <2>2. h[m + k] = (a \o b) \o c /\ g[k] = b \o c
    BY <1>2, <1>3, <1>6
  <2>3. b \in Seq(S) /\ c \in Seq(S)
    BY <1>1, <1>4, <2>1
  <2> HIDE DEF b, c
  <2>4. (a \o b) \o c = a \o (b \o c)
    BY <2>3, ConcatAssociative
  <2> QED
    BY <2>1, <2>2, <2>4
<1> HIDE DEF T
<1>7. n \in T
  BY <1>1, <1>5, <1>6, AllUpTo
<1> QED
  BY <1>7 DEF T, n

\* What is flattened of two sequences of sequences is what is flattened of each.
LEMMA FlatJoined ==
  ASSUME NEW S, NEW s \in Seq(Seq(S)), NEW t \in Seq(Seq(S))
  PROVE  Flat(s \o t) = Flat(s) \o Flat(t)
<1> DEFINE u == s \o t
           m == Len(s)
           n == Len(t)
<1>1. /\ m \in Nat /\ \A k \in 1..m : s[k] \in Seq(S)
      /\ n \in Nat /\ \A k \in 1..n : t[k] \in Seq(S)
  BY ElementsOf
<1>2. /\ Len(u) = m + n
      /\ \A k \in 1..m : u[k] = s[k]
      /\ \A k \in 1..n : u[m + k] = t[k]
  BY JoinedAt
<1>3. PICK f : f[0] = <<>> /\ Flat(s) = f[m] /\ \A k \in 1..m : f[k] = f[k - 1] \o s[k]
  BY <1>1, FlatSteps
<1>4. PICK g : g[0] = <<>> /\ Flat(t) = g[n] /\ \A k \in 1..n : g[k] = g[k - 1] \o t[k]
  BY <1>1, FlatSteps
<1>5. PICK h : h[0] = <<>> /\ Flat(u) = h[Len(u)] /\ \A k \in 1..Len(u) : h[k] = h[k - 1] \o u[k]
  <2>1. Len(u) \in Nat
    BY <1>1, <1>2
  <2> HIDE DEF u
  <2> QED
    BY <2>1, FlatSteps
<1> HIDE DEF u, m, n
<1>6. /\ \A k \in 0..m : f[k] \in Seq(S)
      /\ \A k \in 0..n : g[k] \in Seq(S)
  BY <1>1, <1>3, <1>4, FlatTyped
<1>7. h[m] = f[m]
  <2> DEFINE T == {k \in 0..m : h[k] = f[k]}
  <2>1. 0 \in T
    BY <1>1, <1>3, <1>5
  <2>2. ASSUME NEW k \in 1..m, k - 1 \in T PROVE k \in T
    <3>1. h[k - 1] = f[k - 1] /\ k \in 1..Len(u) /\ k \in 0..m
      BY <1>1, <1>2, <2>2
    <3> QED
      BY <1>2, <1>3, <1>5, <3>1
  <2>3. m \in 0..m
    BY <1>1
  <2> HIDE DEF T
  <2>4. m \in T
    BY <1>1, <2>1, <2>2, <2>3, AllUpTo
  <2> QED
    BY <2>4 DEF T
<1>8. f[m] \in Seq(S)
  BY <1>1, <1>6
<1>9. h[m + n] = f[m] \o g[n]
  <2>1. \A k \in 1..n : m + k \in 1..Len(u) /\ (m + k) - 1 = m + (k - 1) /\ 0 + k = k /\ 0 + (k - 1) = k - 1
    BY <1>1, <1>2
  <2>2. Builds(h, m, f[m], t)
    BY <1>2, <1>5, <1>7, <2>1 DEF Builds, n
  <2>3. Builds(g, 0, <<>>, t)
    BY <1>4, <2>1 DEF Builds, n
  <2> DEFINE a == f[m]
  <2> HIDE DEF a
  <2>4. a \in Seq(S) /\ Builds(h, m, a, t)
    BY <1>8, <2>2 DEF a
  <2>5. h[m + Len(t)] = a \o g[Len(t)]
    BY <1>1, <2>3, <2>4, JoinedSteps
  <2> QED
    BY <2>5 DEF a, n
<1> QED
  BY <1>2, <1>3, <1>4, <1>5, <1>9 DEF u

LEMMA FlatOfOne ==
  ASSUME NEW S, NEW s \in Seq(S)
  PROVE  Flat(<<s>>) = s
<1>1. Len(<<s>>) = 1 /\ <<s>>[1] = s /\ 1 \in 1..1 /\ 1 - 1 = 0 /\ 1 \in Nat
  OBVIOUS
<1> DEFINE seqs == <<s>>
<1> HIDE DEF seqs
<1>2. PICK f : f[0] = <<>> /\ Flat(seqs) = f[1] /\ \A k \in 1..1 : f[k] = f[k - 1] \o seqs[k]
  BY <1>1, FlatSteps DEF seqs
<1>3. f[1] = <<>> \o s
  BY <1>1, <1>2 DEF seqs
<1>4. <<>> \o s = s
  BY ConcatEmptySeq
<1> QED
  BY <1>2, <1>3, <1>4 DEF seqs

LEMMA FlatAppended ==
  ASSUME NEW S, NEW seqs \in Seq(Seq(S)), NEW s \in Seq(S)
  PROVE  Flat(Append(seqs, s)) = Flat(seqs) \o s
<1> DEFINE E == Seq(S)
           one == <<s>>
<1>1. one \in Seq(E)
  OBVIOUS
<1>2. Append(seqs, s) = seqs \o one
  <2> HIDE DEF E
  <2>1. seqs \in Seq(E) /\ s \in E
    BY DEF E
  <2> QED
    BY <2>1, AppendIsConcat
<1>3. Flat(one) = s
  BY FlatOfOne
<1> HIDE DEF one
<1>4. Flat(seqs \o one) = Flat(seqs) \o Flat(one)
  BY <1>1, FlatJoined
<1> QED
  BY <1>2, <1>3, <1>4

\* Nothing comes of empty sequences.
LEMMA FlatOfNone ==
  ASSUME NEW seqs, Len(seqs) \in Nat, \A k \in 1..Len(seqs) : seqs[k] = <<>>
  PROVE  Flat(seqs) = <<>>
<1>1. PICK f : /\ f[0] = <<>> /\ Flat(seqs) = f[Len(seqs)]
               /\ \A k \in 1..Len(seqs) : f[k] = f[k - 1] \o seqs[k]
  BY FlatSteps
<1> DEFINE n == Len(seqs)
           T == {k \in 0..n : f[k] = <<>>}
<1>2. 0 \in T
  BY <1>1
<1>3. ASSUME NEW k \in 1..n, k - 1 \in T PROVE k \in T
  <2>0. k \in 0..n /\ f[k - 1] = <<>>
    BY <1>3
  <2>1. f[k] = <<>> \o <<>>
    BY <1>1, <2>0
  <2> QED
    BY <2>0, <2>1
<1>4. n \in Nat /\ n \in 0..n
  OBVIOUS
<1> HIDE DEF T
<1>5. n \in T
  BY <1>2, <1>3, <1>4, AllUpTo
<1> QED
  BY <1>1, <1>5 DEF T

-----------------------------------------------------------------------------
(***************************************************************************)
(* The queue of core events moves on.                                      *)
(***************************************************************************)

LEMMA QueueTail ==
  ASSUME LoopTyped, core # <<>>, core' = Tail(core)
  PROVE  /\ core' \in Seq(CoreEvent) /\ Len(core) \in Nat \ {0} /\ Len(core') = Len(core) - 1
         /\ Event = core[1] /\ Event \in CoreEvent
         /\ \A k \in 1..Len(core') : core'[k] = core[k + 1]
<1>1. core \in Seq(CoreEvent)
  BY DEF LoopTyped
<1> QED
  BY <1>1 DEF Event

LEMMA Shifted ==
  ASSUME LoopTyped, core # <<>>, core' = Tail(core),
         NEW n \in 1..Len(core), NEW deed, NEW i, Allowed(core, n, deed, i),
         Leaves(Event, deed, i) /\ Fits(deed, i) => Fits(deed, i)',
         Makes(Event, deed, i) => Fits(deed, i)'
  PROVE  Allowed(core, n - 1, deed, i)'
<1>1. /\ Len(core) \in Nat \ {0} /\ Len(core') = Len(core) - 1 /\ Event = core[1]
      /\ \A k \in 1..Len(core') : core'[k] = core[k + 1]
  BY QueueTail
<1>2. n \in Nat /\ n - 1 \in Nat /\ 1 \in 1..n
  BY <1>1
<1>3. CASE Fits(deed, i) /\ \A j \in 1..n : Leaves(core[j], deed, i)
  <2>1. Fits(deed, i)'
    BY <1>1, <1>2, <1>3
  <2>2. ASSUME NEW j \in 1..(n - 1) PROVE Leaves(core'[j], deed, i)
    <3>1. j + 1 \in 1..n /\ j \in 1..Len(core')
      BY <1>1, <1>2
    <3> QED
      BY <1>1, <1>3, <3>1
  <2> QED
    BY <2>1, <2>2 DEF Allowed, Leaves, Deed
<1>4. CASE \E j \in 1..n : /\ Makes(core[j], deed, i)
                           /\ \A l \in (j + 1)..n : Leaves(core[l], deed, i)
  <2>1. PICK j \in 1..n : /\ Makes(core[j], deed, i)
                          /\ \A l \in (j + 1)..n : Leaves(core[l], deed, i)
    BY <1>4
  <2>2. ASSUME NEW l \in j..(n - 1) PROVE Leaves(core'[l], deed, i)
    <3>1. l + 1 \in (j + 1)..n /\ l \in 1..Len(core')
      BY <1>1, <1>2
    <3> QED
      BY <1>1, <2>1, <3>1
  <2>3. CASE j = 1
    <3>1. Fits(deed, i)'
      BY <1>1, <2>1, <2>3
    <3> QED
      BY <2>2, <2>3, <3>1 DEF Allowed, Leaves, Deed
  <2>4. CASE j # 1
    <3>1. j - 1 \in 1..(n - 1) /\ j - 1 \in 1..Len(core') /\ (j - 1) + 1 = j
      BY <1>1, <1>2, <2>4
    <3>2. Makes(core'[j - 1], deed, i)
      BY <1>1, <2>1, <3>1
    <3>3. \A l \in ((j - 1) + 1)..(n - 1) : Leaves(core'[l], deed, i)
      BY <2>2, <3>1
    <3> QED
      BY <3>1, <3>2, <3>3 DEF Allowed, Leaves, Makes, Deed
  <2> QED
    BY <2>3, <2>4
<1> QED
  BY <1>3, <1>4 DEF Allowed

\* An event that is handled keeps what is known of the queue, if it leaves fit what it
\* leaves and makes fit what it makes.
FitsOn ==
    \A deed \in Deeds, i \in Nat :
        /\ Leaves(Event, deed, i) /\ Fits(deed, i) => Fits(deed, i)'
        /\ Makes(Event, deed, i) => Fits(deed, i)'

LEMMA AllFitOn ==
  ASSUME LoopTyped, core # <<>>, core' = Tail(core), AllFit(core), FitsOn
  PROVE  AllFit(core)'
<1>1. /\ Len(core) \in Nat \ {0} /\ Len(core') = Len(core) - 1 /\ core' \in Seq(CoreEvent)
      /\ \A k \in 1..Len(core') : core'[k] = core[k + 1]
  BY QueueTail
<1> SUFFICES ASSUME NEW k \in 1..Len(core'), NEW deed \in Deeds, NEW i \in Nat,
                    Deed(core'[k]) = deed, core'[k].index = i
             PROVE  Allowed(core, k - 1, deed, i)'
  BY DEF AllFit, Deed
<1>2. k + 1 \in 1..Len(core) /\ k \in 1..Len(core) /\ (k + 1) - 1 = k
  BY <1>1
<1>3. core[k + 1] = core'[k]
  BY <1>1
<1>4. Allowed(core, k, deed, i)
  BY <1>2, <1>3 DEF AllFit
<1>5. /\ Leaves(Event, deed, i) /\ Fits(deed, i) => Fits(deed, i)'
      /\ Makes(Event, deed, i) => Fits(deed, i)'
  BY DEF FitsOn
<1> QED
  BY <1>2, <1>4, <1>5, Shifted

-----------------------------------------------------------------------------
(***************************************************************************)
(* What the client was sent.                                               *)
(***************************************************************************)

LEMMA SameSequence ==
  ASSUME NEW S, NEW s \in Seq(S), NEW t \in Seq(S), Len(s) = Len(t),
         \A k \in 1..Len(s) : s[k] = t[k]
  PROVE  s = t
  OBVIOUS

LEMMA SentJoined ==
  ASSUME NEW s \in Seq(AWire), NEW t \in Seq(AWire), NEW event, NEW at
  PROVE  /\ SentIn(s \o t, event, at) <=> SentIn(s, event, at) \/ SentIn(t, event, at)
         /\ s \o t \in Seq(AWire)
<1>1. /\ s \o t \in Seq(AWire) /\ Len(s \o t) = Len(s) + Len(t)
      /\ \A k \in 1..Len(s) : (s \o t)[k] = s[k]
      /\ \A k \in 1..Len(t) : (s \o t)[Len(s) + k] = t[k]
  BY JoinedAt
<1>2. Len(s) \in Nat /\ Len(t) \in Nat
  BY ElementsOf
<1> DEFINE u == s \o t
<1> HIDE DEF u
<1>3. ASSUME SentIn(s, event, at) PROVE SentIn(u, event, at)
  <2>1. PICK k \in 1..Len(s) : s[k].event = event /\ s[k].at = at
    BY <1>3 DEF SentIn
  <2>2. k \in 1..Len(u) /\ u[k] = s[k]
    BY <1>1, <1>2 DEF u
  <2> QED
    BY <2>1, <2>2 DEF SentIn
<1>4. ASSUME SentIn(t, event, at) PROVE SentIn(u, event, at)
  <2>1. PICK k \in 1..Len(t) : t[k].event = event /\ t[k].at = at
    BY <1>4 DEF SentIn
  <2>2. Len(s) + k \in 1..Len(u) /\ u[Len(s) + k] = t[k]
    BY <1>1, <1>2 DEF u
  <2> QED
    BY <2>1, <2>2 DEF SentIn
<1>5. ASSUME SentIn(u, event, at) PROVE SentIn(s, event, at) \/ SentIn(t, event, at)
  <2>1. PICK k \in 1..Len(u) : u[k].event = event /\ u[k].at = at
    BY <1>5 DEF SentIn
  <2>2. CASE k <= Len(s)
    <3>1. k \in 1..Len(s) /\ u[k] = s[k]
      BY <1>1, <1>2, <2>2 DEF u
    <3> QED
      BY <2>1, <3>1 DEF SentIn
  <2>3. CASE ~ (k <= Len(s))
    <3>1. k - Len(s) \in 1..Len(t) /\ Len(s) + (k - Len(s)) = k
      BY <1>1, <1>2, <2>3 DEF u
    <3>2. u[k] = t[k - Len(s)]
      BY <1>1, <3>1 DEF u
    <3> QED
      BY <2>1, <3>1, <3>2 DEF SentIn
  <2> QED
    BY <2>2, <2>3
<1> QED
  BY <1>1, <1>3, <1>4, <1>5 DEF u

LEMMA SentOne ==
  ASSUME NEW w, NEW event, NEW at
  PROVE  SentIn(<<w>>, event, at) <=> w.event = event /\ w.at = at
<1>1. Len(<<w>>) = 1 /\ <<w>>[1] = w /\ 1..1 = {1}
  OBVIOUS
<1> QED
  BY <1>1 DEF SentIn

LEMMA SentTwo ==
  ASSUME NEW v, NEW w, NEW event, NEW at
  PROVE  SentIn(<<v, w>>, event, at)
         <=> (v.event = event /\ v.at = at) \/ (w.event = event /\ w.at = at)
<1>1. Len(<<v, w>>) = 2 /\ <<v, w>>[1] = v /\ <<v, w>>[2] = w /\ 1..2 = {1, 2}
  OBVIOUS
<1> QED
  BY <1>1 DEF SentIn

LEMMA SentThree ==
  ASSUME NEW u, NEW v, NEW w, NEW event, NEW at
  PROVE  SentIn(<<u, v, w>>, event, at)
         <=> \/ u.event = event /\ u.at = at
             \/ v.event = event /\ v.at = at
             \/ w.event = event /\ w.at = at
<1>1. /\ Len(<<u, v, w>>) = 3 /\ 1..3 = {1, 2, 3}
      /\ <<u, v, w>>[1] = u /\ <<u, v, w>>[2] = v /\ <<u, v, w>>[3] = w
  OBVIOUS
<1> QED
  BY <1>1 DEF SentIn

\* The deltas of an item among all that was sent, and the text they say.
DeltasIn(s, at) ==
    [k \in 1..Len(s) |-> IF s[k].event = "text_delta" /\ s[k].at = at THEN s[k].text ELSE <<>>]
SaidIn(s, at) == Flat(DeltasIn(s, at))

LEMMA SaidIs == ASSUME NEW at PROVE Said(at) = SaidIn(sent, at)
  BY DEF Said, SaidIn, DeltasIn

LEMMA DeltasTyped ==
  ASSUME NEW s \in Seq(AWire), NEW at
  PROVE  DeltasIn(s, at) \in Seq(Pieces) /\ Len(DeltasIn(s, at)) = Len(s)
<1>1. Len(s) \in Nat /\ \A k \in 1..Len(s) : s[k] \in AWire
  BY ElementsOf
<1>2. \A k \in 1..Len(s) : DeltasIn(s, at)[k] \in Pieces
  <2>1. <<>> \in Pieces
    BY DEF Pieces
  <2> QED
    BY <1>1, <2>1 DEF DeltasIn, AWire
<1> QED
  BY <1>1, <1>2 DEF DeltasIn

LEMMA SaidJoined ==
  ASSUME NEW s \in Seq(AWire), NEW t \in Seq(AWire), NEW at
  PROVE  SaidIn(s \o t, at) = SaidIn(s, at) \o SaidIn(t, at)
<1>1. /\ s \o t \in Seq(AWire) /\ Len(s \o t) = Len(s) + Len(t)
      /\ \A k \in 1..Len(s) : (s \o t)[k] = s[k]
      /\ \A k \in 1..Len(t) : (s \o t)[Len(s) + k] = t[k]
  BY JoinedAt
<1>2. Len(s) \in Nat /\ Len(t) \in Nat
  BY ElementsOf
<1> DEFINE u == s \o t
           ds == DeltasIn(s, at)
           dt == DeltasIn(t, at)
           du == DeltasIn(u, at)
<1>3. /\ ds \in Seq(Pieces) /\ Len(ds) = Len(s)
      /\ dt \in Seq(Pieces) /\ Len(dt) = Len(t)
      /\ du \in Seq(Pieces) /\ Len(du) = Len(u)
  BY <1>1, DeltasTyped
<1>4. /\ \A k \in 1..Len(s) : du[k] = ds[k]
      /\ \A k \in 1..Len(t) : du[Len(s) + k] = dt[k]
  <2>1. ASSUME NEW k \in 1..Len(s) PROVE du[k] = ds[k]
    <3>1. k \in 1..Len(u) /\ u[k] = s[k]
      BY <1>1, <1>2
    <3> HIDE DEF u
    <3> QED
      BY <3>1 DEF DeltasIn
  <2>2. ASSUME NEW k \in 1..Len(t) PROVE du[Len(s) + k] = dt[k]
    <3>1. Len(s) + k \in 1..Len(u) /\ u[Len(s) + k] = t[k]
      BY <1>1, <1>2
    <3> HIDE DEF u
    <3> QED
      BY <3>1 DEF DeltasIn
  <2> QED
    BY <2>1, <2>2
<1> HIDE DEF ds, dt, du
<1>5. /\ ds \o dt \in Seq(Pieces) /\ Len(ds \o dt) = Len(ds) + Len(dt)
      /\ \A k \in 1..Len(ds) : (ds \o dt)[k] = ds[k]
      /\ \A k \in 1..Len(dt) : (ds \o dt)[Len(ds) + k] = dt[k]
  <2>1. ds \in Seq(Pieces) /\ dt \in Seq(Pieces)
    BY <1>3
  <2> QED
    BY ONLY <2>1, JoinedAt, SMT
<1>6. ASSUME NEW k \in 1..Len(du) PROVE du[k] = (ds \o dt)[k]
  <2>1. CASE k <= Len(s)
    <3>1. k \in 1..Len(s)
      BY <1>1, <1>2, <1>3, <2>1
    <3> QED
      BY <1>3, <1>4, <1>5, <3>1
  <2>2. CASE ~ (k <= Len(s))
    <3>1. k - Len(s) \in 1..Len(t) /\ Len(s) + (k - Len(s)) = k
      BY <1>1, <1>2, <1>3, <2>2
    <3>2. PICK l \in 1..Len(t) : Len(s) + l = k
      BY <3>1
    <3>3. l \in 1..Len(dt) /\ Len(ds) + l = k
      BY <1>3, <3>2
    <3>4. du[k] = dt[l] /\ (ds \o dt)[k] = dt[l]
      BY <1>4, <1>5, <3>2, <3>3
    <3> QED
      BY <3>4
  <2> QED
    BY <2>1, <2>2
<1>7. Len(du) = Len(ds \o dt)
  BY <1>1, <1>3, <1>5
<1>8. du = ds \o dt
  <2> DEFINE v == ds \o dt
  <2> HIDE DEF v
  <2>1. v \in Seq(Pieces) /\ Len(du) = Len(v) /\ \A k \in 1..Len(du) : du[k] = v[k]
    BY <1>5, <1>6, <1>7 DEF v
  <2>2. du = v
    BY <1>3, <2>1, SameSequence
  <2> QED
    BY <2>2 DEF v
<1>9. Flat(ds \o dt) = Flat(ds) \o Flat(dt)
  BY <1>3, FlatJoined DEF Pieces
<1> QED
  BY <1>8, <1>9 DEF SaidIn, ds, dt, du

LEMMA SaidNothing ==
  ASSUME NEW s \in Seq(AWire), NEW at, ~ SentIn(s, "text_delta", at)
  PROVE  SaidIn(s, at) = <<>>
<1>1. Len(DeltasIn(s, at)) = Len(s) /\ Len(s) \in Nat
  BY DeltasTyped, ElementsOf
<1>2. \A k \in 1..Len(s) : DeltasIn(s, at)[k] = <<>>
  BY DEF SentIn, DeltasIn
<1> HIDE DEF DeltasIn
<1> QED
  BY <1>1, <1>2, FlatOfNone DEF SaidIn

LEMMA SaidOne ==
  ASSUME NEW w \in AWire, w.event = "text_delta"
  PROVE  SaidIn(<<w>>, w.at) = w.text
<1>1. DeltasIn(<<w>>, w.at) = <<w.text>>
  BY DEF DeltasIn
<1>2. w.text \in Seq(Nat)
  BY DEF AWire, Pieces
<1> QED
  BY <1>1, <1>2, FlatOfOne DEF SaidIn

LEMMA SaidTyped == ASSUME NEW s \in Seq(AWire), NEW at PROVE SaidIn(s, at) \in Pieces
  BY DeltasTyped, FlatInSeq DEF SaidIn, Pieces

-----------------------------------------------------------------------------
(***************************************************************************)
(* The loop: types.                                                        *)
(***************************************************************************)

LEMMA Appended ==
  ASSUME NEW S, NEW s \in Seq(S), NEW x \in S
  PROVE  /\ Append(s, x) \in Seq(S) /\ Len(Append(s, x)) = Len(s) + 1
         /\ \A k \in 1..Len(s) : Append(s, x)[k] = s[k]
         /\ Append(s, x)[Len(s) + 1] = x
  OBVIOUS

LEMMA CompletedIs ==
  ASSUME NEW items \in Seq(AnItem), NEW at \in 0..(Len(items) - 1), NEW type, NEW text \in Pieces,
         Event \in CoreEvent
  PROVE  LET done == Completed(items, at, type, text) IN
         /\ done \in Seq(AnItem) /\ Len(done) = Len(items)
         /\ \A n \in 1..Len(items) : n # at + 1 => done[n] = items[n]
         /\ done[at + 1].type = items[at + 1].type
         /\ done[at + 1].status = "completed"
         /\ done[at + 1].text = IF items[at + 1].type = type THEN text ELSE items[at + 1].text
         /\ \A n \in 1..Len(items) : done[n].type = items[n].type
<1> DEFINE done == Completed(items, at, type, text)
           it == [items[at + 1] EXCEPT !.status = "completed", !.signed = @ \/ Event.signed,
                    !.text = IF items[at + 1].type = type THEN text ELSE items[at + 1].text]
<1>1. /\ Len(items) \in Nat /\ at + 1 \in 1..Len(items) /\ DOMAIN items = 1..Len(items)
      /\ \A n \in 1..Len(items) : items[n] \in AnItem
  BY ElementsOf
<1>2. items[at + 1] \in AnItem /\ Event.signed \in BOOLEAN
  BY <1>1 DEF CoreEvent
<1>3. /\ it \in AnItem /\ it.type = items[at + 1].type /\ it.status = "completed"
      /\ it.text = IF items[at + 1].type = type THEN text ELSE items[at + 1].text
  BY <1>2 DEF AnItem
<1>4. done = [items EXCEPT ![at + 1] = it]
  BY <1>1, <1>2 DEF Completed, AnItem
<1> HIDE DEF it, done
<1>5. /\ done \in Seq(AnItem) /\ Len(done) = Len(items) /\ done[at + 1] = it
      /\ \A n \in 1..Len(items) : n # at + 1 => done[n] = items[n]
  BY <1>1, <1>3, <1>4
<1> QED
  BY <1>1, <1>3, <1>5 DEF done

LEMMA PartialWith ==
  ASSUME NEW S, NEW f \in Partial(S), NEW i \in Nat, NEW v \in S
  PROVE  With(f, i, v) \in Partial(S)
<1>1. PICK D \in SUBSET Nat : f \in [D -> S]
  BY DEF Partial
<1>2. With(f, i, v) \in [D \cup {i} -> S]
  BY <1>1 DEF With
<1>3. D \cup {i} \in SUBSET Nat
  OBVIOUS
<1> QED
  BY <1>2, <1>3 DEF Partial

LEMMA PartialWithout ==
  ASSUME NEW S, NEW f \in Partial(S), NEW i
  PROVE  Without(f, i) \in Partial(S)
<1>1. PICK D \in SUBSET Nat : f \in [D -> S]
  BY DEF Partial
<1>2. Without(f, i) \in [D \ {i} -> S]
  BY <1>1 DEF Without
<1>3. D \ {i} \in SUBSET Nat
  OBVIOUS
<1> QED
  BY <1>2, <1>3 DEF Partial

LEMMA PartialAt ==
  ASSUME NEW S, NEW f \in Partial(S)
  PROVE  DOMAIN f \subseteq Nat /\ \A i \in DOMAIN f : f[i] \in S
  BY DEF Partial

LEMMA LookupTyped ==
  ASSUME NEW S, NEW f \in Partial(S), NEW i, NEW v \in S
  PROVE  Lookup(f, i, v) \in S
  BY PartialAt DEF Lookup

LEMMA HeadFits ==
  ASSUME LoopTyped, core # <<>>, AllFit(core), Deed(Event) \in Deeds
  PROVE  Fits(Deed(Event), Event.index)
<1>1. Event = core[1] /\ Event \in CoreEvent /\ 1 \in 1..Len(core)
  BY DEF LoopTyped, Event
<1>2. Event.index \in Nat
  BY <1>1 DEF CoreEvent
<1>3. Allowed(core, 1 - 1, Deed(Event), Event.index)
  BY <1>1, <1>2 DEF AllFit
<1>4. 1..(1 - 1) = {}
  OBVIOUS
<1> QED
  BY <1>3, <1>4 DEF Allowed

LEMMA TextTyped ==
  ASSUME LoopTyped, core # <<>>
  PROVE  /\ Event \in CoreEvent /\ Event.index \in Nat /\ Event.delta \in Pieces
         /\ Text(Event.index) \in Pieces /\ Lookup(toolCallArgs, Event.index, <<>>) \in Pieces
         /\ At(Event.index) \in Nat
         /\ Has(Event.index) => At(Event.index) = outputIndexes[Event.index]
                                /\ At(Event.index) \in 0..(Len(output) - 1)
         /\ Len(output) \in Nat /\ <<>> \in Pieces
<1>1. <<>> \in Pieces /\ 0 \in Nat
  BY DEF Pieces
<1>2. Event \in CoreEvent
  BY DEF LoopTyped, Event
<1>3. Text(Event.index) \in Pieces /\ Lookup(toolCallArgs, Event.index, <<>>) \in Pieces
  BY <1>1, LookupTyped DEF LoopTyped, Text
<1>4. At(Event.index) \in Nat
  BY <1>1, LookupTyped DEF LoopTyped, At
<1> QED
  BY <1>1, <1>2, <1>3, <1>4 DEF LoopTyped, CoreEvent, At, Lookup, Has

LEMMA WiresTyped ==
  ASSUME NEW u \in AWire, NEW v \in AWire, NEW w \in AWire
  PROVE  <<u>> \in Seq(AWire) /\ <<u, v>> \in Seq(AWire) /\ <<u, v, w>> \in Seq(AWire)
  OBVIOUS

LEMMA WireTyped ==
  ASSUME NEW event \in WireNames, NEW at \in Nat, NEW text \in Pieces
  PROVE  /\ Wire(event, at, text) \in AWire /\ Wire(event, at, text).event = event
         /\ Wire(event, at, text).at = at /\ Wire(event, at, text).text = text
  BY DEF Wire, AWire

LEMMA Names ==
  /\ CoreTypes \subseteq WireNames
  /\ "item_added" \in WireNames /\ "part_added" \in WireNames /\ "text_delta" \in WireNames
  /\ "args_delta" \in WireNames /\ "args_done" \in WireNames /\ "item_done" \in WireNames
  /\ "part_done" \in WireNames /\ "text_done" \in WireNames
  BY DEF WireNames, CoreTypes, AboutItems

\* What is written in one step names one output position.
LEMMA WrittenTyped ==
  ASSUME NEW at \in Nat, NEW d \in WireNames, NEW e \in WireNames, NEW f \in WireNames,
         NEW x \in Pieces, NEW y \in Pieces, NEW z \in Pieces
  PROVE  /\ <<Wire(d, at, x)>> \in Seq(AWire)
         /\ <<Wire(d, at, x), Wire(e, at, y)>> \in Seq(AWire)
         /\ <<Wire(d, at, x), Wire(e, at, y), Wire(f, at, z)>> \in Seq(AWire)
  BY WireTyped, WiresTyped

LEMMA ItemTyped ==
  ASSUME NEW type \in ItemTypes
  PROVE  /\ Item(type) \in AnItem /\ Item(type).type = type /\ Item(type).status = "in_progress"
         /\ Item(type).text = <<>>
  BY DEF Item, AnItem, Pieces

\* What a step does to the items: their places and types stay, and a new one has its place
\* behind them.
OutputKept ==
    /\ output' \in Seq(AnItem) /\ Len(output') >= Len(output)
    /\ \A n \in 1..Len(output) : output'[n].type = output[n].type
    /\ \A i \in DOMAIN outputIndexes' :
         \/ i \in DOMAIN outputIndexes /\ outputIndexes'[i] = outputIndexes[i]
         \/ i = Event.index /\ outputIndexes'[i] = Len(output) /\ Len(output') = Len(output) + 1

LEMMA OutputKeptTyped ==
  ASSUME LoopTyped, OutputKept, outputIndexes' \in Partial(Nat)
  PROVE  \A i \in DOMAIN outputIndexes' : outputIndexes'[i] \in 0..(Len(output') - 1)
<1>1. Len(output) \in Nat /\ Len(output') \in Nat
  BY ElementsOf DEF LoopTyped, OutputKept
<1> QED
  BY <1>1 DEF LoopTyped, OutputKept

\* A new item, and nothing else.
LEMMA NewItem ==
  ASSUME LoopTyped, NEW type \in ItemTypes, NEW i \in Nat, i = Event.index, output' = Append(output, Item(type)),
         outputIndexes' = With(outputIndexes, i, Len(output))
  PROVE  /\ OutputKept /\ outputIndexes' \in Partial(Nat)
         /\ DOMAIN outputIndexes' = DOMAIN outputIndexes \cup {i} /\ outputIndexes'[i] = Len(output)
         /\ \A j \in DOMAIN outputIndexes : j # i => outputIndexes'[j] = outputIndexes[j]
         /\ Len(output') = Len(output) + 1
         /\ \A n \in 1..Len(output) : output'[n] = output[n]
         /\ output'[Len(output) + 1] = Item(type)
<1>1. Len(output) \in Nat /\ output \in Seq(AnItem)
  BY ElementsOf DEF LoopTyped
<1>2. Item(type) \in AnItem
  BY ItemTyped
<1>3. /\ output' \in Seq(AnItem) /\ Len(output') = Len(output) + 1
      /\ \A n \in 1..Len(output) : output'[n] = output[n]
      /\ output'[Len(output) + 1] = Item(type)
  BY <1>1, <1>2, Appended
<1>4. /\ outputIndexes' \in Partial(Nat)
      /\ DOMAIN outputIndexes' = DOMAIN outputIndexes \cup {i} /\ outputIndexes'[i] = Len(output)
      /\ \A j \in DOMAIN outputIndexes : j # i => outputIndexes'[j] = outputIndexes[j]
  <2>1. outputIndexes \in Partial(Nat)
    BY DEF LoopTyped
  <2>2. outputIndexes' \in Partial(Nat)
    BY <1>1, <2>1, PartialWith
  <2> QED
    BY <2>2 DEF With
<1> QED
  BY <1>1, <1>3, <1>4 DEF OutputKept

\* An item of a block is done.
LEMMA ItemDone ==
  ASSUME LoopTyped, core # <<>>, Has(Event.index), NEW type, NEW text \in Pieces,
         output' = Completed(output, At(Event.index), type, text)
  PROVE  LET at == outputIndexes[Event.index] IN
         /\ At(Event.index) = at
         /\ output' \in Seq(AnItem) /\ Len(output') = Len(output)
         /\ \A n \in 1..Len(output) : n # at + 1 => output'[n] = output[n]
         /\ \A n \in 1..Len(output) : output'[n].type = output[n].type
         /\ output'[at + 1].status = "completed"
         /\ output'[at + 1].text = IF output[at + 1].type = type THEN text ELSE output[at + 1].text
         /\ output'[at + 1].text \in Pieces
<1>1. /\ Event \in CoreEvent /\ At(Event.index) = outputIndexes[Event.index]
      /\ At(Event.index) \in 0..(Len(output) - 1) /\ output \in Seq(AnItem)
  BY TextTyped DEF LoopTyped
<1> DEFINE at == At(Event.index)
<1> HIDE DEF at
<1>2. LET done == Completed(output, at, type, text) IN
         /\ done \in Seq(AnItem) /\ Len(done) = Len(output)
         /\ \A n \in 1..Len(output) : n # at + 1 => done[n] = output[n]
         /\ done[at + 1].type = output[at + 1].type
         /\ done[at + 1].status = "completed"
         /\ done[at + 1].text = IF output[at + 1].type = type THEN text ELSE output[at + 1].text
         /\ \A n \in 1..Len(output) : done[n].type = output[n].type
  BY <1>1, CompletedIs DEF at
<1>3. at + 1 \in 1..Len(output') /\ output' \in Seq(AnItem)
  BY <1>1, <1>2 DEF at
<1>4. output'[at + 1].text \in Pieces
  <2>1. output'[at + 1] \in AnItem
    BY <1>3, ElementsOf
  <2> QED
    BY <2>1 DEF AnItem
<1> QED
  BY <1>1, <1>2, <1>4 DEF at

LEMMA OutputSame ==
  ASSUME LoopTyped, output' = output, outputIndexes' = outputIndexes
  PROVE  OutputKept /\ outputIndexes' \in Partial(Nat)
<1>1. output \in Seq(AnItem) /\ outputIndexes \in Partial(Nat)
  BY DEF LoopTyped
<1>2. Len(output) \in Nat
  BY <1>1, ElementsOf
<1> QED
  BY <1>1, <1>2 DEF OutputKept

LEMMA OutputOfDone ==
  ASSUME LoopTyped, core # <<>>, Has(Event.index), NEW type, NEW text \in Pieces,
         output' = Completed(output, At(Event.index), type, text),
         outputIndexes' = outputIndexes
  PROVE  /\ OutputKept /\ outputIndexes' \in Partial(Nat)
         /\ output'[At(Event.index) + 1].text \in Pieces
<1>1. /\ output' \in Seq(AnItem) /\ Len(output') = Len(output)
      /\ \A n \in 1..Len(output) : output'[n].type = output[n].type
      /\ output'[At(Event.index) + 1].text \in Pieces
  BY ItemDone
<1>2. Len(output) \in Nat /\ outputIndexes \in Partial(Nat)
  BY ElementsOf DEF LoopTyped
<1> QED
  BY <1>1, <1>2 DEF OutputKept

LEMMA TypedFrom ==
  ASSUME LoopTyped, core # <<>>, core' = Tail(core), OutputKept, outputIndexes' \in Partial(Nat),
         contentText' \in Partial(Pieces), toolCallArgs' \in Partial(Pieces),
         NEW events \in Seq(AWire), Send(events)
  PROVE  LoopTyped'
<1>1. sent' \in Seq(AWire)
  BY SentJoined DEF Send, LoopTyped
<1>2. core' \in Seq(CoreEvent) /\ output' \in Seq(AnItem)
  BY QueueTail DEF OutputKept
<1> QED
  BY <1>1, <1>2, OutputKeptTyped DEF LoopTyped

LEMMA MapsTyped ==
  ASSUME LoopTyped
  PROVE  contentText \in Partial(Pieces) /\ toolCallArgs \in Partial(Pieces)
  BY DEF LoopTyped

LEMMA NothingSent == sent' = sent /\ LoopTyped => Send(<<>>) /\ <<>> \in Seq(AWire)
  BY DEF Send, LoopTyped

\* The fields of Completed's item are those of the item; its place is known.
LEMMA LoopTypedOn ==
  ASSUME LoopTyped, AllFit(core), Translate
  PROVE  LoopTyped' /\ OutputKept /\ core # <<>> /\ core' = Tail(core)
<1>0. core # <<>> /\ core' = Tail(core)
  BY DEF Translate, ResponseBegins, ResponseEnds, Lifecycle, StartReasoning, StartText,
         StartToolUse, ReasoningDelta, FirstTextDelta, TextDelta, ToolCallArgsDelta,
         ToolCallArgsDone, ReasoningDone, TextBlockDone, ToolBlockDone, Ignored, Consume
<1> DEFINE i == Event.index
<1>1. /\ Event \in CoreEvent /\ i \in Nat /\ Event.delta \in Pieces
      /\ Text(i) \in Pieces /\ Lookup(toolCallArgs, i, <<>>) \in Pieces
      /\ At(i) \in Nat /\ Len(output) \in Nat /\ <<>> \in Pieces
  BY <1>0, TextTyped
<1>2. ASSUME NEW d \in Pieces, NEW e \in Pieces PROVE d \o e \in Pieces
  BY DEF Pieces
<1> HIDE DEF i
<1>3. CASE ResponseBegins \/ ResponseEnds
  <2>1. PICK type \in CoreTypes : Send(<<Wire(type, Len(output), <<>>)>>) /\ UNCHANGED <<output, maps>>
    BY <1>3 DEF ResponseBegins, ResponseEnds, Lifecycle, CoreTypes
  <2>2. type \in WireNames
    BY Names
  <2>3. <<Wire(type, Len(output), <<>>)>> \in Seq(AWire)
    BY <1>1, <2>2, Names, WrittenTyped
  <2> QED
    BY <1>0, <2>1, <2>3, OutputSame, MapsTyped, TypedFrom DEF maps
<1>4. CASE StartReasoning
  <2>1. /\ contentText' = With(contentText, i, <<>>) /\ toolCallArgs' = toolCallArgs
        /\ outputIndexes' = With(outputIndexes, i, Len(output))
        /\ output' = Append(output, Item("reasoning"))
        /\ Send(<<Wire("item_added", Len(output), <<>>), Wire("part_added", Len(output), <<>>)>>)
    BY <1>4 DEF StartReasoning, i
  <2>2. <<Wire("item_added", Len(output), <<>>), Wire("part_added", Len(output), <<>>)>> \in Seq(AWire)
    BY <1>1, Names, WrittenTyped
  <2>3. contentText' \in Partial(Pieces) /\ toolCallArgs' \in Partial(Pieces)
    BY <1>1, <2>1, MapsTyped, PartialWith
  <2>4. OutputKept /\ outputIndexes' \in Partial(Nat)
    BY <1>1, <2>1, NewItem DEF ItemTypes, i
  <2> QED
    BY <1>0, <2>1, <2>2, <2>3, <2>4, TypedFrom
<1>5. CASE StartText
  <2>1. /\ contentText' = With(contentText, i, <<>>) /\ toolCallArgs' = toolCallArgs
        /\ outputIndexes' = outputIndexes /\ output' = output /\ sent' = sent
    BY <1>5 DEF StartText, i
  <2>2. contentText' \in Partial(Pieces) /\ toolCallArgs' \in Partial(Pieces)
    BY <1>1, <2>1, MapsTyped, PartialWith
  <2> QED
    BY <1>0, <2>1, <2>2, OutputSame, NothingSent, TypedFrom
<1>6. CASE StartToolUse
  <2>1. /\ contentText' = contentText /\ toolCallArgs' = toolCallArgs
        /\ outputIndexes' = With(outputIndexes, i, Len(output))
        /\ output' = Append(output, Item("function_call"))
        /\ Send(<<Wire("item_added", Len(output), <<>>)>>)
    BY <1>6 DEF StartToolUse, i
  <2>2. <<Wire("item_added", Len(output), <<>>)>> \in Seq(AWire)
    BY <1>1, Names, WrittenTyped
  <2>3. OutputKept /\ outputIndexes' \in Partial(Nat)
    BY <1>1, <2>1, NewItem DEF ItemTypes, i
  <2> QED
    BY <1>0, <2>1, <2>2, <2>3, MapsTyped, TypedFrom
<1>7. CASE ReasoningDelta \/ TextDelta
  <2>1. /\ contentText' = With(contentText, i, Text(i) \o Event.delta)
        /\ toolCallArgs' = toolCallArgs /\ outputIndexes' = outputIndexes /\ output' = output
        /\ Send(<<Wire("text_delta", At(i), Event.delta)>>)
    BY <1>7 DEF ReasoningDelta, TextDelta, Grown, i
  <2>2. <<Wire("text_delta", At(i), Event.delta)>> \in Seq(AWire)
    BY <1>1, Names, WrittenTyped
  <2>3. contentText' \in Partial(Pieces) /\ toolCallArgs' \in Partial(Pieces)
    BY <1>1, <1>2, <2>1, MapsTyped, PartialWith
  <2> QED
    BY <1>0, <2>1, <2>2, <2>3, OutputSame, TypedFrom
<1>8. CASE FirstTextDelta
  <2>1. /\ contentText' = With(contentText, i, Text(i) \o Event.delta)
        /\ toolCallArgs' = toolCallArgs
        /\ outputIndexes' = With(outputIndexes, i, Len(output))
        /\ output' = Append(output, Item("message"))
        /\ Send(<<Wire("item_added", Len(output), <<>>), Wire("part_added", Len(output), <<>>),
                  Wire("text_delta", Len(output), Event.delta)>>)
    BY <1>8 DEF FirstTextDelta, Grown, i
  <2>2. <<Wire("item_added", Len(output), <<>>), Wire("part_added", Len(output), <<>>),
          Wire("text_delta", Len(output), Event.delta)>> \in Seq(AWire)
    BY <1>1, Names, WrittenTyped
  <2>3. contentText' \in Partial(Pieces) /\ toolCallArgs' \in Partial(Pieces)
    BY <1>1, <1>2, <2>1, MapsTyped, PartialWith
  <2>4. OutputKept /\ outputIndexes' \in Partial(Nat)
    BY <1>1, <2>1, NewItem DEF ItemTypes, i
  <2> QED
    BY <1>0, <2>1, <2>2, <2>3, <2>4, TypedFrom
<1>9. CASE ToolCallArgsDelta
  <2>1. /\ toolCallArgs' = With(toolCallArgs, i, Lookup(toolCallArgs, i, <<>>) \o Event.delta)
        /\ contentText' = contentText /\ outputIndexes' = outputIndexes /\ output' = output
        /\ Send(<<Wire("args_delta", At(i), Event.delta)>>)
    BY <1>9 DEF ToolCallArgsDelta, i
  <2>2. <<Wire("args_delta", At(i), Event.delta)>> \in Seq(AWire)
    BY <1>1, Names, WrittenTyped
  <2>3. contentText' \in Partial(Pieces) /\ toolCallArgs' \in Partial(Pieces)
    BY <1>1, <1>2, <2>1, MapsTyped, PartialWith
  <2> QED
    BY <1>0, <2>1, <2>2, <2>3, OutputSame, TypedFrom
\* A call is finished at the place of its block.
<1>10. ASSUME NEW args \in Pieces, FinishCall(args), Has(i), toolCallArgs' \in Partial(Pieces),
              contentText' = contentText, outputIndexes' = outputIndexes
       PROVE  LoopTyped' /\ OutputKept
  <2>1. output' = Completed(output, At(i), "function_call", args)
    BY <1>10 DEF FinishCall, Has, i
  <2>2. /\ OutputKept /\ outputIndexes' \in Partial(Nat)
        /\ output'[At(i) + 1].text \in Pieces
    BY <1>0, <1>10, <2>1, OutputOfDone DEF i
  <2>3. Send(<<Wire("args_done", At(i), args), Wire("item_done", At(i), output'[At(i) + 1].text)>>)
    BY <1>10 DEF FinishCall, i
  <2>4. <<Wire("args_done", At(i), args), Wire("item_done", At(i), output'[At(i) + 1].text)>> \in Seq(AWire)
    BY <1>1, <2>2, Names, WrittenTyped
  <2> QED
    BY <1>0, <1>10, <2>2, <2>3, <2>4, MapsTyped, TypedFrom
<1>11. CASE ToolCallArgsDone
  <2>1. CASE i \in toolCallFinalized
    <3>1. UNCHANGED <<output, sent, contentText, toolCallArgs, outputIndexes>>
      BY <1>11, <2>1 DEF ToolCallArgsDone, i
    <3> QED
      BY <1>0, <3>1, OutputSame, MapsTyped, NothingSent, TypedFrom
  <2>2. CASE i \notin toolCallFinalized
    <3> DEFINE args == IF Event.delta # <<>> THEN Event.delta ELSE Lookup(toolCallArgs, i, <<>>)
    <3>1. FinishCall(args) /\ UNCHANGED <<contentText, toolCallArgs, outputIndexes>>
      BY <1>11, <2>2 DEF ToolCallArgsDone, i
    <3>2. Has(i)
      <4>1. Deed(Event) = "args_done" /\ Deed(Event) \in Deeds
        BY <1>11 DEF ToolCallArgsDone, Consume, Deed, Deeds
      <4> QED
        BY <1>0, <4>1, HeadFits DEF Fits, i
    <3>3. args \in Pieces
      BY <1>1
    <3> HIDE DEF args
    <3> QED
      BY <1>0, <1>10, <3>1, <3>2, <3>3, MapsTyped
  <2> QED
    BY <2>1, <2>2
<1>12. CASE ToolBlockDone
  <2>1. /\ FinishCall(Lookup(toolCallArgs, i, <<>>)) /\ Has(i)
        /\ toolCallArgs' = Without(toolCallArgs, i)
        /\ UNCHANGED <<contentText, outputIndexes>>
    BY <1>12 DEF ToolBlockDone, Has, i
  <2>2. toolCallArgs' \in Partial(Pieces)
    BY <2>1, MapsTyped, PartialWithout
  <2> QED
    BY <1>0, <1>1, <1>10, <2>1, <2>2
<1>13. CASE ReasoningDone
  <2>1. /\ output' = IF Has(i) THEN Completed(output, At(i), "reasoning", Text(i)) ELSE output
        /\ Send(<<Wire("part_done", At(i), Text(i))>>)
        /\ contentText' = Without(contentText, i) /\ outputIndexes' = Without(outputIndexes, i)
        /\ toolCallArgs' = toolCallArgs
    BY <1>13 DEF ReasoningDone, Has, i
  <2>2. contentText' \in Partial(Pieces) /\ toolCallArgs' \in Partial(Pieces)
        /\ outputIndexes' \in Partial(Nat)
    BY <2>1, MapsTyped, PartialWithout DEF LoopTyped
  <2>3. <<Wire("part_done", At(i), Text(i))>> \in Seq(AWire)
    BY <1>1, Names, WrittenTyped
  <2>4. output' \in Seq(AnItem) /\ Len(output') = Len(output)
        /\ \A n \in 1..Len(output) : output'[n].type = output[n].type
    <3>1. CASE Has(i)
      BY <1>0, <1>1, <2>1, <3>1, ItemDone DEF i
    <3>2. CASE ~ Has(i)
      BY <2>1, <3>2 DEF LoopTyped
    <3> QED
      BY <3>1, <3>2
  <2>5. OutputKept
    BY <1>1, <2>1, <2>4 DEF OutputKept, Without
  <2> QED
    BY <1>0, <2>1, <2>2, <2>3, <2>5, TypedFrom
<1>14. CASE TextBlockDone
  <2> DEFINE at == IF Has(i) THEN At(i) ELSE Len(output)
             items == IF Has(i) THEN output ELSE Append(output, Item("message"))
  <2>1. /\ outputIndexes' = With(outputIndexes, i, at)
        /\ output' = Completed(items, at, "message", Text(i))
        /\ Send(<<Wire("text_done", at, Text(i)), Wire("part_done", at, <<>>),
                  Wire("item_done", at, output'[at + 1].text)>>)
        /\ contentText' = Without(contentText, i) /\ toolCallArgs' = toolCallArgs
    BY <1>14 DEF TextBlockDone, Has, i
  <2>2. /\ items \in Seq(AnItem) /\ at \in Nat /\ at \in 0..(Len(items) - 1)
        /\ \A n \in 1..Len(output) : items[n].type = output[n].type
        /\ \/ Has(i) /\ Len(items) = Len(output)
           \/ ~ Has(i) /\ Len(items) = Len(output) + 1
    <3>1. Item("message") \in AnItem /\ output \in Seq(AnItem)
      BY ItemTyped DEF ItemTypes, LoopTyped
    <3>2. CASE Has(i)
      BY <1>0, <1>1, <3>1, <3>2, TextTyped DEF i
    <3>3. CASE ~ Has(i)
      <4>1. /\ items \in Seq(AnItem) /\ Len(items) = Len(output) + 1
            /\ \A n \in 1..Len(output) : items[n] = output[n]
        BY <3>1, <3>3, Appended
      <4> QED
        BY <1>1, <3>3, <4>1
    <3> QED
      BY <3>2, <3>3
  <2>3. at # Len(output) => Has(i) /\ at = outputIndexes[i]
    BY <1>0, TextTyped DEF i
  <2> HIDE DEF at, items
  <2>4. /\ output' \in Seq(AnItem) /\ Len(output') = Len(items)
        /\ \A n \in 1..Len(items) : output'[n].type = items[n].type
    BY <1>1, <2>1, <2>2, CompletedIs
  <2>5. output'[at + 1].text \in Pieces
    <3>1. at + 1 \in 1..Len(output')
      BY <2>2, <2>4, ElementsOf
    <3>2. output'[at + 1] \in AnItem
      BY <2>4, <3>1, ElementsOf
    <3> QED
      BY <3>2 DEF AnItem
  <2>6. <<Wire("text_done", at, Text(i)), Wire("part_done", at, <<>>),
          Wire("item_done", at, output'[at + 1].text)>> \in Seq(AWire)
    BY <1>1, <2>2, <2>5, Names, WrittenTyped
  <2>7. contentText' \in Partial(Pieces) /\ toolCallArgs' \in Partial(Pieces)
        /\ outputIndexes' \in Partial(Nat)
    BY <1>1, <2>1, <2>2, MapsTyped, PartialWith, PartialWithout DEF LoopTyped
  <2>8. OutputKept
    <3>1. /\ Len(output') >= Len(output)
          /\ \A n \in 1..Len(output) : output'[n].type = output[n].type
      BY <1>1, <2>2, <2>4
    <3>2. ASSUME NEW j \in DOMAIN outputIndexes'
          PROVE  \/ j \in DOMAIN outputIndexes /\ outputIndexes'[j] = outputIndexes[j]
                 \/ /\ j = Event.index /\ outputIndexes'[j] = Len(output)
                    /\ Len(output') = Len(output) + 1
      <4>1. CASE j = i
        <5>1. outputIndexes'[j] = at
          BY <2>1, <4>1 DEF With
        <5>2. CASE Has(i)
          BY <1>0, <2>1, <4>1, <5>1, <5>2, TextTyped DEF at, i, Has
        <5>3. CASE ~ Has(i)
          BY <2>2, <2>4, <4>1, <5>1, <5>3 DEF at, i
        <5> QED
          BY <5>2, <5>3
      <4>2. CASE j # i
        BY <2>1, <4>2 DEF With
      <4> QED
        BY <4>1, <4>2
    <3> QED
      BY <2>4, <3>1, <3>2 DEF OutputKept
  <2> QED
    BY <1>0, <2>1, <2>6, <2>7, <2>8, TypedFrom
<1>15. CASE Ignored
  <2>1. UNCHANGED <<output, sent, contentText, toolCallArgs, outputIndexes>>
    BY <1>15 DEF Ignored, maps
  <2> QED
    BY <1>0, <2>1, OutputSame, MapsTyped, NothingSent, TypedFrom
<1> QED
  BY <1>0, <1>3, <1>4, <1>5, <1>6, <1>7, <1>8, <1>9, <1>11, <1>12, <1>13, <1>14, <1>15 DEF Translate

-----------------------------------------------------------------------------
(***************************************************************************)
(* The loop: what it knows of its blocks and has written stays in order.   *)
(***************************************************************************)

Struct ==
    /\ \A i, j \in DOMAIN outputIndexes : outputIndexes[i] = outputIndexes[j] => i = j
    /\ reasonIndexes \subseteq DOMAIN outputIndexes \cap DOMAIN contentText
    /\ \A i \in reasonIndexes : ~ IsMessage(i)
    /\ \A i \in DOMAIN contentText : ~ Has(i) => contentText[i] = <<>>
    /\ \A at : SentIn(sent, "text_delta", at) \/ SentIn(sent, "item_done", at) => at < Len(output)

LEMMA WireIs == \A v, at, w : Wire(v, at, w).event = v /\ Wire(v, at, w).at = at
  BY DEF Wire

LEMMA SentWire ==
  ASSUME NEW at, NEW d, NEW x, NEW event, NEW p
  PROVE  SentIn(<<Wire(d, at, x)>>, event, p) <=> p = at /\ event = d
  BY WireIs, SentOne

LEMMA SentWires ==
  ASSUME NEW at, NEW d, NEW e, NEW x, NEW y, NEW event, NEW p
  PROVE  SentIn(<<Wire(d, at, x), Wire(e, at, y)>>, event, p) <=> p = at /\ event \in {d, e}
  BY WireIs, SentTwo

LEMMA SentMoreWires ==
  ASSUME NEW at, NEW d, NEW e, NEW f, NEW x, NEW y, NEW z, NEW event, NEW p
  PROVE  SentIn(<<Wire(d, at, x), Wire(e, at, y), Wire(f, at, z)>>, event, p)
         <=> p = at /\ event \in {d, e, f}
  BY WireIs, SentThree

\* The deltas of a text and the end of an item are written of the item of the block,
\* or of the item that is new.
Placed(events) ==
    \A at :
        /\ SentIn(events, "item_done", at) \/ SentIn(events, "text_delta", at) =>
             \/ Has(Event.index) /\ at = outputIndexes[Event.index]
             \/ at = Len(output) /\ Len(output') = Len(output) + 1
        /\ SentIn(events, "item_done", at) => Deed(Event) \in {"args_done", "block_done"}
        /\ SentIn(events, "text_delta", at) => Deed(Event) = "text_delta"
Writes == \E events \in Seq(AWire) : Send(events) /\ Placed(events)

LEMMA NothingPlaced == Placed(<<>>)
  BY DEF Placed, SentIn

LEMMA OnePlaced ==
  ASSUME NEW d, NEW at, NEW x, d # "item_done",
         d = "text_delta" =>
           /\ Deed(Event) = "text_delta"
           /\ \/ Has(Event.index) /\ at = outputIndexes[Event.index]
              \/ at = Len(output) /\ Len(output') = Len(output) + 1
  PROVE  Placed(<<Wire(d, at, x)>>)
<1>1. \A event, p : SentIn(<<Wire(d, at, x)>>, event, p) <=> p = at /\ event = d
  BY SentWire
<1> QED
  BY <1>1 DEF Placed

\* What is written last ends the item, or goes on with it.
LEMMA TwoPlaced ==
  ASSUME NEW d, NEW f, NEW at, NEW x, NEW y, d # "item_done", d # "text_delta",
         f = "item_done" => Deed(Event) \in {"args_done", "block_done"},
         f = "text_delta" => Deed(Event) = "text_delta",
         \/ Has(Event.index) /\ at = outputIndexes[Event.index]
         \/ at = Len(output) /\ Len(output') = Len(output) + 1
  PROVE  Placed(<<Wire(d, at, x), Wire(f, at, y)>>)
<1>1. \A event, p : SentIn(<<Wire(d, at, x), Wire(f, at, y)>>, event, p) <=> p = at /\ event \in {d, f}
  BY SentWires
<1> QED
  BY <1>1 DEF Placed

LEMMA ThreePlaced ==
  ASSUME NEW d, NEW e, NEW f, NEW at, NEW x, NEW y, NEW z, d # "item_done",
         d # "text_delta", e # "text_delta", e # "item_done",
         f = "item_done" => Deed(Event) \in {"args_done", "block_done"},
         f = "text_delta" => Deed(Event) = "text_delta",
         \/ Has(Event.index) /\ at = outputIndexes[Event.index]
         \/ at = Len(output) /\ Len(output') = Len(output) + 1
  PROVE  Placed(<<Wire(d, at, x), Wire(e, at, y), Wire(f, at, z)>>)
<1>1. \A event, p : SentIn(<<Wire(d, at, x), Wire(e, at, y), Wire(f, at, z)>>, event, p)
                     <=> p = at /\ event \in {d, e, f}
  BY SentMoreWires
<1> QED
  BY <1>1 DEF Placed

LEMMA LengthsAre ==
  ASSUME LoopTyped
  PROVE  Len(output) \in Nat /\ output \in Seq(AnItem)
  BY ElementsOf DEF LoopTyped

LEMMA OneLonger ==
  ASSUME LoopTyped, NEW type \in ItemTypes, output' = Append(output, Item(type))
  PROVE  Len(output') = Len(output) + 1
  BY LengthsAre, ItemTyped, Appended

\* A step's conditions on the queue, and what it is about.
LEMMA DeedOf ==
  ASSUME NEW type, Consume(type), type # "block_started"
  PROVE  core # <<>> /\ core' = Tail(core) /\ Deed(Event) = type
  BY DEF Consume, Deed

LEMMA StartOf ==
  ASSUME Consume("block_started")
  PROVE  core # <<>> /\ core' = Tail(core) /\ Deed(Event) = Event.block
  BY DEF Consume, Deed

LEMMA EventsPlaced ==
  ASSUME LoopTyped, AllFit(core), Struct, Translate
  PROVE  Writes
<1>0. core # <<>> /\ core' = Tail(core) /\ LoopTyped' /\ OutputKept
  BY LoopTypedOn
<1> DEFINE i == Event.index
<1>1. /\ Event \in CoreEvent /\ i \in Nat /\ Event.delta \in Pieces
      /\ Text(i) \in Pieces /\ Lookup(toolCallArgs, i, <<>>) \in Pieces
      /\ At(i) \in Nat /\ Len(output) \in Nat /\ <<>> \in Pieces
  BY <1>0, TextTyped
<1>2. Has(i) => At(i) = outputIndexes[i]
  BY <1>0, TextTyped
<1> HIDE DEF i
<1>3. CASE ResponseBegins \/ ResponseEnds
  <2>1. PICK type \in CoreTypes : Send(<<Wire(type, Len(output), <<>>)>>) /\ type \notin {"item_done", "text_delta"}
    BY <1>3 DEF ResponseBegins, ResponseEnds, Lifecycle, CoreTypes
  <2>2. <<Wire(type, Len(output), <<>>)>> \in Seq(AWire)
    BY <1>1, Names, WrittenTyped
  <2>3. Placed(<<Wire(type, Len(output), <<>>)>>)
    BY <2>1, OnePlaced
  <2> QED
    BY <2>1, <2>2, <2>3 DEF Writes
<1>4. CASE StartReasoning
  <2>1. /\ output' = Append(output, Item("reasoning"))
        /\ Send(<<Wire("item_added", Len(output), <<>>), Wire("part_added", Len(output), <<>>)>>)
    BY <1>4 DEF StartReasoning
  <2>2. <<Wire("item_added", Len(output), <<>>), Wire("part_added", Len(output), <<>>)>> \in Seq(AWire)
    BY <1>1, Names, WrittenTyped
  <2>3. Len(output') = Len(output) + 1
    BY <2>1, OneLonger DEF ItemTypes
  <2>4. Placed(<<Wire("item_added", Len(output), <<>>), Wire("part_added", Len(output), <<>>)>>)
    BY <2>3, TwoPlaced
  <2> QED
    BY <2>1, <2>2, <2>4 DEF Writes
<1>5. CASE StartText \/ Ignored
  <2>1. sent' = sent
    BY <1>5 DEF StartText, Ignored
  <2> QED
    BY <2>1, NothingSent, NothingPlaced DEF Writes
<1>6. CASE StartToolUse
  <2>1. Send(<<Wire("item_added", Len(output), <<>>)>>)
    BY <1>6 DEF StartToolUse
  <2>2. <<Wire("item_added", Len(output), <<>>)>> \in Seq(AWire)
    BY <1>1, Names, WrittenTyped
  <2>3. Placed(<<Wire("item_added", Len(output), <<>>)>>)
    BY OnePlaced
  <2> QED
    BY <2>1, <2>2, <2>3 DEF Writes
<1>7. CASE ReasoningDelta \/ TextDelta
  <2>1. /\ Send(<<Wire("text_delta", At(i), Event.delta)>>) /\ Has(i)
        /\ Deed(Event) = "text_delta"
    BY <1>7, DeedOf DEF ReasoningDelta, TextDelta, i, Struct, Has
  <2>2. <<Wire("text_delta", At(i), Event.delta)>> \in Seq(AWire)
    BY <1>1, Names, WrittenTyped
  <2>3. Placed(<<Wire("text_delta", At(i), Event.delta)>>)
    BY <1>2, <2>1, OnePlaced DEF i
  <2> QED
    BY <2>1, <2>2, <2>3 DEF Writes
<1>8. CASE FirstTextDelta
  <2> DEFINE ev == <<Wire("item_added", Len(output), <<>>), Wire("part_added", Len(output), <<>>),
                     Wire("text_delta", Len(output), Event.delta)>>
  <2>1. output' = Append(output, Item("message")) /\ Send(ev) /\ Deed(Event) = "text_delta"
    BY <1>8, DeedOf DEF FirstTextDelta
  <2>2. ev \in Seq(AWire)
    BY <1>1, Names, WrittenTyped
  <2>3. Len(output') = Len(output) + 1
    BY <2>1, OneLonger DEF ItemTypes
  <2>4. Placed(ev)
    BY <2>1, <2>3, ThreePlaced
  <2> QED
    BY <2>1, <2>2, <2>4 DEF Writes
<1>9. CASE ToolCallArgsDelta
  <2>1. Send(<<Wire("args_delta", At(i), Event.delta)>>)
    BY <1>9 DEF ToolCallArgsDelta, i
  <2>2. <<Wire("args_delta", At(i), Event.delta)>> \in Seq(AWire)
    BY <1>1, Names, WrittenTyped
  <2>3. Placed(<<Wire("args_delta", At(i), Event.delta)>>)
    BY OnePlaced
  <2> QED
    BY <2>1, <2>2, <2>3 DEF Writes
<1>10. ASSUME NEW args \in Pieces, FinishCall(args), Has(i), Deed(Event) \in {"args_done", "block_done"}
       PROVE  Writes
  <2> DEFINE ev == <<Wire("args_done", At(i), args), Wire("item_done", At(i), output'[At(i) + 1].text)>>
  <2>1. output' = Completed(output, At(i), "function_call", args) /\ Send(ev)
    BY <1>10 DEF FinishCall, Has, i
  <2>2. output'[At(i) + 1].text \in Pieces
    BY <1>0, <1>2, <1>10, <2>1, ItemDone DEF i
  <2>3. ev \in Seq(AWire)
    BY <1>1, <2>2, Names, WrittenTyped
  <2>4. Placed(ev)
    BY <1>2, <1>10, TwoPlaced DEF i
  <2> HIDE DEF ev
  <2> QED
    BY <2>1, <2>3, <2>4 DEF Writes
<1>11. CASE ToolCallArgsDone
  <2>0. Deed(Event) = "args_done"
    BY <1>11, DeedOf DEF ToolCallArgsDone
  <2>1. CASE i \in toolCallFinalized
    <3>1. sent' = sent
      BY <1>11, <2>1 DEF ToolCallArgsDone, i
    <3> QED
      BY <3>1, NothingSent, NothingPlaced DEF Writes
  <2>2. CASE i \notin toolCallFinalized
    <3> DEFINE args == IF Event.delta # <<>> THEN Event.delta ELSE Lookup(toolCallArgs, i, <<>>)
    <3>1. FinishCall(args)
      BY <1>11, <2>2 DEF ToolCallArgsDone, i
    <3>2. Has(i)
      BY <1>0, <2>0, HeadFits DEF Fits, i, Deeds
    <3>3. args \in Pieces
      BY <1>1
    <3> HIDE DEF args
    <3> QED
      BY <1>10, <2>0, <3>1, <3>2, <3>3
  <2> QED
    BY <2>1, <2>2
<1>12. CASE ToolBlockDone
  <2>0. Deed(Event) = "block_done"
    BY <1>12, DeedOf DEF ToolBlockDone
  <2>1. FinishCall(Lookup(toolCallArgs, i, <<>>)) /\ Has(i)
    BY <1>12 DEF ToolBlockDone, Has, i
  <2> QED
    BY <1>1, <1>10, <2>0, <2>1
<1>13. CASE ReasoningDone
  <2>1. Send(<<Wire("part_done", At(i), Text(i))>>)
    BY <1>13 DEF ReasoningDone, i
  <2>2. <<Wire("part_done", At(i), Text(i))>> \in Seq(AWire)
    BY <1>1, Names, WrittenTyped
  <2>3. Placed(<<Wire("part_done", At(i), Text(i))>>)
    BY OnePlaced
  <2> QED
    BY <2>1, <2>2, <2>3 DEF Writes
<1>14. CASE TextBlockDone
  <2>0. Deed(Event) = "block_done"
    BY <1>14, DeedOf DEF TextBlockDone
  <2> DEFINE at == IF Has(i) THEN At(i) ELSE Len(output)
             items == IF Has(i) THEN output ELSE Append(output, Item("message"))
             ev == <<Wire("text_done", at, Text(i)), Wire("part_done", at, <<>>),
                     Wire("item_done", at, output'[at + 1].text)>>
  <2>1. output' = Completed(items, at, "message", Text(i)) /\ Send(ev)
    BY <1>14 DEF TextBlockDone, Has, i
  <2>2. /\ items \in Seq(AnItem) /\ at \in Nat /\ at \in 0..(Len(items) - 1)
        /\ ~ Has(i) => at = Len(output) /\ Len(items) = Len(output) + 1
    <3>1. Item("message") \in AnItem /\ output \in Seq(AnItem)
      BY ItemTyped, LengthsAre DEF ItemTypes
    <3>2. CASE Has(i)
      BY <1>0, <1>1, <3>1, <3>2, TextTyped DEF i
    <3>3. CASE ~ Has(i)
      <4>1. items \in Seq(AnItem) /\ Len(items) = Len(output) + 1
        BY <3>1, <3>3, Appended
      <4> QED
        BY <1>1, <3>3, <4>1
    <3> QED
      BY <3>2, <3>3
  <2>3. Has(i) => at = outputIndexes[i]
    BY <1>2
  <2> HIDE DEF at, items
  <2>4. output' \in Seq(AnItem) /\ Len(output') = Len(items)
    BY ONLY <1>1, <2>1, <2>2, CompletedIs
  <2>5. output'[at + 1].text \in Pieces
    <3>1. at + 1 \in 1..Len(output')
      BY <2>2, <2>4, ElementsOf
    <3>2. output'[at + 1] \in AnItem
      BY <2>4, <3>1, ElementsOf
    <3> QED
      BY <3>2 DEF AnItem
  <2>6. ev \in Seq(AWire)
    BY <1>1, <2>2, <2>5, Names, WrittenTyped
  <2>7. Placed(ev)
    BY <2>0, <2>2, <2>3, <2>4, ThreePlaced DEF i
  <2> HIDE DEF ev
  <2> QED
    BY <2>1, <2>6, <2>7 DEF Writes
<1> QED
  BY <1>3, <1>4, <1>5, <1>6, <1>7, <1>8, <1>9, <1>11, <1>12, <1>13, <1>14 DEF Translate

\* A block keeps its item and what is known of it.
SamePlace(j) ==
    (Has(j)' <=> Has(j)) /\ (IsMessage(j)' <=> IsMessage(j)) /\ (Live(j)' <=> Live(j))
SameMaps(j) ==
    /\ j \in DOMAIN contentText' <=> j \in DOMAIN contentText
    /\ j \in reasonIndexes' <=> j \in reasonIndexes
    /\ j \in toolCallFinalized' <=> j \in toolCallFinalized
Same(j) == SamePlace(j) /\ SameMaps(j)

LEMMA Apart ==
  ASSUME Struct, NEW i, NEW j, Has(i), Has(j), j # i
  PROVE  outputIndexes[j] # outputIndexes[i]
  BY DEF Struct, Has

LEMMA PlaceOf ==
  ASSUME LoopTyped, NEW i, Has(i)
  PROVE  outputIndexes[i] \in 0..(Len(output) - 1) /\ outputIndexes[i] + 1 \in 1..Len(output)
<1>1. Len(output) \in Nat /\ outputIndexes[i] \in 0..(Len(output) - 1)
  BY LengthsAre DEF LoopTyped, Has
<1> QED
  BY <1>1

LEMMA LiveOn ==
  ASSUME LoopTyped, NEW events \in Seq(AWire), Send(events), NEW at, ~ SentIn(events, "item_done", at)
  PROVE  SentIn(sent', "item_done", at) <=> SentIn(sent, "item_done", at)
  BY SentJoined DEF LoopTyped, Send

LEMMA SamePlaceOn ==
  ASSUME LoopTyped, Struct, OutputKept, Writes, NEW j,
         j # Event.index \/ Deed(Event) \notin {"args_done", "block_done"},
         j \in DOMAIN outputIndexes' <=> j \in DOMAIN outputIndexes,
         j \in DOMAIN outputIndexes => outputIndexes'[j] = outputIndexes[j]
  PROVE  SamePlace(j)
<1>1. PICK events \in Seq(AWire) : Send(events) /\ Placed(events)
  BY DEF Writes
<1>2. CASE ~ Has(j)
  BY <1>2 DEF SamePlace, Has, IsMessage, Live
<1>3. CASE Has(j)
  <2> DEFINE at == outputIndexes[j]
  <2>1. at \in 0..(Len(output) - 1) /\ at + 1 \in 1..Len(output) /\ Len(output) \in Nat
    BY <1>3, PlaceOf, LengthsAre
  <2>2. at # Len(output)
    BY <2>1
  <2>3. Has(j)' /\ outputIndexes'[j] = at
    BY <1>3 DEF Has
  <2>4. ~ SentIn(events, "item_done", at)
    <3>1. SentIn(events, "item_done", at) =>
            /\ Has(Event.index) /\ at = outputIndexes[Event.index]
            /\ Deed(Event) \in {"args_done", "block_done"}
      BY <1>1, <2>2 DEF Placed
    <3> QED
      BY <1>3, <3>1, Apart
  <2>5. SentIn(sent', "item_done", at) <=> SentIn(sent, "item_done", at)
    BY <1>1, <2>4, LiveOn
  <2>6. output'[at + 1].type = output[at + 1].type
    BY <2>1 DEF OutputKept
  <2> QED
    BY <1>3, <2>3, <2>5, <2>6 DEF SamePlace, Has, IsMessage, Live
<1> QED
  BY <1>2, <1>3

\* A new item of a block is live.
LEMMA NewPlace ==
  ASSUME LoopTyped, Struct, Writes, NEW i, outputIndexes'[i] = Len(output),
         Deed(Event) \notin {"args_done", "block_done"}
  PROVE  Live(i)'
<1>1. PICK events \in Seq(AWire) : Send(events) /\ Placed(events)
  BY DEF Writes
<1>2. ~ SentIn(sent, "item_done", Len(output))
  <2>1. SentIn(sent, "item_done", Len(output)) => Len(output) < Len(output)
    BY DEF Struct
  <2> QED
    BY <2>1, LengthsAre
<1>3. ~ SentIn(events, "item_done", Len(output))
  BY <1>1 DEF Placed
<1>4. ~ SentIn(sent', "item_done", Len(output))
  BY <1>1, <1>2, <1>3, LiveOn
<1> QED
  BY <1>4 DEF Live

LEMMA SameFits ==
  ASSUME NEW j, Same(j), NothingGoesAstray' <=> NothingGoesAstray, NEW deed
  PROVE  Fits(deed, j)' <=> Fits(deed, j)
<1>1. (Speaks(j)' <=> Speaks(j)) /\ (Idle(j)' <=> Idle(j))
  BY DEF Same, SamePlace, SameMaps, Speaks, Idle
<1> QED
  BY <1>1 DEF Fits, Same, SamePlace, SameMaps

\* What a step does: nothing to other blocks, and to the block of its event what the
\* later events of the block need.
Effects ==
    /\ \A j \in Nat : j # Event.index => Same(j)
    /\ \A i \in Nat : i = Event.index => LET deed == Deed(Event) IN
          /\ deed \notin Deeds \/ deed = "args_delta" => Same(i)
          /\ deed = "text" => SamePlace(i) /\ i \in DOMAIN contentText'
          /\ deed \in {"reasoning", "tool_use"} => Has(i)' /\ ~ IsMessage(i)' /\ Live(i)'
          /\ deed = "tool_use" => SameMaps(i)
          /\ deed = "text_delta" =>
               i \in DOMAIN contentText' /\ (IF Has(i) THEN SamePlace(i) ELSE Live(i)')
          /\ deed = "args_done" => /\ Has(i)' <=> Has(i)
                                   /\ IsMessage(i)' <=> IsMessage(i)
                                   /\ Idle(i)' <=> Idle(i)
                                   /\ i \in toolCallFinalized'

\* The kinds of steps: one that keeps all places, one that begins a block with an item,
\* one that completes a call.
LEMMA EffectOfKept ==
  ASSUME LoopTyped, Struct, OutputKept, Writes, outputIndexes' = outputIndexes,
         NEW i \in Nat, i = Event.index, \A j \in Nat : j # i => SameMaps(j),
         Deed(Event) \notin {"args_done", "block_done", "tool_use", "reasoning"},
         Deed(Event) \notin Deeds \/ Deed(Event) = "args_delta" => SameMaps(i),
         Deed(Event) \in {"text", "text_delta"} => i \in DOMAIN contentText',
         Deed(Event) = "text_delta" => Has(i)
  PROVE  Effects
<1>1. ASSUME NEW j \in Nat PROVE SamePlace(j)
  BY SamePlaceOn
<1> QED
  BY <1>1 DEF Effects, Same

LEMMA EffectOfBegun ==
  ASSUME LoopTyped, Struct, OutputKept, Writes, NEW type \in ItemTypes,
         output' = Append(output, Item(type)), NEW i \in Nat, i = Event.index,
         outputIndexes' = With(outputIndexes, i, Len(output)),
         \A j \in Nat : j # i => SameMaps(j),
         \/ Deed(Event) \in {"reasoning", "tool_use"} /\ type # "message"
         \/ Deed(Event) = "text_delta" /\ ~ Has(i),
         Deed(Event) = "tool_use" => SameMaps(i),
         Deed(Event) = "text_delta" => i \in DOMAIN contentText'
  PROVE  Effects
<1>1. /\ DOMAIN outputIndexes' = DOMAIN outputIndexes \cup {i} /\ outputIndexes'[i] = Len(output)
      /\ \A j \in DOMAIN outputIndexes : j # i => outputIndexes'[j] = outputIndexes[j]
      /\ output'[Len(output) + 1] = Item(type)
  BY NewItem
<1>2. ASSUME NEW j \in Nat, j # i PROVE Same(j)
  <2>1. /\ j \in DOMAIN outputIndexes' <=> j \in DOMAIN outputIndexes
        /\ j \in DOMAIN outputIndexes => outputIndexes'[j] = outputIndexes[j]
    BY <1>1, <1>2
  <2>2. SamePlace(j)
    BY <1>2, <2>1, SamePlaceOn
  <2> QED
    BY <1>2, <2>2 DEF Same
<1>3. Has(i)'
  BY <1>1 DEF Has
<1>4. Live(i)'
  BY <1>1, <1>3, NewPlace
<1>5. type # "message" => ~ IsMessage(i)'
  <2>1. output'[outputIndexes'[i] + 1].type = type
    BY <1>1, ItemTyped
  <2> QED
    BY <2>1 DEF IsMessage
<1> QED
  BY <1>2, <1>3, <1>4, <1>5 DEF Effects, Deeds

LEMMA EffectOfDone ==
  ASSUME LoopTyped, Struct, OutputKept, Writes, NEW i \in Nat, i = Event.index,
         Deed(Event) \in {"args_done", "block_done"},
         \A j \in Nat : j # i =>
           /\ SameMaps(j)
           /\ j \in DOMAIN outputIndexes' <=> j \in DOMAIN outputIndexes
           /\ j \in DOMAIN outputIndexes => outputIndexes'[j] = outputIndexes[j],
         Deed(Event) = "args_done" =>
           outputIndexes' = outputIndexes /\ UNCHANGED <<contentText, reasonIndexes>>
           /\ i \in toolCallFinalized'
  PROVE  Effects
<1>1. ASSUME NEW j \in Nat, j # i PROVE Same(j)
  <2>1. SamePlace(j)
    BY <1>1, SamePlaceOn
  <2> QED
    BY <1>1, <2>1 DEF Same
<1>2. ASSUME Deed(Event) = "args_done"
      PROVE  /\ Has(i)' <=> Has(i)
             /\ IsMessage(i)' <=> IsMessage(i)
             /\ Idle(i)' <=> Idle(i)
  <2>1. Has(i) => output'[outputIndexes[i] + 1].type = output[outputIndexes[i] + 1].type
    BY PlaceOf DEF OutputKept
  <2> QED
    BY <1>2, <2>1 DEF Has, IsMessage, Idle
<1> QED
  BY <1>1, <1>2 DEF Effects, Deeds

LEMMA MapsOf ==
  ASSUME NEW i, NEW j, j # i
  PROVE  /\ \A f, v : j \in DOMAIN With(f, i, v) <=> j \in DOMAIN f
         /\ \A f, v : j \in DOMAIN f => With(f, i, v)[j] = f[j]
         /\ \A f : j \in DOMAIN Without(f, i) <=> j \in DOMAIN f
         /\ \A f : j \in DOMAIN f => Without(f, i)[j] = f[j]
  BY DEF With, Without

LEMMA EffectsOn ==
  ASSUME LoopTyped, AllFit(core), Struct, Translate
  PROVE  Effects
<1>0. core # <<>> /\ core' = Tail(core) /\ OutputKept /\ Writes
  BY LoopTypedOn, EventsPlaced
<1>1. PICK i \in Nat : i = Event.index
  BY <1>0, TextTyped
<1>2. Has(i) => At(i) = outputIndexes[i]
  BY <1>0, <1>1, TextTyped
<1>3. CASE ResponseBegins \/ ResponseEnds
  <2>1. PICK type \in {"created", "in_progress", "completed", "incomplete", "failed"} :
          Consume(type) /\ UNCHANGED maps
    BY <1>3 DEF ResponseBegins, ResponseEnds, Lifecycle
  <2>2. Deed(Event) = type /\ Deed(Event) \notin Deeds
    BY <2>1, DeedOf DEF Deeds
  <2>3. \A j \in Nat : SameMaps(j)
    BY <2>1 DEF SameMaps, maps
  <2> QED
    BY <1>0, <1>1, <2>1, <2>2, <2>3, EffectOfKept DEF maps, Deeds
<1>4. CASE StartReasoning
  <2>1. /\ Deed(Event) = "reasoning" /\ output' = Append(output, Item("reasoning"))
        /\ outputIndexes' = With(outputIndexes, i, Len(output))
    BY <1>1, <1>4, StartOf DEF StartReasoning
  <2>2. \A j \in Nat : j # i => SameMaps(j)
    BY <1>1, <1>4, MapsOf DEF StartReasoning, SameMaps
  <2> QED
    BY <1>0, <1>1, <2>1, <2>2, EffectOfBegun DEF ItemTypes
<1>5. CASE StartText
  <2>1. Deed(Event) = "text" /\ outputIndexes' = outputIndexes
        /\ contentText' = With(contentText, i, <<>>) /\ UNCHANGED <<reasonIndexes, toolCallFinalized>>
    BY <1>1, <1>5, StartOf DEF StartText
  <2>2. i \in DOMAIN contentText' /\ \A j \in Nat : j # i => SameMaps(j)
    BY <2>1 DEF With, SameMaps
  <2> QED
    BY <1>0, <1>1, <2>1, <2>2, EffectOfKept DEF Deeds
<1>6. CASE StartToolUse
  <2>1. /\ Deed(Event) = "tool_use" /\ output' = Append(output, Item("function_call"))
        /\ outputIndexes' = With(outputIndexes, i, Len(output))
        /\ UNCHANGED <<contentText, reasonIndexes, toolCallFinalized>>
    BY <1>1, <1>6, StartOf DEF StartToolUse
  <2>2. \A j \in Nat : SameMaps(j)
    BY <2>1 DEF SameMaps
  <2> QED
    BY <1>0, <1>1, <2>1, <2>2, EffectOfBegun DEF ItemTypes
<1>7. CASE ReasoningDelta \/ TextDelta
  <2>1. /\ Deed(Event) = "text_delta" /\ outputIndexes' = outputIndexes /\ Has(i)
        /\ contentText' = With(contentText, i, Text(i) \o Event.delta)
        /\ UNCHANGED <<reasonIndexes, toolCallFinalized>>
    BY <1>1, <1>7, DeedOf DEF ReasoningDelta, TextDelta, Grown, Has, Struct
  <2>2. i \in DOMAIN contentText' /\ \A j \in Nat : j # i => SameMaps(j)
    BY <2>1 DEF With, SameMaps
  <2> QED
    BY <1>0, <1>1, <2>1, <2>2, EffectOfKept DEF Deeds
<1>8. CASE FirstTextDelta
  <2>1. /\ Deed(Event) = "text_delta" /\ output' = Append(output, Item("message")) /\ ~ Has(i)
        /\ outputIndexes' = With(outputIndexes, i, Len(output))
        /\ contentText' = With(contentText, i, Text(i) \o Event.delta)
        /\ UNCHANGED <<reasonIndexes, toolCallFinalized>>
    BY <1>1, <1>8, DeedOf DEF FirstTextDelta, Grown, Has
  <2>2. i \in DOMAIN contentText' /\ \A j \in Nat : j # i => SameMaps(j)
    BY <2>1 DEF With, SameMaps
  <2> QED
    BY <1>0, <1>1, <2>1, <2>2, EffectOfBegun DEF ItemTypes
<1>9. CASE ToolCallArgsDelta
  <2>1. /\ Deed(Event) = "args_delta" /\ outputIndexes' = outputIndexes
        /\ UNCHANGED <<contentText, reasonIndexes, toolCallFinalized>>
    BY <1>9, DeedOf DEF ToolCallArgsDelta
  <2>2. \A j \in Nat : SameMaps(j)
    BY <2>1 DEF SameMaps
  <2> QED
    BY <1>0, <1>1, <2>1, <2>2, EffectOfKept DEF Deeds
<1>10. CASE ToolCallArgsDone
  <2>1. /\ Deed(Event) = "args_done" /\ outputIndexes' = outputIndexes
        /\ UNCHANGED <<contentText, reasonIndexes>>
        /\ toolCallFinalized' = toolCallFinalized \cup {i}
    BY <1>1, <1>10, DeedOf DEF ToolCallArgsDone, FinishCall
  <2>2. i \in toolCallFinalized' /\ \A j \in Nat : j # i => SameMaps(j)
    BY <2>1 DEF SameMaps
  <2> QED
    BY <1>0, <1>1, <2>1, <2>2, EffectOfDone
<1>11. CASE ReasoningDone
  <2>1. /\ Deed(Event) = "block_done"
        /\ contentText' = Without(contentText, i) /\ outputIndexes' = Without(outputIndexes, i)
        /\ reasonIndexes' = reasonIndexes \ {i} /\ toolCallFinalized' = toolCallFinalized
    BY <1>1, <1>11, DeedOf DEF ReasoningDone
  <2>2. \A j \in Nat : j # i => /\ SameMaps(j)
                                /\ j \in DOMAIN outputIndexes' <=> j \in DOMAIN outputIndexes
                                /\ j \in DOMAIN outputIndexes => outputIndexes'[j] = outputIndexes[j]
    BY <2>1 DEF Without, SameMaps
  <2> QED
    BY <1>0, <1>1, <2>1, <2>2, EffectOfDone
<1>12. CASE TextBlockDone
  <2>1. PICK at : /\ Deed(Event) = "block_done"
                  /\ contentText' = Without(contentText, i)
                  /\ outputIndexes' = With(outputIndexes, i, at)
                  /\ UNCHANGED <<reasonIndexes, toolCallFinalized>>
    BY <1>1, <1>12, DeedOf DEF TextBlockDone
  <2>2. \A j \in Nat : j # i => /\ SameMaps(j)
                                /\ j \in DOMAIN outputIndexes' <=> j \in DOMAIN outputIndexes
                                /\ j \in DOMAIN outputIndexes => outputIndexes'[j] = outputIndexes[j]
    BY <2>1 DEF With, Without, SameMaps
  <2> QED
    BY <1>0, <1>1, <2>1, <2>2, EffectOfDone
<1>13. CASE ToolBlockDone
  <2>1. /\ Deed(Event) = "block_done" /\ UNCHANGED <<contentText, outputIndexes, reasonIndexes>>
        /\ toolCallFinalized' = toolCallFinalized \cup {i}
    BY <1>1, <1>13, DeedOf DEF ToolBlockDone, FinishCall
  <2>2. \A j \in Nat : j # i => /\ SameMaps(j)
                                /\ j \in DOMAIN outputIndexes' <=> j \in DOMAIN outputIndexes
                                /\ j \in DOMAIN outputIndexes => outputIndexes'[j] = outputIndexes[j]
    BY <2>1 DEF SameMaps
  <2> QED
    BY <1>0, <1>1, <2>1, <2>2, EffectOfDone
<1>14. CASE Ignored
  <2>1. Deed(Event) \in {"item_added", "block_done"} /\ UNCHANGED maps
    BY <1>14, DeedOf DEF Ignored
  <2>2. outputIndexes' = outputIndexes /\ \A j \in Nat : SameMaps(j)
    BY <2>1 DEF SameMaps, maps
  <2>3. CASE Deed(Event) = "item_added"
    BY <1>0, <1>1, <2>2, <2>3, EffectOfKept DEF Deeds
  <2>4. CASE Deed(Event) = "block_done"
    BY <1>0, <1>1, <2>2, <2>4, EffectOfDone
  <2> QED
    BY <2>1, <2>3, <2>4
<1> QED
  BY <1>3, <1>4, <1>5, <1>6, <1>7, <1>8, <1>9, <1>10, <1>11, <1>12, <1>13, <1>14 DEF Translate

LEMMA FitsKept ==
  ASSUME LoopTyped, AllFit(core), Struct, Translate, NothingGoesAstray' <=> NothingGoesAstray
  PROVE  FitsOn
<1>0. core # <<>> /\ Effects
  BY LoopTypedOn, EffectsOn
<1>1. Deed(Event) \in Deeds => Fits(Deed(Event), Event.index)
  BY <1>0, HeadFits
<1> SUFFICES ASSUME NEW deed \in Deeds, NEW j \in Nat
             PROVE  /\ Leaves(Event, deed, j) /\ Fits(deed, j) => Fits(deed, j)'
                    /\ Makes(Event, deed, j) => Fits(deed, j)'
  BY DEF FitsOn
<1>2. CASE j # Event.index
  <2>1. Same(j)
    BY <1>0, <1>2 DEF Effects
  <2> QED
    BY <1>2, <2>1, SameFits DEF Makes
<1>3. CASE j = Event.index
  <2> DEFINE done == Deed(Event)
  <2>1. /\ done \notin Deeds \/ done = "args_delta" => Same(j)
        /\ done = "text" => SamePlace(j) /\ j \in DOMAIN contentText'
        /\ done \in {"reasoning", "tool_use"} => Has(j)' /\ ~ IsMessage(j)' /\ Live(j)'
        /\ done = "tool_use" => SameMaps(j)
        /\ done = "text_delta" =>
             j \in DOMAIN contentText' /\ (IF Has(j) THEN SamePlace(j) ELSE Live(j)')
        /\ done = "args_done" => /\ Has(j)' <=> Has(j)
                                 /\ IsMessage(j)' <=> IsMessage(j)
                                 /\ Idle(j)' <=> Idle(j)
                                 /\ j \in toolCallFinalized'
    BY <1>0, <1>3 DEF Effects
  <2>2. done \in Deeds => Fits(done, j)
    BY <1>1, <1>3
  <2>3. Event.index = j
    BY <1>3
  <2> HIDE DEF done
  <2>4. CASE done \notin Deeds \/ done = "args_delta"
    <3>1. <<done, deed>> \notin Made
      BY <2>4 DEF Made, Deeds
    <3>2. Fits(deed, j)' <=> Fits(deed, j)
      BY <2>1, <2>4, SameFits
    <3> QED
      BY <3>1, <3>2 DEF Makes, done
  <2>5. CASE done \in Deeds /\ done # "args_delta"
    <3>1. ASSUME <<done, deed>> \in Left, Fits(deed, j) PROVE Fits(deed, j)'
      <4>1. CASE deed = "reasoning"
        BY <4>1 DEF Fits
      <4>2. CASE deed = "args_delta"
        <5>1. done \in {"text", "text_delta"}
          BY <3>1, <4>2 DEF Left
        <5>2. Has(j) => SamePlace(j)
          BY <2>1, <5>1
        <5> QED
          BY <3>1, <4>2, <5>2 DEF Fits, SamePlace
      <4> QED
        BY <3>1, <4>1, <4>2 DEF Left
    <3>2. ASSUME <<done, deed>> \in Made PROVE Fits(deed, j)'
      <4>1. CASE done = "text"
        <5>1. ~ IsMessage(j)' /\ (NothingGoesAstray' => Live(j)') /\ Speaks(j)'
          BY <2>1, <2>2, <2>5, <4>1 DEF Fits, SamePlace, Speaks
        <5>2. deed \in {"text_delta", "block_done"}
          BY <3>2, <4>1 DEF Made
        <5> QED
          BY <5>1, <5>2 DEF Fits
      <4>2. CASE done = "reasoning"
        <5>1. Speaks(j)' /\ Live(j)'
          BY <2>1, <4>2 DEF Speaks
        <5>2. deed \in {"text_delta", "block_done"}
          BY <3>2, <4>2 DEF Made
        <5> QED
          BY <5>1, <5>2 DEF Fits
      <4>3. CASE done = "tool_use"
        <5>1. Speaks(j)' /\ Live(j)' /\ Has(j)' /\ ~ IsMessage(j)'
          BY <2>1, <4>3 DEF Speaks
        <5>2. NothingGoesAstray' => Idle(j)'
          BY <2>1, <2>2, <2>5, <4>3 DEF Fits, SameMaps, Idle
        <5>3. deed \in {"text_delta", "args_delta", "args_done", "text", "block_done"}
          BY <3>2, <4>3 DEF Made
        <5> QED
          BY <5>1, <5>2, <5>3 DEF Fits
      <4>4. CASE done = "text_delta"
        <5>1. Speaks(j)' /\ (NothingGoesAstray' => Live(j)')
          BY <2>1, <2>2, <2>5, <4>4 DEF Fits, SamePlace, Speaks
        <5>2. deed \in {"text_delta", "block_done"}
          BY <3>2, <4>4 DEF Made
        <5> QED
          BY <5>1, <5>2 DEF Fits
      <4>5. CASE done = "args_done"
        <5>1. (NothingGoesAstray' => Idle(j)') /\ j \in toolCallFinalized'
          BY <2>1, <2>2, <2>5, <4>5 DEF Fits
        <5>2. deed = "block_done"
          BY <3>2, <4>5 DEF Made
        <5> QED
          BY <5>1, <5>2 DEF Fits
      <4>6. CASE done = "block_done"
        BY <3>2, <4>6 DEF Made
      <4> QED
        BY <2>5, <4>1, <4>2, <4>3, <4>4, <4>5, <4>6 DEF Deeds
    <3> QED
      BY <2>3, <2>5, <3>1, <3>2 DEF Leaves, Makes, done
  <2> QED
    BY <2>4, <2>5
<1> QED
  BY <1>2, <1>3

\* Places stay apart, and what has been written is of items there are.
LEMMA StructKept ==
  ASSUME LoopTyped, Struct, OutputKept, Writes
  PROVE  /\ \A i, j \in DOMAIN outputIndexes' : outputIndexes'[i] = outputIndexes'[j] => i = j
         /\ \A at : SentIn(sent', "text_delta", at) \/ SentIn(sent', "item_done", at) => at < Len(output')
<1>1. PICK events \in Seq(AWire) : Send(events) /\ Placed(events)
  BY DEF Writes
<1>2. Len(output) \in Nat /\ Len(output') \in Nat /\ Len(output') >= Len(output)
  BY LengthsAre, ElementsOf DEF OutputKept
<1>3. ASSUME NEW i \in DOMAIN outputIndexes', NEW j \in DOMAIN outputIndexes',
             outputIndexes'[i] = outputIndexes'[j]
      PROVE  i = j
  <2>1. \A k \in DOMAIN outputIndexes : outputIndexes[k] # Len(output)
    BY <1>2 DEF LoopTyped
  <2>2. \A k \in DOMAIN outputIndexes' :
          \/ k \in DOMAIN outputIndexes /\ outputIndexes'[k] = outputIndexes[k]
          \/ k = Event.index /\ outputIndexes'[k] = Len(output)
    BY DEF OutputKept
  <2>3. \A k, l \in DOMAIN outputIndexes : outputIndexes[k] = outputIndexes[l] => k = l
    BY DEF Struct
  <2> QED
    BY <1>3, <2>1, <2>2, <2>3
<1>4. ASSUME NEW at, NEW event \in {"text_delta", "item_done"}, SentIn(sent', event, at)
      PROVE  at < Len(output')
  <2>1. SentIn(sent, event, at) \/ SentIn(events, event, at)
    BY <1>1, <1>4, SentJoined DEF LoopTyped, Send
  <2>2. CASE SentIn(sent, event, at)
    <3>1. at < Len(output) /\ at \in Nat
      <4>1. at < Len(output)
        BY <1>4, <2>2 DEF Struct
      <4>2. PICK k \in 1..Len(sent) : sent[k].at = at
        BY <2>2 DEF SentIn
      <4>3. sent[k] \in AWire
        BY ElementsOf DEF LoopTyped
      <4> QED
        BY <4>1, <4>2, <4>3 DEF AWire
    <3> QED
      BY <1>2, <3>1
  <2>3. CASE SentIn(events, event, at)
    <3>1. \/ Has(Event.index) /\ at = outputIndexes[Event.index]
          \/ at = Len(output) /\ Len(output') = Len(output) + 1
      BY <1>1, <1>4, <2>3 DEF Placed
    <3>2. Has(Event.index) => outputIndexes[Event.index] \in 0..(Len(output) - 1)
      BY PlaceOf
    <3> QED
      BY <1>2, <3>1, <3>2
  <2> QED
    BY <2>1, <2>2, <2>3
<1> QED
  BY <1>3, <1>4


\* All blocks but that of the event are as before, if their texts are.
LEMMA BlocksKept ==
  ASSUME LoopTyped, Struct, OutputKept, Writes, Effects, NEW i \in Nat, i = Event.index,
         reasonIndexes' \subseteq Nat, contentText' \in Partial(Pieces),
         \A j \in DOMAIN contentText : j # i /\ ~ Has(j) => contentText'[j] = contentText[j],
         i \in reasonIndexes' => Has(i)' /\ i \in DOMAIN contentText' /\ ~ IsMessage(i)',
         i \in DOMAIN contentText' => Has(i)' \/ contentText'[i] = <<>>
  PROVE  Struct'
<1>1. ASSUME NEW j \in Nat, j # i PROVE Same(j)
  BY <1>1 DEF Effects
<1>2. ASSUME NEW j \in reasonIndexes'
      PROVE  Has(j)' /\ j \in DOMAIN contentText' /\ ~ IsMessage(j)'
  <2>1. CASE j = i
    BY <1>2, <2>1
  <2>2. CASE j # i
    <3>1. Same(j)
      BY <1>1, <2>2
    <3>2. j \in reasonIndexes
      BY <3>1 DEF Same, SameMaps
    <3>3. Has(j) /\ j \in DOMAIN contentText /\ ~ IsMessage(j)
      BY <3>2 DEF Struct, Has
    <3> QED
      BY <3>1, <3>3 DEF Same, SameMaps, SamePlace
  <2> QED
    BY <2>1, <2>2
<1>3. ASSUME NEW j \in DOMAIN contentText', ~ Has(j)' PROVE contentText'[j] = <<>>
  <2>1. j \in Nat
    BY PartialAt
  <2>2. CASE j = i
    BY <1>3, <2>2
  <2>3. CASE j # i
    <3>1. Same(j)
      BY <1>1, <2>1, <2>3
    <3>2. j \in DOMAIN contentText /\ ~ Has(j)
      BY <1>3, <3>1 DEF Same, SameMaps, SamePlace
    <3>3. contentText[j] = <<>>
      BY <3>2 DEF Struct
    <3> QED
      BY <2>3, <3>2, <3>3
  <2> QED
    BY <2>2, <2>3
<1>4. reasonIndexes' \subseteq DOMAIN outputIndexes' \cap DOMAIN contentText'
  BY <1>2 DEF Has
<1> QED
  BY <1>2, <1>3, <1>4, StructKept DEF Struct

LEMMA StructOn ==
  ASSUME LoopTyped, AllFit(core), Struct, Translate
  PROVE  Struct'
<1>0. core # <<>> /\ OutputKept /\ Writes /\ Effects /\ LoopTyped'
  BY LoopTypedOn, EventsPlaced, EffectsOn
<1>1. PICK i \in Nat : i = Event.index
  BY <1>0, TextTyped
<1>2. reasonIndexes \subseteq Nat /\ contentText' \in Partial(Pieces)
  BY <1>0, PartialAt DEF Struct, LoopTyped
<1>3. reasonIndexes' \subseteq Nat
  BY <1>1, <1>2 DEF Translate, ResponseBegins, ResponseEnds, Lifecycle, StartReasoning, StartText,
       StartToolUse, ReasoningDelta, FirstTextDelta, TextDelta, ToolCallArgsDelta,
       ToolCallArgsDone, ReasoningDone, TextBlockDone, ToolBlockDone, Ignored, maps
<1>4. CASE UNCHANGED <<contentText, outputIndexes, reasonIndexes>>
  <2>1. i \in reasonIndexes => Has(i)' /\ i \in DOMAIN contentText' /\ ~ IsMessage(i)'
    <3>1. ASSUME i \in reasonIndexes
          PROVE  Has(i) /\ i \in DOMAIN contentText /\ ~ IsMessage(i)
      BY <3>1 DEF Struct, Has
    <3>2. Has(i) => output'[outputIndexes[i] + 1].type = output[outputIndexes[i] + 1].type
      BY <1>0, PlaceOf DEF OutputKept
    <3> QED
      BY <1>4, <3>1, <3>2 DEF Has, IsMessage
  <2>2. i \in DOMAIN contentText => Has(i)' \/ contentText'[i] = <<>>
    BY <1>4 DEF Struct, Has
  <2> QED
    BY <1>0, <1>1, <1>2, <1>4, <2>1, <2>2, BlocksKept
<1>5. CASE StartReasoning
  <2>1. /\ contentText' = With(contentText, i, <<>>) /\ Deed(Event) = "reasoning"
        /\ outputIndexes' = With(outputIndexes, i, Len(output))
    BY <1>1, <1>5, StartOf DEF StartReasoning
  <2>2. Has(i)' /\ ~ IsMessage(i)'
    BY <1>0, <1>1, <2>1 DEF Effects
  <2>3. /\ i \in DOMAIN contentText'
        /\ \A j \in DOMAIN contentText : j # i => contentText'[j] = contentText[j]
    BY <2>1 DEF With
  <2> QED
    BY <1>0, <1>1, <1>2, <1>3, <2>2, <2>3, BlocksKept
<1>6. CASE StartText
  <2>1. /\ contentText' = With(contentText, i, <<>>) /\ Deed(Event) = "text"
        /\ reasonIndexes' = reasonIndexes
    BY <1>1, <1>6, StartOf DEF StartText
  <2>2. SamePlace(i)
    BY <1>0, <1>1, <2>1 DEF Effects
  <2>3. /\ i \in DOMAIN contentText' /\ contentText'[i] = <<>>
        /\ \A j \in DOMAIN contentText : j # i => contentText'[j] = contentText[j]
    BY <2>1 DEF With
  <2>4. i \in reasonIndexes => Has(i) /\ ~ IsMessage(i)
    BY DEF Struct, Has
  <2>5. i \in reasonIndexes => Has(i)' /\ ~ IsMessage(i)'
    BY <2>2, <2>4 DEF SamePlace
  <2> QED
    BY <1>0, <1>1, <1>2, <1>3, <2>1, <2>3, <2>5, BlocksKept
<1>7. CASE StartToolUse
  <2>1. /\ contentText' = contentText /\ Deed(Event) = "tool_use"
        /\ reasonIndexes' = reasonIndexes
    BY <1>1, <1>7, StartOf DEF StartToolUse
  <2>2. Has(i)' /\ ~ IsMessage(i)'
    BY <1>0, <1>1, <2>1 DEF Effects
  <2>3. i \in reasonIndexes => i \in DOMAIN contentText
    BY DEF Struct
  <2> QED
    BY <1>0, <1>1, <1>2, <1>3, <2>1, <2>2, <2>3, BlocksKept
<1>8. CASE ReasoningDelta \/ FirstTextDelta \/ TextDelta
  <2>1. /\ contentText' = With(contentText, i, Text(i) \o Event.delta) /\ Deed(Event) = "text_delta"
        /\ reasonIndexes' = reasonIndexes
    BY <1>1, <1>8, DeedOf DEF ReasoningDelta, FirstTextDelta, TextDelta, Grown
  <2>2. /\ i \in DOMAIN contentText'
        /\ \A j \in DOMAIN contentText : j # i => contentText'[j] = contentText[j]
    BY <2>1 DEF With
  <2>3. Has(i)'
    <3>1. CASE Has(i)
      BY <1>0, <1>1, <2>1, <3>1 DEF Effects, SamePlace
    <3>2. CASE ~ Has(i)
      <4>1. outputIndexes' = With(outputIndexes, i, Len(output))
        BY <1>1, <1>8, <3>2 DEF ReasoningDelta, FirstTextDelta, TextDelta, Struct, Has
      <4> QED
        BY <4>1 DEF With, Has
    <3> QED
      BY <3>1, <3>2
  <2>4. i \in reasonIndexes => ~ IsMessage(i)'
    <3>1. i \in reasonIndexes => Has(i) /\ ~ IsMessage(i)
      BY DEF Struct, Has
    <3>2. Has(i) => SamePlace(i)
      BY <1>0, <1>1, <2>1 DEF Effects
    <3> QED
      BY <3>1, <3>2 DEF SamePlace
  <2> QED
    BY <1>0, <1>1, <1>2, <1>3, <2>1, <2>2, <2>3, <2>4, BlocksKept
<1>9. CASE ReasoningDone
  <2>1. contentText' = Without(contentText, i) /\ reasonIndexes' = reasonIndexes \ {i}
    BY <1>1, <1>9 DEF ReasoningDone
  <2>2. /\ i \notin DOMAIN contentText' /\ i \notin reasonIndexes'
        /\ \A j \in DOMAIN contentText : j # i => contentText'[j] = contentText[j]
    BY <2>1 DEF Without
  <2> QED
    BY <1>0, <1>1, <1>2, <1>3, <2>2, BlocksKept
<1>10. CASE TextBlockDone
  <2>1. /\ contentText' = Without(contentText, i) /\ reasonIndexes' = reasonIndexes
        /\ i \notin reasonIndexes
    BY <1>1, <1>10 DEF TextBlockDone
  <2>2. /\ i \notin DOMAIN contentText' /\ i \notin reasonIndexes'
        /\ \A j \in DOMAIN contentText : j # i => contentText'[j] = contentText[j]
    BY <2>1 DEF Without
  <2> QED
    BY <1>0, <1>1, <1>2, <1>3, <2>2, BlocksKept
<1>11. CASE \/ ResponseBegins \/ ResponseEnds \/ ToolCallArgsDelta \/ ToolCallArgsDone
            \/ ToolBlockDone \/ Ignored
  BY <1>4, <1>11 DEF ResponseBegins, ResponseEnds, Lifecycle, ToolCallArgsDelta, ToolCallArgsDone,
       ToolBlockDone, Ignored, maps
<1> QED
  BY <1>5, <1>6, <1>7, <1>8, <1>9, <1>10, <1>11 DEF Translate

-----------------------------------------------------------------------------
(***************************************************************************)
(* The loop: texts. An item that is a message is in progress while its     *)
(* block has a text, which is then what the deltas have said.              *)
(***************************************************************************)

OpenText(i) ==
    LET at == outputIndexes[i]
    IN IsMessage(i) =>
         /\ i \in DOMAIN contentText <=> output[at + 1].status = "in_progress"
         /\ i \in DOMAIN contentText => SaidIn(sent, at) = contentText[i]
DoneText(at) ==
    output[at + 1].type = "message" /\ output[at + 1].status = "completed" =>
        SaidIn(sent, at) = output[at + 1].text

Texts ==
    /\ \A i \in DOMAIN outputIndexes : OpenText(i)
    /\ \A at \in 0..(Len(output) - 1) : DoneText(at)

LEMMA SaidOn ==
  ASSUME LoopTyped, NEW events \in Seq(AWire), Send(events), NEW at
  PROVE  /\ SaidIn(sent', at) = SaidIn(sent, at) \o SaidIn(events, at)
         /\ ~ SentIn(events, "text_delta", at) => SaidIn(sent', at) = SaidIn(sent, at)
<1>1. sent \in Seq(AWire) /\ sent' = sent \o events
  BY DEF LoopTyped, Send
<1>2. SaidIn(sent', at) = SaidIn(sent, at) \o SaidIn(events, at)
  BY <1>1, SaidJoined
<1>3. ASSUME ~ SentIn(events, "text_delta", at) PROVE SaidIn(sent', at) = SaidIn(sent, at)
  <2>1. SaidIn(events, at) = <<>> /\ SaidIn(sent, at) \in Pieces
    BY <1>1, <1>3, SaidNothing, SaidTyped
  <2>2. SaidIn(sent, at) \o <<>> = SaidIn(sent, at)
    BY <2>1, ConcatEmptySeq DEF Pieces
  <2> QED
    BY <1>2, <2>1, <2>2
<1> QED
  BY <1>2, <1>3

LEMMA SaidSame ==
  ASSUME LoopTyped, Writes, Deed(Event) # "text_delta"
  PROVE  \A at : SaidIn(sent', at) = SaidIn(sent, at)
<1>1. PICK events \in Seq(AWire) : Send(events) /\ Placed(events)
  BY DEF Writes
<1>2. \A at : ~ SentIn(events, "text_delta", at)
  BY <1>1 DEF Placed
<1> QED
  BY <1>1, <1>2, SaidOn

\* The items of the other blocks.
LEMMA TextsElsewhere ==
  ASSUME LoopTyped, Struct, OutputKept, Writes, Effects, Texts, NEW i \in Nat, i = Event.index,
         outputIndexes' \in Partial(Nat),
         \A n \in 1..Len(output) : (Has(i) => n # outputIndexes[i] + 1) => output'[n] = output[n],
         \A j \in DOMAIN contentText : j # i => contentText'[j] = contentText[j]
  PROVE  /\ \A j \in DOMAIN outputIndexes' : j # i => OpenText(j)'
         /\ \A at \in 0..(Len(output) - 1) : (Has(i) => at # outputIndexes[i]) => DoneText(at)'
<1>1. PICK events \in Seq(AWire) : Send(events) /\ Placed(events)
  BY DEF Writes
<1>2. ASSUME NEW at \in 0..(Len(output) - 1), Has(i) => at # outputIndexes[i]
      PROVE  SaidIn(sent', at) = SaidIn(sent, at) /\ output'[at + 1] = output[at + 1]
  <2>1. at # Len(output) /\ at + 1 \in 1..Len(output)
    BY LengthsAre
  <2>2. ~ SentIn(events, "text_delta", at)
    BY <1>1, <1>2, <2>1 DEF Placed
  <2>3. Has(i) => at + 1 # outputIndexes[i] + 1
    BY <1>2, PlaceOf, LengthsAre
  <2> QED
    BY <1>1, <2>1, <2>2, <2>3, SaidOn
<1>3. ASSUME NEW j \in DOMAIN outputIndexes', j # i PROVE OpenText(j)'
  <2>1. j \in DOMAIN outputIndexes /\ outputIndexes'[j] = outputIndexes[j]
    BY <1>3 DEF OutputKept
  <2>2. outputIndexes[j] \in 0..(Len(output) - 1) /\ j \in Nat
    BY <2>1, PartialAt DEF LoopTyped
  <2>3. Has(i) => outputIndexes[j] # outputIndexes[i]
    BY <1>3, <2>1, Apart DEF Has
  <2>4. SaidIn(sent', outputIndexes[j]) = SaidIn(sent, outputIndexes[j])
        /\ output'[outputIndexes[j] + 1] = output[outputIndexes[j] + 1]
    BY <1>2, <2>2, <2>3
  <2>5. Same(j)
    BY <1>3, <2>2 DEF Effects
  <2>6. j \in DOMAIN contentText' <=> j \in DOMAIN contentText
    BY <2>5 DEF Same, SameMaps
  <2>7. j \in DOMAIN contentText => contentText'[j] = contentText[j]
    BY <1>3
  <2>8. OpenText(j)
    BY <2>1 DEF Texts
  <2>9. IsMessage(j)' => IsMessage(j)
    BY <2>5 DEF Same, SamePlace
  <2> QED
    BY <2>1, <2>4, <2>6, <2>7, <2>8, <2>9 DEF OpenText
<1>4. ASSUME NEW at \in 0..(Len(output) - 1), Has(i) => at # outputIndexes[i] PROVE DoneText(at)'
  <2>1. DoneText(at)
    BY DEF Texts
  <2> QED
    BY <1>2, <1>4, <2>1 DEF DoneText
<1> QED
  BY <1>3, <1>4

\* The items of a step, one by one: those of the other blocks, that of the block of the
\* event, and one that is new.
LEMMA TextsFrom ==
  ASSUME LoopTyped, Struct, OutputKept, Writes, Effects, Texts, NEW i \in Nat, i = Event.index,
         outputIndexes' \in Partial(Nat),
         \A n \in 1..Len(output) : (Has(i) => n # outputIndexes[i] + 1) => output'[n] = output[n],
         \A j \in DOMAIN contentText : j # i => contentText'[j] = contentText[j],
         i \in DOMAIN outputIndexes' => OpenText(i)',
         \A at : Has(i) /\ at = outputIndexes[i] => DoneText(at)',
         Len(output') = Len(output) \/ \A at : at = Len(output) => DoneText(at)',
         Len(output') \in {Len(output), Len(output) + 1}
  PROVE  Texts'
<1>1. /\ \A j \in DOMAIN outputIndexes' : j # i => OpenText(j)'
      /\ \A at \in 0..(Len(output) - 1) : (Has(i) => at # outputIndexes[i]) => DoneText(at)'
  BY TextsElsewhere
<1>2. ASSUME NEW at \in 0..(Len(output') - 1) PROVE DoneText(at)'
  <2>1. at \in 0..(Len(output) - 1) \/ (at = Len(output) /\ Len(output') # Len(output))
    BY LengthsAre
  <2> QED
    BY <1>1, <2>1
<1> QED
  BY <1>1, <1>2 DEF Texts

\* Steps that touch no text: the items stay, or one of the block of the event is completed
\* that is no open message.
LEMMA TextsOfKept ==
  ASSUME LoopTyped, Struct, OutputKept, Writes, Effects, Texts, NEW i \in Nat, i = Event.index,
         output' = output, outputIndexes' = outputIndexes, Deed(Event) # "text_delta",
         \A j \in DOMAIN contentText : j # i => contentText'[j] = contentText[j],
         IsMessage(i) => UNCHANGED contentText
  PROVE  Texts'
<1>1. \A at : DoneText(at)' <=> DoneText(at)
  BY SaidSame DEF DoneText
<1>2. i \in DOMAIN outputIndexes' => OpenText(i)'
  <2>1. i \in DOMAIN outputIndexes => OpenText(i)
    BY DEF Texts
  <2> QED
    BY <2>1, SaidSame DEF OpenText, IsMessage, Has
<1>3. \A at : Has(i) /\ at = outputIndexes[i] => DoneText(at)'
  <2>1. Has(i) => outputIndexes[i] \in 0..(Len(output) - 1)
    BY PlaceOf
  <2> QED
    BY <1>1, <2>1 DEF Texts
<1>4. outputIndexes' \in Partial(Nat)
  BY DEF LoopTyped
<1> QED
  BY <1>2, <1>3, <1>4, TextsFrom

\* A new item that is not a message, or one without a text that is open.
LEMMA TextsOfBegun ==
  ASSUME LoopTyped, Struct, OutputKept, Writes, Effects, Texts, NEW i \in Nat, i = Event.index,
         NEW type \in ItemTypes, output' = Append(output, Item(type)),
         outputIndexes' = With(outputIndexes, i, Len(output)),
         \A j \in DOMAIN contentText : j # i => contentText'[j] = contentText[j],
         type = "message" =>
           /\ ~ Has(i) /\ i \in DOMAIN contentText'
           /\ SaidIn(sent', Len(output)) = contentText'[i],
         Deed(Event) # "text_delta" \/ ~ Has(i)
  PROVE  Texts'
<1>1. /\ outputIndexes' \in Partial(Nat) /\ outputIndexes'[i] = Len(output)
      /\ Len(output') = Len(output) + 1
      /\ \A n \in 1..Len(output) : output'[n] = output[n]
      /\ output'[Len(output) + 1] = Item(type)
  BY NewItem
<1>2. Item(type).type = type /\ Item(type).status = "in_progress"
  BY ItemTyped
<1>3. OpenText(i)'
  BY <1>1, <1>2 DEF OpenText, IsMessage
<1>4. \A at : at = Len(output) => DoneText(at)'
  BY <1>1, <1>2 DEF DoneText
<1>5. \A at : Has(i) /\ at = outputIndexes[i] => DoneText(at)'
  <2>1. ASSUME NEW at, Has(i), at = outputIndexes[i] PROVE DoneText(at)'
    <3>1. at \in 0..(Len(output) - 1) /\ at + 1 \in 1..Len(output)
      BY <2>1, PlaceOf
    <3>2. DoneText(at)
      BY <3>1 DEF Texts
    <3>3. SaidIn(sent', at) = SaidIn(sent, at)
      BY <2>1, SaidSame
    <3> QED
      BY <1>1, <3>1, <3>2, <3>3 DEF DoneText
  <2> QED
    BY <2>1
<1> QED
  BY <1>1, <1>3, <1>4, <1>5, TextsFrom

\* The item of the block is completed; a message that was open gets its text.
LEMMA TextsOfDone ==
  ASSUME LoopTyped, Struct, OutputKept, Writes, Effects, Texts, NEW i \in Nat, i = Event.index,
         core # <<>>, Has(i), NEW type \in ItemTypes, NEW text \in Pieces,
         output' = Completed(output, At(i), type, text), Deed(Event) # "text_delta",
         outputIndexes' \in Partial(Nat),
         i \in DOMAIN outputIndexes' => outputIndexes'[i] = outputIndexes[i],
         \A j \in DOMAIN contentText : j # i => contentText'[j] = contentText[j],
         IsMessage(i) /\ i \in DOMAIN contentText => type = "message",
         IsMessage(i) /\ type = "message" => i \in DOMAIN contentText /\ text = contentText[i],
         IsMessage(i) => i \notin DOMAIN contentText'
  PROVE  Texts'
<1> DEFINE at == outputIndexes[i]
<1>1. /\ output' \in Seq(AnItem) /\ Len(output') = Len(output)
      /\ \A n \in 1..Len(output) : n # at + 1 => output'[n] = output[n]
      /\ \A n \in 1..Len(output) : output'[n].type = output[n].type
      /\ output'[at + 1].status = "completed"
      /\ output'[at + 1].text = IF output[at + 1].type = type THEN text ELSE output[at + 1].text
  BY ItemDone
<1>2. at \in 0..(Len(output) - 1) /\ at + 1 \in 1..Len(output)
  BY PlaceOf
<1>3. output'[at + 1].type = output[at + 1].type
  BY <1>1, <1>2
<1>4. IsMessage(i) <=> output[at + 1].type = "message"
  BY DEF IsMessage
<1>5. OpenText(i) /\ DoneText(at)
  BY <1>2 DEF Texts, Has
<1>6. SaidIn(sent', at) = SaidIn(sent, at)
  BY SaidSame
<1>7. output[at + 1] \in AnItem
  BY <1>2, ElementsOf, LengthsAre
<1>8. ASSUME IsMessage(i) PROVE SaidIn(sent, at) = output'[at + 1].text
  <2>1. CASE i \in DOMAIN contentText
    BY <1>1, <1>4, <1>5, <1>8, <2>1 DEF OpenText
  <2>2. CASE i \notin DOMAIN contentText
    <3>1. output[at + 1].status = "completed"
      BY <1>5, <1>7, <1>8, <2>2 DEF OpenText, AnItem
    <3> QED
      BY <1>1, <1>4, <1>5, <1>8, <2>2, <3>1 DEF DoneText
  <2> QED
    BY <2>1, <2>2
<1>9. \A p : Has(i) /\ p = outputIndexes[i] => DoneText(p)'
  BY <1>3, <1>4, <1>6, <1>8 DEF DoneText
<1>10. i \in DOMAIN outputIndexes' => OpenText(i)'
  BY <1>1, <1>3, <1>4, <1>6 DEF OpenText, IsMessage, Has
<1> HIDE DEF at
<1>11. \A n \in 1..Len(output) : (Has(i) => n # outputIndexes[i] + 1) => output'[n] = output[n]
  BY <1>1 DEF at
<1> QED
  BY <1>1, <1>9, <1>10, <1>11, TextsFrom

LEMMA WithIs ==
  ASSUME NEW f, NEW i, NEW v
  PROVE  /\ i \in DOMAIN With(f, i, v) /\ With(f, i, v)[i] = v
         /\ \A j \in DOMAIN f : j # i => With(f, i, v)[j] = f[j]
  BY DEF With

LEMMA WithoutIs ==
  ASSUME NEW f, NEW i
  PROVE  i \notin DOMAIN Without(f, i) /\ \A j \in DOMAIN f : j # i => Without(f, i)[j] = f[j]
  BY DEF Without

\* What one delta says.
LEMMA DeltaSaid ==
  ASSUME NEW at \in Nat, NEW text \in Pieces
  PROVE  SaidIn(<<Wire("text_delta", at, text)>>, at) = text
<1>1. /\ Wire("text_delta", at, text) \in AWire /\ Wire("text_delta", at, text).event = "text_delta"
      /\ Wire("text_delta", at, text).at = at /\ Wire("text_delta", at, text).text = text
  BY Names, WireTyped
<1> QED
  BY <1>1, SaidOne

LEMMA FirstDeltaSaid ==
  ASSUME NEW at \in Nat, NEW text \in Pieces, NEW x \in Pieces, NEW y \in Pieces
  PROVE  SaidIn(<<Wire("item_added", at, x), Wire("part_added", at, y), Wire("text_delta", at, text)>>, at)
           = text
<1> DEFINE u == Wire("item_added", at, x)
           v == Wire("part_added", at, y)
           w == Wire("text_delta", at, text)
<1>1. u \in AWire /\ v \in AWire /\ w \in AWire
  BY Names, WireTyped
<1>2. ~ SentIn(<<u, v>>, "text_delta", at)
  BY SentWires
<1>3. SaidIn(<<w>>, at) = text
  BY DeltaSaid
<1> HIDE DEF u, v, w
<1>4. <<u, v>> \in Seq(AWire) /\ <<w>> \in Seq(AWire)
  BY <1>1
<1>5. <<u, v, w>> = <<u, v>> \o <<w>>
  BY <1>1
<1>6. SaidIn(<<u, v>>, at) = <<>>
  BY <1>2, <1>4, SaidNothing
<1>7. SaidIn(<<u, v>> \o <<w>>, at) = SaidIn(<<u, v>>, at) \o SaidIn(<<w>>, at)
  BY <1>4, SaidJoined
<1>8. <<>> \o text = text
  BY ConcatEmptySeq DEF Pieces
<1> QED
  BY <1>3, <1>5, <1>6, <1>7, <1>8 DEF u, v, w

LEMMA TextsOn ==
  ASSUME LoopTyped, AllFit(core), Struct, Texts, Translate
  PROVE  Texts'
<1>0. core # <<>> /\ OutputKept /\ Writes /\ Effects /\ LoopTyped' /\ outputIndexes' \in Partial(Nat)
  BY LoopTypedOn, EventsPlaced, EffectsOn DEF LoopTyped
<1>1. PICK i \in Nat : i = Event.index
  BY <1>0, TextTyped
<1>2. /\ Event \in CoreEvent /\ Event.delta \in Pieces
      /\ Text(i) \in Pieces /\ Lookup(toolCallArgs, i, <<>>) \in Pieces
      /\ At(i) \in Nat /\ Len(output) \in Nat /\ <<>> \in Pieces
      /\ Has(i) => At(i) = outputIndexes[i]
  BY <1>0, <1>1, TextTyped
<1>3. Deed(Event) \in Deeds => Fits(Deed(Event), i)
  BY <1>0, <1>1, HeadFits
<1>4. CASE ResponseBegins \/ ResponseEnds \/ Ignored
  <2>1. UNCHANGED <<output, outputIndexes, contentText>> /\ Deed(Event) # "text_delta"
    BY <1>4, DeedOf DEF ResponseBegins, ResponseEnds, Lifecycle, Ignored, maps
  <2> QED
    BY <1>0, <1>1, <2>1, TextsOfKept
<1>5. CASE StartText
  <2>1. /\ UNCHANGED <<output, outputIndexes>> /\ Deed(Event) = "text"
        /\ contentText' = With(contentText, i, <<>>)
    BY <1>1, <1>5, StartOf DEF StartText
  <2>2. ~ IsMessage(i)
    BY <1>3, <2>1 DEF Fits, Deeds
  <2>3. \A j \in DOMAIN contentText : j # i => contentText'[j] = contentText[j]
    BY <2>1, WithIs
  <2> QED
    BY <1>0, <1>1, <2>1, <2>2, <2>3, TextsOfKept
<1>6. CASE ToolCallArgsDelta
  <2>1. UNCHANGED <<output, outputIndexes, contentText>> /\ Deed(Event) # "text_delta"
    BY <1>6, DeedOf DEF ToolCallArgsDelta
  <2> QED
    BY <1>0, <1>1, <2>1, TextsOfKept
<1>7. CASE StartReasoning
  <2>1. /\ output' = Append(output, Item("reasoning")) /\ Deed(Event) = "reasoning"
        /\ outputIndexes' = With(outputIndexes, i, Len(output))
        /\ contentText' = With(contentText, i, <<>>)
    BY <1>1, <1>7, StartOf DEF StartReasoning
  <2>2. \A j \in DOMAIN contentText : j # i => contentText'[j] = contentText[j]
    BY <2>1, WithIs
  <2>3. "reasoning" \in ItemTypes
    BY DEF ItemTypes
  <2> QED
    BY <1>0, <1>1, <2>1, <2>2, <2>3, TextsOfBegun
<1>8. CASE StartToolUse
  <2>1. /\ output' = Append(output, Item("function_call")) /\ Deed(Event) = "tool_use"
        /\ outputIndexes' = With(outputIndexes, i, Len(output)) /\ contentText' = contentText
    BY <1>1, <1>8, StartOf DEF StartToolUse
  <2>2. "function_call" \in ItemTypes
    BY DEF ItemTypes
  <2> QED
    BY <1>0, <1>1, <2>1, <2>2, TextsOfBegun
<1>9. CASE FirstTextDelta
  <2> DEFINE ev == <<Wire("item_added", Len(output), <<>>), Wire("part_added", Len(output), <<>>),
                     Wire("text_delta", Len(output), Event.delta)>>
  <2>1. /\ output' = Append(output, Item("message")) /\ ~ Has(i) /\ Send(ev)
        /\ outputIndexes' = With(outputIndexes, i, Len(output))
        /\ contentText' = With(contentText, i, Text(i) \o Event.delta)
    BY <1>1, <1>9 DEF FirstTextDelta, Grown, Has
  <2>2. /\ i \in DOMAIN contentText' /\ contentText'[i] = Text(i) \o Event.delta
        /\ \A j \in DOMAIN contentText : j # i => contentText'[j] = contentText[j]
    <3> DEFINE grown == Text(i) \o Event.delta
    <3>1. contentText' = With(contentText, i, grown)
      BY <2>1
    <3> HIDE DEF grown
    <3>2. /\ i \in DOMAIN contentText' /\ contentText'[i] = grown
          /\ \A j \in DOMAIN contentText : j # i => contentText'[j] = contentText[j]
      BY <3>1, WithIs
    <3> QED
      BY <3>2 DEF grown
  <2>3. "message" \in ItemTypes
    BY DEF ItemTypes
  <2>4. Text(i) = <<>>
    BY <2>1 DEF Text, Lookup, Struct
  <2>5. SaidIn(sent, Len(output)) = <<>>
    <3>1. SentIn(sent, "text_delta", Len(output)) => Len(output) < Len(output)
      BY DEF Struct
    <3>2. ~ SentIn(sent, "text_delta", Len(output))
      BY <1>2, <3>1
    <3> QED
      BY <3>2, SaidNothing DEF LoopTyped
  <2>6. SaidIn(ev, Len(output)) = Event.delta /\ ev \in Seq(AWire)
    BY <1>2, FirstDeltaSaid, Names, WrittenTyped
  <2> HIDE DEF ev
  <2>7. SaidIn(sent', Len(output)) = contentText'[i]
    BY <2>1, <2>2, <2>4, <2>5, <2>6, SaidOn
  <2> QED
    BY <1>0, <1>1, <2>1, <2>2, <2>3, <2>7, TextsOfBegun
<1>10. CASE ReasoningDelta \/ TextDelta
  <2> DEFINE at == outputIndexes[i]
             ev == <<Wire("text_delta", at, Event.delta)>>
  <2>1. /\ UNCHANGED <<output, outputIndexes>> /\ Deed(Event) = "text_delta" /\ Has(i)
        /\ Send(<<Wire("text_delta", At(i), Event.delta)>>)
        /\ contentText' = With(contentText, i, Text(i) \o Event.delta)
    BY <1>1, <1>10, DeedOf DEF ReasoningDelta, TextDelta, Grown, Has, Struct
  <2>2. /\ i \in DOMAIN contentText' /\ contentText'[i] = Text(i) \o Event.delta
        /\ \A j \in DOMAIN contentText : j # i => contentText'[j] = contentText[j]
    <3> DEFINE grown == Text(i) \o Event.delta
    <3>1. contentText' = With(contentText, i, grown)
      BY <2>1
    <3> HIDE DEF grown
    <3>2. /\ i \in DOMAIN contentText' /\ contentText'[i] = grown
          /\ \A j \in DOMAIN contentText : j # i => contentText'[j] = contentText[j]
      BY <3>1, WithIs
    <3> QED
      BY <3>2 DEF grown
  <2>3. /\ Send(ev) /\ ev \in Seq(AWire) /\ SaidIn(ev, at) = Event.delta
    BY <1>2, <2>1, DeltaSaid, Names, WrittenTyped
  <2>4. SaidIn(sent', at) = SaidIn(sent, at) \o Event.delta
    BY <2>3, SaidOn
  <2>5. IsMessage(i) => i \in DOMAIN contentText /\ output[at + 1].status = "in_progress"
                        /\ SaidIn(sent, at) = contentText[i]
    <3>1. IsMessage(i) => i \in DOMAIN contentText
      BY <1>3, <2>1 DEF Fits, Speaks, Deeds
    <3>2. OpenText(i)
      BY <2>1 DEF Texts, Has
    <3> QED
      BY <3>1, <3>2 DEF OpenText
  <2>6. IsMessage(i) => Text(i) = contentText[i]
    BY <2>5 DEF Text, Lookup
  <2>7. OpenText(i)'
    BY <2>1, <2>2, <2>4, <2>5, <2>6 DEF OpenText, IsMessage, Has
  <2>8. \A p : Has(i) /\ p = outputIndexes[i] => DoneText(p)'
    BY <2>1, <2>5 DEF DoneText, IsMessage
  <2> QED
    BY <1>0, <1>1, <1>2, <2>1, <2>2, <2>7, <2>8, TextsFrom
<1>11. ASSUME NEW args \in Pieces, FinishCall(args), Has(i), Deed(Event) # "text_delta",
              outputIndexes' = outputIndexes, contentText' = contentText,
              IsMessage(i) => i \notin DOMAIN contentText
       PROVE  Texts'
  <2>1. output' = Completed(output, At(i), "function_call", args)
    BY <1>1, <1>11 DEF FinishCall, Has
  <2>2. "function_call" \in ItemTypes
    BY DEF ItemTypes
  <2> QED
    BY <1>0, <1>1, <1>11, <2>1, <2>2, TextsOfDone
<1>12. CASE ToolCallArgsDone
  <2>1. Deed(Event) = "args_done" /\ UNCHANGED <<contentText, outputIndexes>>
    BY <1>12, DeedOf DEF ToolCallArgsDone
  <2>2. CASE i \in toolCallFinalized
    <3>1. output' = output
      BY <1>1, <1>12, <2>2 DEF ToolCallArgsDone
    <3> QED
      BY <1>0, <1>1, <2>1, <3>1, TextsOfKept
  <2>3. CASE i \notin toolCallFinalized
    <3> DEFINE args == IF Event.delta # <<>> THEN Event.delta ELSE Lookup(toolCallArgs, i, <<>>)
    <3>1. FinishCall(args)
      BY <1>1, <1>12, <2>3 DEF ToolCallArgsDone
    <3>2. Has(i) /\ ~ IsMessage(i)
      BY <1>3, <2>1 DEF Fits, Deeds
    <3>3. args \in Pieces
      BY <1>2
    <3> HIDE DEF args
    <3> QED
      BY <1>11, <2>1, <3>1, <3>2, <3>3
  <2> QED
    BY <2>2, <2>3
<1>13. CASE ToolBlockDone
  <2>1. /\ FinishCall(Lookup(toolCallArgs, i, <<>>)) /\ Has(i) /\ i \notin DOMAIN contentText
        /\ UNCHANGED <<contentText, outputIndexes>> /\ Deed(Event) = "block_done"
    BY <1>1, <1>13, DeedOf DEF ToolBlockDone, Has
  <2> QED
    BY <1>2, <1>11, <2>1
<1>14. CASE ReasoningDone
  <2>1. /\ i \in reasonIndexes /\ Deed(Event) = "block_done"
        /\ output' = IF Has(i) THEN Completed(output, At(i), "reasoning", Text(i)) ELSE output
        /\ contentText' = Without(contentText, i) /\ outputIndexes' = Without(outputIndexes, i)
    BY <1>1, <1>14, DeedOf DEF ReasoningDone, Has
  <2>2. Has(i) /\ ~ IsMessage(i)
    BY <2>1 DEF Struct, Has
  <2>3. /\ i \notin DOMAIN outputIndexes'
        /\ \A j \in DOMAIN contentText : j # i => contentText'[j] = contentText[j]
    BY <2>1, WithoutIs
  <2>4. "reasoning" \in ItemTypes
    BY DEF ItemTypes
  <2> QED
    BY <1>0, <1>1, <1>2, <2>1, <2>2, <2>3, <2>4, TextsOfDone
<1>15. CASE TextBlockDone
  <2>0. Deed(Event) = "block_done" /\ contentText' = Without(contentText, i) /\ i \in DOMAIN contentText
    BY <1>1, <1>15, DeedOf DEF TextBlockDone
  <2>1. /\ i \notin DOMAIN contentText' /\ Text(i) = contentText[i]
        /\ \A j \in DOMAIN contentText : j # i => contentText'[j] = contentText[j]
    BY <2>0, WithoutIs DEF Text, Lookup
  <2>2. CASE Has(i)
    <3>1. /\ output' = Completed(output, At(i), "message", Text(i))
          /\ outputIndexes' = With(outputIndexes, i, At(i))
      BY <1>1, <1>15, <2>2 DEF TextBlockDone, Has
    <3>2. outputIndexes'[i] = outputIndexes[i]
      BY <1>2, <2>2, <3>1, WithIs
    <3>3. "message" \in ItemTypes
      BY DEF ItemTypes
    <3> QED
      BY <1>0, <1>1, <1>2, <2>0, <2>1, <2>2, <3>1, <3>2, <3>3, TextsOfDone
  <2>3. CASE ~ Has(i)
    <3> DEFINE at == Len(output)
               items == Append(output, Item("message"))
    <3>1. /\ output' = Completed(items, at, "message", Text(i))
          /\ outputIndexes' = With(outputIndexes, i, at)
      BY <1>1, <1>15, <2>3 DEF TextBlockDone, Has
    <3>2. Item("message") \in AnItem /\ output \in Seq(AnItem)
      BY ItemTyped, LengthsAre DEF ItemTypes
    <3>3. /\ items \in Seq(AnItem) /\ Len(items) = at + 1
          /\ \A n \in 1..Len(output) : items[n] = output[n]
          /\ items[at + 1] = Item("message")
      BY <3>2, Appended
    <3>4. at \in 0..(Len(items) - 1) /\ \A n \in 1..Len(output) : n \in 1..Len(items) /\ n # at + 1
      BY <1>2, <3>3
    <3> HIDE DEF items
    <3>5. /\ Len(output') = Len(items)
          /\ \A n \in 1..Len(items) : n # at + 1 => output'[n] = items[n]
          /\ output'[at + 1].type = items[at + 1].type
          /\ output'[at + 1].status = "completed"
          /\ output'[at + 1].text = IF items[at + 1].type = "message" THEN Text(i) ELSE items[at + 1].text
      BY <1>2, <3>1, <3>3, <3>4, CompletedIs
    <3>6. \A n \in 1..Len(output) : output'[n] = output[n]
      BY <3>3, <3>4, <3>5
    <3>7. output'[at + 1].text = Text(i) /\ Text(i) = <<>>
      <4>1. items[at + 1].type = "message"
        BY <3>3, ItemTyped DEF ItemTypes
      <4>2. contentText[i] = <<>>
        BY <2>0, <2>3 DEF Struct
      <4> QED
        BY <2>1, <3>5, <4>1, <4>2
    <3>8. SaidIn(sent', at) = <<>>
      <4>1. SentIn(sent, "text_delta", Len(output)) => Len(output) < Len(output)
        BY DEF Struct
      <4>2. ~ SentIn(sent, "text_delta", Len(output))
        BY <1>2, <4>1
      <4>3. SaidIn(sent, at) = <<>>
        BY <4>2, SaidNothing DEF LoopTyped
      <4> QED
        BY <1>0, <2>0, <4>3, SaidSame
    <3>9. \A p : p = Len(output) => DoneText(p)'
      BY <3>7, <3>8 DEF DoneText
    <3>10. OpenText(i)'
      <4>1. outputIndexes'[i] = at
        BY <3>1, WithIs
      <4> QED
        BY <2>1, <3>5, <4>1 DEF OpenText
    <3>11. Len(output') = Len(output) + 1
      BY <3>3, <3>5
    <3> HIDE DEF at
    <3> QED
      BY <1>0, <1>1, <2>1, <2>3, <3>6, <3>9, <3>10, <3>11, TextsFrom
  <2> QED
    BY <2>2, <2>3
<1> QED
  BY <1>4, <1>5, <1>6, <1>7, <1>8, <1>9, <1>10, <1>12, <1>13, <1>14, <1>15 DEF Translate

-----------------------------------------------------------------------------
(***************************************************************************)
(* The loop: items that are announced, and items that are done.            *)
(***************************************************************************)

\* The item of a text that ended without a delta.
Silent(at) ==
    /\ output[at + 1].type = "message"
    /\ ~ SentIn(sent, "text_delta", at) /\ ~ SentIn(sent, "item_added", at)

Tells == AboutItems \cup {"item_added"}

\* An item whose block speaks was announced.
Open(i) == Speaks(i) => SentIn(sent, "item_added", outputIndexes[i])

Ends ==
    NothingGoesAstray =>
        /\ \A j \in 1..Len(sent) : sent[j].event \in Tells => sent[j].at < Len(output)
        /\ \A i \in DOMAIN outputIndexes : Open(i)
        /\ \A j \in 1..Len(sent) :
             sent[j].event \in AboutItems =>
                 ~ Earlier(j, "item_done") /\ (Earlier(j, "item_added") \/ Silent(sent[j].at))

\* What is written of the item at a position fits what was written of it.
Told(events, at) ==
    \A k \in 1..Len(events) :
        /\ events[k].event \in Tells => events[k].at = at /\ at < Len(output')
        /\ events[k].event \in AboutItems =>
             /\ ~ SentIn(sent, "item_done", at)
             /\ \A l \in 1..(k - 1) : events[l].event # "item_done"
             /\ \/ SentIn(sent, "item_added", at)
                \/ \E l \in 1..(k - 1) : events[l].event = "item_added" /\ events[l].at = at
                \/ Silent(at)'
        /\ events[k].event \in {"text_delta", "item_added"} =>
             SentIn(sent, "item_added", at) \/ at = Len(output)

LEMMA ToldNothing == ASSUME NEW at PROVE Told(<<>>, at)
  BY DEF Told

LEMMA ToldOne ==
  ASSUME NEW d, NEW at, NEW x,
         d \in Tells => at < Len(output'),
         d \in AboutItems => ~ SentIn(sent, "item_done", at) /\ (SentIn(sent, "item_added", at) \/ Silent(at)'),
         d \in {"text_delta", "item_added"} => SentIn(sent, "item_added", at) \/ at = Len(output)
  PROVE  Told(<<Wire(d, at, x)>>, at)
<1> DEFINE ev == <<Wire(d, at, x)>>
<1>1. Len(ev) = 1 /\ ev[1].event = d /\ ev[1].at = at
  BY WireIs
<1> HIDE DEF ev
<1>2. ASSUME NEW k \in 1..Len(ev) PROVE ev[k].event = d /\ ev[k].at = at /\ 1..(k - 1) = {}
  BY <1>1
<1>3. Told(ev, at)
  BY <1>2 DEF Told
<1> QED
  BY <1>3 DEF ev

LEMMA ToldTwo ==
  ASSUME NEW d, NEW f, NEW at, NEW x, NEW y, d # "item_done", at < Len(output'),
         ~ SentIn(sent, "item_done", at),
         \/ SentIn(sent, "item_added", at)
         \/ d = "item_added" /\ at = Len(output)
  PROVE  Told(<<Wire(d, at, x), Wire(f, at, y)>>, at)
<1> DEFINE ev == <<Wire(d, at, x), Wire(f, at, y)>>
<1>1. /\ Len(ev) = 2 /\ ev[1].event = d /\ ev[1].at = at /\ ev[2].event = f /\ ev[2].at = at
  BY WireIs
<1> HIDE DEF ev
<1>2. d = "item_added" => d \notin AboutItems
  BY DEF AboutItems
<1>3. ASSUME NEW k \in 1..Len(ev)
      PROVE  \/ k = 1 /\ ev[k].event = d /\ ev[k].at = at /\ 1..(k - 1) = {}
             \/ k = 2 /\ ev[k].event = f /\ ev[k].at = at /\ 1..(k - 1) = {1}
  BY <1>1
<1>4. Told(ev, at)
  BY <1>1, <1>2, <1>3 DEF Told
<1> QED
  BY <1>4 DEF ev

LEMMA ToldThree ==
  ASSUME NEW d, NEW e, NEW f, NEW at, NEW x, NEW y, NEW z, d # "item_done", e # "item_done",
         at < Len(output'), ~ SentIn(sent, "item_done", at),
         \/ SentIn(sent, "item_added", at)
         \/ d = "item_added" /\ at = Len(output)
         \/ Silent(at)' /\ {d, e, f} \cap {"text_delta", "item_added"} = {}
  PROVE  Told(<<Wire(d, at, x), Wire(e, at, y), Wire(f, at, z)>>, at)
<1> DEFINE ev == <<Wire(d, at, x), Wire(e, at, y), Wire(f, at, z)>>
<1>1. /\ Len(ev) = 3 /\ ev[1].event = d /\ ev[1].at = at /\ ev[2].event = e /\ ev[2].at = at
      /\ ev[3].event = f /\ ev[3].at = at
  BY WireIs
<1> HIDE DEF ev
<1>2. d = "item_added" => d \notin AboutItems
  BY DEF AboutItems
<1>3. ASSUME NEW k \in 1..Len(ev)
      PROVE  \/ k = 1 /\ ev[k].event = d /\ ev[k].at = at /\ 1..(k - 1) = {}
             \/ k = 2 /\ ev[k].event = e /\ ev[k].at = at /\ 1..(k - 1) = {1}
             \/ k = 3 /\ ev[k].event = f /\ ev[k].at = at /\ 1..(k - 1) = {1, 2}
  BY <1>1
<1>4. Told(ev, at)
  BY <1>1, <1>2, <1>3 DEF Told
<1> QED
  BY <1>4 DEF ev

\* The events sent, old and new, by their place in the whole.
LEMMA SentPlaces ==
  ASSUME LoopTyped, NEW events \in Seq(AWire), Send(events)
  PROVE  /\ Len(sent) \in Nat /\ Len(events) \in Nat /\ Len(sent') = Len(sent) + Len(events)
         /\ \A k \in 1..Len(sent) : sent'[k] = sent[k]
         /\ \A k \in 1..Len(events) : sent'[Len(sent) + k] = events[k]
         /\ \A at, event : SentIn(sent', event, at) <=> SentIn(sent, event, at) \/ SentIn(events, event, at)
<1>1. sent \in Seq(AWire) /\ sent' = sent \o events
  BY DEF LoopTyped, Send
<1> QED
  BY <1>1, JoinedAt, ElementsOf, SentJoined

LEMMA EarlierKept ==
  ASSUME LoopTyped, NEW events \in Seq(AWire), Send(events), NEW j \in 1..Len(sent), NEW event
  PROVE  Earlier(j, event)' <=> Earlier(j, event)
<1>1. \A k \in 1..j : sent'[k] = sent[k]
  BY SentPlaces
<1>2. \A k \in 1..(j - 1) : k \in 1..j
  OBVIOUS
<1>3. j \in 1..j
  OBVIOUS
<1> QED
  BY <1>1, <1>2, <1>3 DEF Earlier

\* The same event, earlier among the new.
Among(events, k, event) ==
    \E l \in 1..(k - 1) : events[l].event = event /\ events[l].at = events[k].at

LEMMA EarlierNew ==
  ASSUME LoopTyped, NEW events \in Seq(AWire), Send(events), NEW n \in Nat, n = Len(sent),
         NEW k \in 1..Len(events), NEW j, j = n + k, NEW event
  PROVE  Earlier(j, event)'
         <=> SentIn(sent, event, events[k].at) \/ Among(events, k, event)
<1> DEFINE at == events[k].at
<1>1. /\ n \in Nat /\ Len(events) \in Nat /\ \A l \in 1..n : sent'[l] = sent[l]
      /\ \A l \in 1..Len(events) : sent'[n + l] = events[l]
  BY SentPlaces
<1>2. sent'[n + k].at = at
  BY <1>1
<1> HIDE DEF at
<1> SUFFICES Earlier(n + k, event)'
             <=> \/ SentIn(sent, event, at)
                 \/ \E l \in 1..(k - 1) : events[l].event = event /\ events[l].at = at
  BY DEF at, Among
<1>3. ASSUME SentIn(sent, event, at) PROVE \E l \in 1..((n + k) - 1) : sent'[l].event = event /\ sent'[l].at = at
  <2>1. PICK l \in 1..n : sent[l].event = event /\ sent[l].at = at
    BY <1>3 DEF SentIn
  <2>2. l \in 1..((n + k) - 1)
    BY <1>1
  <2> QED
    BY <1>1, <2>1, <2>2
<1>4. ASSUME NEW l \in 1..(k - 1), events[l].event = event, events[l].at = at
      PROVE  \E m \in 1..((n + k) - 1) : sent'[m].event = event /\ sent'[m].at = at
  <2>1. n + l \in 1..((n + k) - 1) /\ l \in 1..Len(events)
    BY <1>1
  <2> QED
    BY <1>1, <1>4, <2>1
<1>5. ASSUME NEW m \in 1..((n + k) - 1), sent'[m].event = event, sent'[m].at = at
      PROVE  \/ SentIn(sent, event, at)
             \/ \E l \in 1..(k - 1) : events[l].event = event /\ events[l].at = at
  <2>1. CASE m <= n
    <3>1. m \in 1..n
      BY <1>1, <2>1
    <3> QED
      BY <1>1, <1>5, <3>1 DEF SentIn
  <2>2. CASE ~ (m <= n)
    <3>1. m - n \in 1..(k - 1) /\ m - n \in 1..Len(events) /\ n + (m - n) = m
      BY <1>1, <2>2
    <3> QED
      BY <1>1, <1>5, <3>1
  <2> QED
    BY <2>1, <2>2
<1>6. Earlier(n + k, event)' <=> \E m \in 1..((n + k) - 1) : sent'[m].event = event /\ sent'[m].at = at
  <2>1. Earlier(n + k, event)' <=> \E m \in 1..((n + k) - 1) : sent'[m].event = event /\ sent'[m].at = sent'[n + k].at
    BY DEF Earlier
  <2> QED
    BY <1>2, <2>1
<1> QED
  BY <1>3, <1>4, <1>5, <1>6

LEMMA SilentKept ==
  ASSUME LoopTyped, OutputKept, NEW events \in Seq(AWire), Send(events), NEW p, Told(events, p),
         NEW at \in 0..(Len(output) - 1), Silent(at)
  PROVE  Silent(at)'
<1>1. at + 1 \in 1..Len(output) /\ at # Len(output)
  BY LengthsAre
<1>2. ASSUME NEW event \in {"text_delta", "item_added"}, SentIn(events, event, at) PROVE FALSE
  <2>1. PICK k \in 1..Len(events) : events[k].event = event /\ events[k].at = at
    BY <1>2 DEF SentIn
  <2>2. events[k].event \in Tells
    BY <2>1 DEF Tells, AboutItems
  <2>3. at = p /\ (SentIn(sent, "item_added", p) \/ p = Len(output))
    BY <2>1, <2>2 DEF Told
  <2> QED
    BY <1>1, <2>3 DEF Silent
<1>3. \A event \in {"text_delta", "item_added"} : ~ SentIn(sent', event, at)
  BY <1>2, SentPlaces DEF Silent
<1>4. output'[at + 1].type = output[at + 1].type
  BY <1>1 DEF OutputKept
<1> QED
  BY <1>3, <1>4 DEF Silent

LEMMA EndsFrom ==
  ASSUME LoopTyped, OutputKept, Effects, Ends, NothingGoesAstray,
         NEW i \in Nat, i = Event.index, outputIndexes' \in Partial(Nat),
         NEW events \in Seq(AWire), Send(events), NEW p, Told(events, p),
         i \in DOMAIN outputIndexes' => Open(i)'
  PROVE  Ends'
<1>1. /\ \A j \in 1..Len(sent) : sent[j].event \in Tells => sent[j].at < Len(output)
      /\ \A j \in DOMAIN outputIndexes : Open(j)
      /\ \A j \in 1..Len(sent) :
           sent[j].event \in AboutItems =>
             ~ Earlier(j, "item_done") /\ (Earlier(j, "item_added") \/ Silent(sent[j].at))
  BY DEF Ends
<1>2. /\ Len(sent) \in Nat /\ Len(events) \in Nat /\ Len(sent') = Len(sent) + Len(events)
      /\ \A k \in 1..Len(sent) : sent'[k] = sent[k]
      /\ \A k \in 1..Len(events) : sent'[Len(sent) + k] = events[k]
      /\ \A at, event : SentIn(sent', event, at) <=> SentIn(sent, event, at) \/ SentIn(events, event, at)
  BY SentPlaces
<1>3. Len(output) \in Nat /\ Len(output') \in Nat /\ Len(output') >= Len(output)
  BY LengthsAre, ElementsOf DEF OutputKept
<1>4. PICK n \in Nat : n = Len(sent)
  BY <1>2
<1>5. ASSUME NEW j \in 1..Len(sent')
      PROVE  \/ j \in 1..Len(sent) /\ sent'[j] = sent[j] /\ sent[j] \in AWire
             \/ \E k \in 1..Len(events) : j = n + k /\ sent'[j] = events[k] /\ events[k] \in AWire
  <2>1. CASE j <= n
    BY <1>2, <1>4, <2>1, ElementsOf DEF LoopTyped
  <2>2. CASE ~ (j <= n)
    <3>1. j - n \in 1..Len(events) /\ j = n + (j - n)
      BY <1>2, <1>4, <2>2
    <3>2. events[j - n] \in AWire
      BY <3>1, ElementsOf
    <3> QED
      BY <1>2, <1>4, <3>1, <3>2
  <2> QED
    BY <2>1, <2>2
<1>6. ASSUME NEW j \in 1..Len(sent'), sent'[j].event \in Tells PROVE sent'[j].at < Len(output')
  <2>1. CASE j \in 1..Len(sent) /\ sent'[j] = sent[j] /\ sent[j] \in AWire
    <3>1. sent[j].at < Len(output) /\ sent[j].at \in Nat
      BY <1>1, <1>6, <2>1 DEF AWire
    <3> QED
      BY <1>3, <2>1, <3>1
  <2>2. CASE \E k \in 1..Len(events) : j = n + k /\ sent'[j] = events[k] /\ events[k] \in AWire
    BY <1>6, <2>2 DEF Told
  <2> QED
    BY <1>5, <2>1, <2>2
<1>7. ASSUME NEW j \in DOMAIN outputIndexes' PROVE Open(j)'
  <2>1. CASE j = i
    BY <1>7, <2>1
  <2>2. CASE j # i
    <3>1. j \in DOMAIN outputIndexes /\ outputIndexes'[j] = outputIndexes[j] /\ j \in Nat
      BY <1>7, <2>2, PartialAt DEF OutputKept
    <3>2. Same(j)
      BY <2>2, <3>1 DEF Effects
    <3>3. Speaks(j)' => Speaks(j)
      BY <3>2 DEF Same, SamePlace, SameMaps, Speaks
    <3>4. Open(j)
      BY <1>1, <3>1
    <3>5. SentIn(sent, "item_added", outputIndexes[j]) => SentIn(sent', "item_added", outputIndexes[j])
      BY <1>2
    <3> QED
      BY <3>1, <3>3, <3>4, <3>5 DEF Open
  <2> QED
    BY <2>1, <2>2
<1>8. ASSUME NEW j \in 1..Len(sent'), sent'[j].event \in AboutItems
      PROVE  /\ ~ Earlier(j, "item_done")'
             /\ Earlier(j, "item_added")' \/ \A at : at = sent'[j].at => Silent(at)'
  <2>1. CASE j \in 1..Len(sent) /\ sent'[j] = sent[j] /\ sent[j] \in AWire
    <3>1. ~ Earlier(j, "item_done") /\ (Earlier(j, "item_added") \/ Silent(sent[j].at))
      BY <1>1, <1>8, <2>1
    <3>2. \A event : Earlier(j, event)' <=> Earlier(j, event)
      BY <2>1, EarlierKept
    <3>3. ASSUME NEW at, at = sent[j].at, Silent(at) PROVE Silent(at)'
      <4>1. sent[j].event \in Tells
        BY <1>8, <2>1 DEF Tells
      <4>2. at < Len(output) /\ at \in Nat
        BY <1>1, <2>1, <3>3, <4>1 DEF AWire
      <4>3. at \in 0..(Len(output) - 1)
        BY <1>3, <4>2
      <4> QED
        BY <3>3, <4>3, SilentKept
    <3> QED
      BY <2>1, <3>1, <3>2, <3>3
  <2>2. CASE \E k \in 1..Len(events) : j = n + k /\ sent'[j] = events[k] /\ events[k] \in AWire
    <3>1. PICK k \in 1..Len(events) : j = n + k /\ sent'[j] = events[k] /\ events[k] \in AWire
      BY <2>2
    <3>2. events[k].event \in AboutItems /\ events[k].event \in Tells
      BY <1>8, <3>1 DEF Tells
    <3>3. /\ events[k].at = p
          /\ ~ SentIn(sent, "item_done", p)
          /\ \A l \in 1..(k - 1) : events[l].event # "item_done"
          /\ \/ SentIn(sent, "item_added", p)
             \/ \E l \in 1..(k - 1) : events[l].event = "item_added" /\ events[l].at = p
             \/ Silent(p)'
      BY <3>2 DEF Told
    <3>4. ASSUME NEW event
          PROVE  Earlier(j, event)'
                 <=> SentIn(sent, event, events[k].at) \/ Among(events, k, event)
      <4>1. LoopTyped
        OBVIOUS
      <4>2. Send(events)
        OBVIOUS
      <4>3. n = Len(sent)
        BY <1>4
      <4>4. j = n + k
        BY <3>1
      <4> QED
        BY <4>1, <4>2, <4>3, <4>4, EarlierNew, Zenon
    <3> QED
      BY <3>1, <3>3, <3>4 DEF Among
  <2> QED
    BY <1>5, <2>1, <2>2
<1>9. ASSUME NEW j \in 1..Len(sent'), sent'[j].event \in AboutItems
      PROVE  ~ Earlier(j, "item_done")' /\ (Earlier(j, "item_added")' \/ Silent(sent[j].at)')
  BY <1>8, <1>9 DEF Silent
<1> QED
  BY <1>6, <1>7, <1>9 DEF Ends

\* Under what the block of an event fits, its item was announced and is not done.
LEMMA AnnouncedIf ==
  ASSUME LoopTyped, Ends, NothingGoesAstray, NEW i, Has(i)
  PROVE  Speaks(i) => SentIn(sent, "item_added", outputIndexes[i])
  BY DEF Ends, Open, Has

\* Nothing was written of an item that is not there yet.
LEMMA NothingOfNew ==
  ASSUME LoopTyped, Ends, NothingGoesAstray, NEW event \in Tells
  PROVE  ~ SentIn(sent, event, Len(output))
<1> SUFFICES ASSUME SentIn(sent, event, Len(output)) PROVE FALSE
  OBVIOUS
<1>1. PICK k \in 1..Len(sent) : sent[k].event = event /\ sent[k].at = Len(output)
  BY DEF SentIn
<1>2. Len(output) < Len(output)
  BY <1>1 DEF Ends
<1> QED
  BY <1>2, LengthsAre

LEMMA EndsOn ==
  ASSUME LoopTyped, AllFit(core), Struct, Ends, Translate, NothingGoesAstray
  PROVE  Ends'
<1>0. /\ core # <<>> /\ OutputKept /\ Writes /\ Effects /\ LoopTyped'
      /\ outputIndexes' \in Partial(Nat)
  BY LoopTypedOn, EventsPlaced, EffectsOn DEF LoopTyped
<1>1. PICK i \in Nat : i = Event.index
  BY <1>0, TextTyped
<1>2. /\ Event \in CoreEvent /\ Event.delta \in Pieces
      /\ Text(i) \in Pieces /\ Lookup(toolCallArgs, i, <<>>) \in Pieces
      /\ At(i) \in Nat /\ Len(output) \in Nat /\ <<>> \in Pieces
      /\ Has(i) => At(i) = outputIndexes[i]
  BY <1>0, <1>1, TextTyped
<1>3. Deed(Event) \in Deeds => Fits(Deed(Event), i)
  BY <1>0, <1>1, HeadFits
<1>4. /\ Len(output') \in Nat /\ Len(output') >= Len(output)
      /\ Has(i) => outputIndexes[i] \in Nat /\ outputIndexes[i] < Len(output')
  BY <1>0, <1>2, PlaceOf, ElementsOf DEF OutputKept
<1>5. PICK new \in Nat : new = Len(output)
  BY <1>2
<1>6. PICK at : Has(i) => at = outputIndexes[i]
  OBVIOUS
<1>7. /\ ~ SentIn(sent, "item_done", new) /\ ~ SentIn(sent, "item_added", new)
      /\ ~ SentIn(sent, "text_delta", new)
  BY <1>5, NothingOfNew DEF Tells, AboutItems
<1>8. Has(i) /\ Speaks(i) => SentIn(sent, "item_added", at)
  BY <1>6, AnnouncedIf
<1>9. Has(i) /\ Live(i) => ~ SentIn(sent, "item_done", at)
  BY <1>6 DEF Live
\* The place of the block stays, and it does not begin to speak.
<1>10. ASSUME NEW events \in Seq(AWire), Send(events), outputIndexes' = outputIndexes,
              Speaks(i)' => Speaks(i)
       PROVE  i \in DOMAIN outputIndexes' => Open(i)'
  <2>1. Has(i) => Open(i)
    BY DEF Ends, Has
  <2>2. Has(i) /\ SentIn(sent, "item_added", at) => SentIn(sent', "item_added", at)
    BY <1>10, SentPlaces
  <2> QED
    BY <1>6, <1>10, <2>1, <2>2 DEF Open, Has
<1>11. ASSUME outputIndexes' = outputIndexes, i \in DOMAIN contentText' => i \in DOMAIN contentText
       PROVE  Speaks(i)' => Speaks(i)
  <2>1. Has(i) => output'[outputIndexes[i] + 1].type = output[outputIndexes[i] + 1].type
    BY <1>0, PlaceOf DEF OutputKept
  <2> QED
    BY <1>11, <2>1 DEF Speaks, IsMessage, Has
<1>12. CASE ResponseBegins \/ ResponseEnds
  <2>1. PICK type \in {"created", "in_progress", "completed", "incomplete", "failed"} :
          Send(<<Wire(type, Len(output), <<>>)>>) /\ UNCHANGED <<outputIndexes, contentText>>
    BY <1>12 DEF ResponseBegins, ResponseEnds, Lifecycle, maps
  <2> DEFINE ev == <<Wire(type, new, <<>>)>>
  <2>2. type \in WireNames /\ type \notin Tells
    BY DEF WireNames, CoreTypes, Tells, AboutItems
  <2>3. Send(ev) /\ ev \in Seq(AWire)
    BY <1>2, <1>5, <2>1, <2>2, Names, WrittenTyped
  <2>4. Told(ev, new)
    BY <2>2, ToldOne DEF Tells, AboutItems
  <2> HIDE DEF ev
  <2>5. i \in DOMAIN outputIndexes' => Open(i)'
    BY <1>10, <1>11, <2>1, <2>3
  <2> QED
    BY <1>0, <1>1, <2>3, <2>4, <2>5, EndsFrom
<1>13. CASE StartText \/ Ignored
  <2>1. sent' = sent /\ outputIndexes' = outputIndexes
    BY <1>13 DEF StartText, Ignored, maps
  <2>2. Speaks(i)' => Speaks(i)
    <3>1. CASE StartText
      <4>1. Deed(Event) = "text"
        BY <3>1, StartOf DEF StartText
      <4>2. ~ IsMessage(i)
        BY <1>3, <4>1 DEF Fits, Deeds
      <4> QED
        BY <4>2 DEF Speaks
    <3>2. CASE Ignored
      BY <1>11, <2>1, <3>2 DEF Ignored, maps
    <3> QED
      BY <1>13, <3>1, <3>2
  <2>3. Send(<<>>) /\ <<>> \in Seq(AWire)
    BY <2>1, NothingSent
  <2>4. i \in DOMAIN outputIndexes' => Open(i)'
    BY <1>10, <2>1, <2>2, <2>3
  <2>5. Told(<<>>, new)
    BY ToldNothing
  <2> QED
    BY <1>0, <1>1, <2>3, <2>4, <2>5, EndsFrom
\* A block that begins with an item.
<1>14. ASSUME outputIndexes' = With(outputIndexes, i, Len(output)),
              NEW events \in Seq(AWire), Send(events), SentIn(events, "item_added", new)
       PROVE  i \in DOMAIN outputIndexes' => Open(i)'
  <2>1. outputIndexes'[i] = new
    BY <1>5, <1>14, WithIs
  <2>2. SentIn(sent', "item_added", new)
    BY <1>14, SentPlaces
  <2> QED
    BY <2>1, <2>2 DEF Open
<1>15. ASSUME NEW type \in ItemTypes, output' = Append(output, Item(type))
       PROVE  new < Len(output')
  BY <1>2, <1>5, <1>15, OneLonger
<1>16. CASE StartReasoning
  <2> DEFINE ev == <<Wire("item_added", new, <<>>), Wire("part_added", new, <<>>)>>
  <2>1. /\ output' = Append(output, Item("reasoning"))
        /\ outputIndexes' = With(outputIndexes, i, Len(output)) /\ Send(ev)
    BY <1>1, <1>5, <1>16 DEF StartReasoning
  <2>2. ev \in Seq(AWire)
    BY <1>2, Names, WrittenTyped
  <2>3. Told(ev, new)
    BY <1>5, <1>7, <1>15, <2>1, ToldTwo DEF ItemTypes
  <2>4. SentIn(ev, "item_added", new)
    BY SentWires
  <2> HIDE DEF ev
  <2> QED
    BY <1>0, <1>1, <1>14, <2>1, <2>2, <2>3, <2>4, EndsFrom
<1>17. CASE StartToolUse
  <2> DEFINE ev == <<Wire("item_added", new, <<>>)>>
  <2>1. /\ output' = Append(output, Item("function_call"))
        /\ outputIndexes' = With(outputIndexes, i, Len(output)) /\ Send(ev)
    BY <1>1, <1>5, <1>17 DEF StartToolUse
  <2>2. ev \in Seq(AWire)
    BY <1>2, Names, WrittenTyped
  <2>3. Told(ev, new)
    BY <1>5, <1>7, <1>15, <2>1, ToldOne DEF ItemTypes, AboutItems
  <2>4. SentIn(ev, "item_added", new)
    BY SentWire
  <2> HIDE DEF ev
  <2> QED
    BY <1>0, <1>1, <1>14, <2>1, <2>2, <2>3, <2>4, EndsFrom
<1>18. CASE FirstTextDelta
  <2> DEFINE ev == <<Wire("item_added", new, <<>>), Wire("part_added", new, <<>>),
                     Wire("text_delta", new, Event.delta)>>
  <2>1. /\ output' = Append(output, Item("message"))
        /\ outputIndexes' = With(outputIndexes, i, Len(output)) /\ Send(ev)
    BY <1>1, <1>5, <1>18 DEF FirstTextDelta
  <2>2. ev \in Seq(AWire)
    BY <1>2, Names, WrittenTyped
  <2>3. Told(ev, new)
    BY <1>5, <1>7, <1>15, <2>1, ToldThree DEF ItemTypes
  <2>4. SentIn(ev, "item_added", new)
    BY SentMoreWires
  <2> HIDE DEF ev
  <2> QED
    BY <1>0, <1>1, <1>14, <2>1, <2>2, <2>3, <2>4, EndsFrom
\* One event of an item that is announced and not done.
<1>19. ASSUME NEW d \in WireNames, NEW x \in Pieces, Has(i), Live(i), Speaks(i),
              Send(<<Wire(d, At(i), x)>>)
       PROVE  /\ Told(<<Wire(d, at, x)>>, at) /\ Send(<<Wire(d, at, x)>>)
              /\ <<Wire(d, at, x)>> \in Seq(AWire)
  <2>1. Send(<<Wire(d, at, x)>>) /\ at \in Nat /\ at < Len(output')
    BY <1>2, <1>4, <1>6, <1>19
  <2>2. Told(<<Wire(d, at, x)>>, at)
    BY <1>8, <1>9, <1>19, <2>1, ToldOne
  <2>3. <<Wire(d, at, x)>> \in Seq(AWire)
    BY <2>1, WrittenTyped
  <2> QED
    BY <2>1, <2>2, <2>3
<1>20. CASE ReasoningDelta \/ TextDelta
  <2>1. /\ Has(i) /\ Deed(Event) = "text_delta" /\ outputIndexes' = outputIndexes
        /\ Send(<<Wire("text_delta", At(i), Event.delta)>>)
    BY <1>1, <1>20, DeedOf DEF ReasoningDelta, TextDelta, Has, Struct
  <2>2. Speaks(i) /\ Live(i)
    BY <1>3, <2>1 DEF Fits, Deeds
  <2> DEFINE ev == <<Wire("text_delta", at, Event.delta)>>
  <2>3. Told(ev, at) /\ Send(ev) /\ ev \in Seq(AWire)
    BY <1>2, <1>19, <2>1, <2>2, Names
  <2> HIDE DEF ev
  <2>4. i \in DOMAIN outputIndexes' => Open(i)'
    BY <1>10, <2>1, <2>2, <2>3
  <2> QED
    BY <1>0, <1>1, <2>3, <2>4, EndsFrom
<1>21. CASE ToolCallArgsDelta
  <2>1. /\ Deed(Event) = "args_delta" /\ outputIndexes' = outputIndexes
        /\ contentText' = contentText /\ Send(<<Wire("args_delta", At(i), Event.delta)>>)
    BY <1>1, <1>21, DeedOf DEF ToolCallArgsDelta
  <2>2. Has(i) /\ Speaks(i) /\ Live(i)
    BY <1>3, <2>1 DEF Fits, Deeds, Speaks
  <2> DEFINE ev == <<Wire("args_delta", at, Event.delta)>>
  <2>3. Told(ev, at) /\ Send(ev) /\ ev \in Seq(AWire)
    BY <1>2, <1>19, <2>1, <2>2, Names
  <2> HIDE DEF ev
  <2>4. i \in DOMAIN outputIndexes' => Open(i)'
    BY <1>10, <2>1, <2>2, <2>3
  <2> QED
    BY <1>0, <1>1, <2>3, <2>4, EndsFrom
<1>22. CASE ReasoningDone
  <2>1. /\ i \in reasonIndexes /\ Deed(Event) = "block_done"
        /\ outputIndexes' = Without(outputIndexes, i) /\ Send(<<Wire("part_done", At(i), Text(i))>>)
    BY <1>1, <1>22, DeedOf DEF ReasoningDone
  <2>2. Has(i) /\ Speaks(i) /\ Live(i)
    BY <1>3, <2>1 DEF Fits, Deeds, Idle, Struct, Has
  <2> DEFINE ev == <<Wire("part_done", at, Text(i))>>
  <2>3. Told(ev, at) /\ Send(ev) /\ ev \in Seq(AWire)
    BY <1>2, <1>19, <2>1, <2>2, Names
  <2> HIDE DEF ev
  <2>4. i \notin DOMAIN outputIndexes'
    BY <2>1, WithoutIs
  <2> QED
    BY <1>0, <1>1, <2>3, <2>4, EndsFrom
<1>23. ASSUME NEW args \in Pieces, FinishCall(args), Has(i), Live(i), Speaks(i),
              outputIndexes' = outputIndexes, contentText' = contentText
       PROVE  Ends'
  <2>1. /\ output' = Completed(output, At(i), "function_call", args)
        /\ Send(<<Wire("args_done", At(i), args), Wire("item_done", At(i), output'[At(i) + 1].text)>>)
    BY <1>1, <1>23 DEF FinishCall, Has
  <2>2. PICK text \in Pieces : text = output'[At(i) + 1].text
    BY <1>0, <1>1, <1>2, <1>23, <2>1, ItemDone
  <2> DEFINE ev == <<Wire("args_done", at, args), Wire("item_done", at, text)>>
  <2>3. at \in Nat /\ at < Len(output')
    BY <1>4, <1>6, <1>23
  <2>4. Send(ev) /\ ev \in Seq(AWire)
    BY <1>2, <1>6, <1>23, <2>1, <2>2, <2>3, Names, WrittenTyped
  <2>5. Told(ev, at)
    BY <1>8, <1>9, <1>23, <2>3, ToldTwo
  <2> HIDE DEF ev
  <2>6. i \in DOMAIN outputIndexes' => Open(i)'
    BY <1>10, <1>23, <2>4
  <2> QED
    BY <1>0, <1>1, <2>4, <2>5, <2>6, EndsFrom
<1>24. CASE ToolCallArgsDone
  <2>1. Deed(Event) = "args_done" /\ UNCHANGED <<contentText, outputIndexes>>
    BY <1>24, DeedOf DEF ToolCallArgsDone
  <2>2. Has(i) /\ Live(i) /\ Speaks(i)
    BY <1>3, <2>1 DEF Fits, Deeds, Speaks
  <2>3. CASE i \in toolCallFinalized
    <3>1. sent' = sent
      BY <1>1, <1>24, <2>3 DEF ToolCallArgsDone
    <3>2. Send(<<>>) /\ <<>> \in Seq(AWire) /\ Told(<<>>, new)
      BY <3>1, NothingSent, ToldNothing
    <3>3. i \in DOMAIN outputIndexes' => Open(i)'
      BY <1>10, <2>1, <2>2, <3>2
    <3> QED
      BY <1>0, <1>1, <3>2, <3>3, EndsFrom
  <2>4. CASE i \notin toolCallFinalized
    <3> DEFINE args == IF Event.delta # <<>> THEN Event.delta ELSE Lookup(toolCallArgs, i, <<>>)
    <3>1. FinishCall(args) /\ args \in Pieces
      BY <1>1, <1>2, <1>24, <2>4 DEF ToolCallArgsDone
    <3> HIDE DEF args
    <3> QED
      BY <1>23, <2>1, <2>2, <3>1
  <2> QED
    BY <2>3, <2>4
<1>25. CASE ToolBlockDone
  <2>1. /\ FinishCall(Lookup(toolCallArgs, i, <<>>)) /\ Has(i) /\ i \notin toolCallFinalized
        /\ UNCHANGED <<contentText, outputIndexes>> /\ Deed(Event) = "block_done"
    BY <1>1, <1>25, DeedOf DEF ToolBlockDone, Has
  <2>2. Live(i) /\ Speaks(i)
    BY <1>3, <2>1 DEF Fits, Deeds
  <2> QED
    BY <1>2, <1>23, <2>1, <2>2
<1>26. CASE TextBlockDone
  <2>1. /\ Deed(Event) = "block_done" /\ contentText' = Without(contentText, i)
        /\ i \in DOMAIN contentText
    BY <1>1, <1>26, DeedOf DEF TextBlockDone
  <2>2. Live(i) /\ Speaks(i)
    BY <1>3, <2>1 DEF Fits, Deeds, Idle
  <2>3. i \notin DOMAIN contentText'
    BY <2>1, WithoutIs
  <2>5. CASE Has(i)
    <3>1. /\ output' = Completed(output, At(i), "message", Text(i))
          /\ outputIndexes' = With(outputIndexes, i, At(i))
          /\ Send(<<Wire("text_done", At(i), Text(i)), Wire("part_done", At(i), <<>>),
                    Wire("item_done", At(i), output'[At(i) + 1].text)>>)
      BY <1>1, <1>26, <2>5 DEF TextBlockDone, Has
    <3>2. PICK text \in Pieces : text = output'[At(i) + 1].text
      BY <1>0, <1>1, <1>2, <2>5, <3>1, ItemDone
    <3> DEFINE ev == <<Wire("text_done", at, Text(i)), Wire("part_done", at, <<>>), Wire("item_done", at, text)>>
    <3>3. at \in Nat /\ at < Len(output') /\ At(i) = at
      BY <1>2, <1>4, <1>6, <2>5
    <3>4. Send(ev) /\ ev \in Seq(AWire)
      BY <1>2, <3>1, <3>2, <3>3, Names, WrittenTyped
    <3>5. Told(ev, at)
      BY <1>8, <1>9, <2>2, <2>5, <3>3, ToldThree
    <3> HIDE DEF ev
    <3>6. Open(i)'
      <4>1. outputIndexes'[i] = at /\ SentIn(sent', "item_added", at)
        BY <1>8, <2>2, <2>5, <3>1, <3>3, <3>4, SentPlaces, WithIs
      <4> QED
        BY <4>1 DEF Open
    <3> QED
      BY <1>0, <1>1, <3>4, <3>5, <3>6, EndsFrom
  <2>6. CASE ~ Has(i)
    <3> DEFINE items == Append(output, Item("message"))
    <3>1. /\ output' = Completed(items, new, "message", Text(i))
          /\ outputIndexes' = With(outputIndexes, i, new)
          /\ Send(<<Wire("text_done", new, Text(i)), Wire("part_done", new, <<>>),
                    Wire("item_done", new, output'[new + 1].text)>>)
      BY <1>1, <1>5, <1>26, <2>6 DEF TextBlockDone, Has
    <3>2. Item("message") \in AnItem /\ output \in Seq(AnItem) /\ Item("message").type = "message"
      BY ItemTyped, LengthsAre DEF ItemTypes
    <3>3. /\ items \in Seq(AnItem) /\ Len(items) = new + 1 /\ items[new + 1] = Item("message")
      BY <1>5, <3>2, Appended
    <3>4. new \in 0..(Len(items) - 1)
      BY <3>3
    <3> HIDE DEF items
    <3>5. /\ output' \in Seq(AnItem) /\ Len(output') = Len(items)
          /\ output'[new + 1].type = items[new + 1].type
      BY <1>2, <3>1, <3>3, <3>4, CompletedIs
    <3>6. new < Len(output') /\ new + 1 \in 1..Len(output') /\ output'[new + 1].type = "message"
      BY <3>2, <3>3, <3>5
    <3>7. PICK text \in Pieces : text = output'[new + 1].text
      <4>1. output'[new + 1] \in AnItem
        BY <3>5, <3>6, ElementsOf
      <4> QED
        BY <4>1 DEF AnItem
    <3> DEFINE ev == <<Wire("text_done", new, Text(i)), Wire("part_done", new, <<>>), Wire("item_done", new, text)>>
    <3>8. Send(ev) /\ ev \in Seq(AWire)
      BY <1>2, <3>1, <3>7, Names, WrittenTyped
    <3>9. Silent(new)'
      <4>1. \A event \in {"text_delta", "item_added"} : ~ SentIn(ev, event, new)
        BY SentMoreWires
      <4> HIDE DEF ev
      <4>2. \A event \in {"text_delta", "item_added"} : ~ SentIn(sent', event, new)
        BY <1>7, <3>8, <4>1, SentPlaces
      <4> QED
        BY <3>6, <4>2 DEF Silent
    <3>10. Told(ev, new)
      BY <1>7, <3>6, <3>9, ToldThree
    <3> HIDE DEF ev
    <3>11. Open(i)'
      <4>1. outputIndexes'[i] = new /\ i \in DOMAIN outputIndexes'
        BY <3>1, WithIs
      <4>2. ~ Speaks(i)'
        BY <2>3, <3>6, <4>1 DEF Speaks, IsMessage, Has
      <4> QED
        BY <4>2 DEF Open
    <3> QED
      BY <1>0, <1>1, <3>8, <3>10, <3>11, EndsFrom
  <2> QED
    BY <2>5, <2>6
<1> QED
  BY <1>12, <1>13, <1>16, <1>17, <1>18, <1>20, <1>21, <1>22, <1>24, <1>25, <1>26 DEF Translate

-----------------------------------------------------------------------------
(***************************************************************************)
(* What an adapter emits, event by event. `fits` is the set of what fits   *)
(* before the first of them.                                               *)
(***************************************************************************)

Pairs == Deeds \X Nat

\* What fits after the first n events of a queue.
Allows(fits, queue, n) ==
    {p \in Pairs :
        \/ p \in fits /\ \A j \in 1..n : Leaves(queue[j], p[1], p[2])
        \/ \E j \in 1..n : /\ Makes(queue[j], p[1], p[2])
                           /\ \A l \in (j + 1)..n : Leaves(queue[l], p[1], p[2])}
Comes(fits, queue) == Allows(fits, queue, Len(queue))

Sound(fits, queue) ==
    /\ queue \in Seq(CoreEvent)
    /\ \A k \in 1..Len(queue) :
         Deed(queue[k]) \in Deeds => <<Deed(queue[k]), queue[k].index>> \in Allows(fits, queue, k - 1)

LEMMA NothingEmitted ==
  ASSUME NEW fits \in SUBSET Pairs
  PROVE  Sound(fits, <<>>) /\ Comes(fits, <<>>) = fits
  BY DEF Sound, Comes, Allows

LEMMA AllowsSame ==
  ASSUME NEW fits, NEW s, NEW t, NEW n \in Nat, \A k \in 1..n : s[k] = t[k]
  PROVE  Allows(fits, s, n) = Allows(fits, t, n)
<1>1. ASSUME NEW p \in Pairs PROVE p \in Allows(fits, s, n) <=> p \in Allows(fits, t, n)
  <2>1. \A j \in 1..n : \A l \in (j + 1)..n : l \in 1..n
    OBVIOUS
  <2> QED
    BY <2>1 DEF Allows
<1> QED
  BY <1>1 DEF Allows

LEMMA Emitted ==
  ASSUME NEW fits, NEW queue, Sound(fits, queue), NEW e \in CoreEvent,
         Deed(e) \in Deeds => <<Deed(e), e.index>> \in Comes(fits, queue)
  PROVE  /\ Sound(fits, Append(queue, e))
         /\ \A p \in Pairs :
              (p \in Comes(fits, queue) /\ Leaves(e, p[1], p[2])) \/ Makes(e, p[1], p[2]) =>
                p \in Comes(fits, Append(queue, e))
<1> DEFINE n == Len(queue)
           longer == Append(queue, e)
<1>1. /\ n \in Nat /\ queue \in Seq(CoreEvent) /\ longer \in Seq(CoreEvent) /\ Len(longer) = n + 1
      /\ \A k \in 1..n : longer[k] = queue[k]
      /\ longer[n + 1] = e
  BY ElementsOf, Appended DEF Sound
<1> HIDE DEF n, longer
<1>2. \A k \in 0..n : Allows(fits, longer, k) = Allows(fits, queue, k)
  BY <1>1, AllowsSame
<1>3. ASSUME NEW k \in 1..Len(longer), Deed(longer[k]) \in Deeds
      PROVE  <<Deed(longer[k]), longer[k].index>> \in Allows(fits, longer, k - 1)
  <2>1. CASE k \in 1..n
    <3>1. k - 1 \in 0..n /\ longer[k] = queue[k]
      BY <1>1, <2>1
    <3>2. <<Deed(queue[k]), queue[k].index>> \in Allows(fits, queue, k - 1)
      BY <1>3, <2>1, <3>1 DEF Sound, n
    <3> QED
      BY <1>2, <3>1, <3>2
  <2>2. CASE k = n + 1
    <3>1. k - 1 = n /\ n \in 0..n
      BY <1>1, <2>2
    <3>2. <<Deed(e), e.index>> \in Allows(fits, queue, n)
      BY <1>1, <1>3, <2>2 DEF Comes, n
    <3> QED
      BY <1>1, <1>2, <2>2, <3>1, <3>2
  <2> QED
    BY <1>1, <2>1, <2>2
<1>4. ASSUME NEW p \in Pairs,
             (p \in Comes(fits, queue) /\ Leaves(e, p[1], p[2])) \/ Makes(e, p[1], p[2])
      PROVE  p \in Comes(fits, longer)
  <2>1. 1..(n + 1) = (1..n) \cup {n + 1} /\ n + 1 \in 1..(n + 1)
    BY <1>1
  <2>2. CASE Makes(e, p[1], p[2])
    <3>1. ((n + 1) + 1)..(n + 1) = {}
      BY <1>1
    <3> QED
      BY <1>1, <2>1, <2>2, <3>1 DEF Comes, Allows
  <2>3. CASE p \in Comes(fits, queue) /\ Leaves(e, p[1], p[2])
    <3>1. CASE p \in fits /\ \A j \in 1..n : Leaves(queue[j], p[1], p[2])
      <4>1. \A j \in 1..(n + 1) : Leaves(longer[j], p[1], p[2])
        BY <1>1, <2>1, <2>3, <3>1
      <4> QED
        BY <1>1, <3>1, <4>1 DEF Comes, Allows
    <3>2. CASE \E j \in 1..n : /\ Makes(queue[j], p[1], p[2])
                               /\ \A l \in (j + 1)..n : Leaves(queue[l], p[1], p[2])
      <4>1. PICK j \in 1..n : /\ Makes(queue[j], p[1], p[2])
                              /\ \A l \in (j + 1)..n : Leaves(queue[l], p[1], p[2])
        BY <3>2
      <4>2. \A l \in (j + 1)..(n + 1) : l = n + 1 \/ (l \in (j + 1)..n /\ l \in 1..n)
        BY <1>1
      <4>3. \A l \in (j + 1)..(n + 1) : Leaves(longer[l], p[1], p[2])
        BY <1>1, <2>3, <4>1, <4>2
      <4>4. Makes(longer[j], p[1], p[2]) /\ j \in 1..(n + 1)
        BY <1>1, <4>1
      <4> QED
        BY <1>1, <4>3, <4>4 DEF Comes, Allows
    <3> QED
      BY <2>3, <3>1, <3>2 DEF Comes, Allows, n
  <2> QED
    BY <1>4, <2>2, <2>3
<1> QED
  BY <1>1, <1>3, <1>4 DEF Sound, longer

\* What is so after an event: what it leaves and what it makes.
After(before, after, e) ==
    \A p \in Pairs :
        (p \in before /\ Leaves(e, p[1], p[2])) \/ Makes(e, p[1], p[2]) => p \in after
Elsewhere(before, after, i) ==
    \A deed \in Deeds, j \in Nat : j # i /\ <<deed, j>> \in before => <<deed, j>> \in after

LEMMA EmittedAfter ==
  ASSUME NEW fits, NEW queue, Sound(fits, queue), NEW e \in CoreEvent,
         Deed(e) \in Deeds => <<Deed(e), e.index>> \in Comes(fits, queue)
  PROVE  /\ Sound(fits, Append(queue, e))
         /\ After(Comes(fits, queue), Comes(fits, Append(queue, e)), e)
  BY Emitted DEF After

LEMMA AfterAt ==
  ASSUME NEW before, NEW after, NEW e \in CoreEvent, After(before, after, e), NEW d, d = Deed(e)
  PROVE  /\ Elsewhere(before, after, e.index)
         /\ \A deed \in Deeds : <<d, deed>> \in Made => <<deed, e.index>> \in after
         /\ \A deed \in Deeds :
              <<d, deed>> \in Left /\ <<deed, e.index>> \in before => <<deed, e.index>> \in after
<1>1. e.index \in Nat
  BY DEF CoreEvent
<1>2. ASSUME NEW deed \in Deeds, NEW j \in Nat PROVE <<deed, j>> \in Pairs
  BY DEF Pairs
<1>3. ASSUME NEW deed \in Deeds, NEW j \in Nat
      PROVE  (<<deed, j>> \in before /\ Leaves(e, deed, j)) \/ Makes(e, deed, j) => <<deed, j>> \in after
  BY <1>2 DEF After
<1>4. Elsewhere(before, after, e.index)
  BY <1>3 DEF Elsewhere, Leaves
<1> QED
  BY <1>1, <1>3, <1>4 DEF Leaves, Makes

LEMMA AfterNone ==
  ASSUME NEW fits, NEW before \in SUBSET Pairs, NEW after, NEW e \in CoreEvent, After(before, after, e),
         Deed(e) \notin Deeds \/ Deed(e) = "args_delta"
  PROVE  before \subseteq after
  BY DEF After, Leaves

LEMMA ComesPairs == ASSUME NEW fits, NEW queue PROVE Comes(fits, queue) \in SUBSET Pairs
  BY DEF Comes, Allows

LEMMA EventsTyped ==
  /\ \A type \in CoreTypes : /\ Core(type) \in CoreEvent /\ Core(type).index = 0 /\ Core(type).type = type
                             /\ Core(type).block = "none"
  /\ \A i \in Nat, kind \in {"text", "reasoning", "tool_use"} :
       /\ BlockStarted(i, kind) \in CoreEvent /\ BlockStarted(i, kind).index = i
       /\ Deed(BlockStarted(i, kind)) = kind
  /\ \A i \in Nat, type \in {"text_delta", "args_delta", "args_done"}, text \in Pieces :
       /\ Delta(type, i, text) \in CoreEvent /\ Delta(type, i, text).index = i
       /\ Deed(Delta(type, i, text)) = type
  /\ \A i \in Nat :
       /\ BlockDone(i) \in CoreEvent /\ BlockDone(i).index = i /\ Deed(BlockDone(i)) = "block_done"
       /\ SignedBlockDone(i) \in CoreEvent /\ SignedBlockDone(i).index = i
       /\ Deed(SignedBlockDone(i)) = "block_done"
<1>1. <<>> \in Pieces
  BY DEF Pieces
<1>2. ASSUME NEW type \in CoreTypes
      PROVE  /\ Core(type) \in CoreEvent /\ Core(type).index = 0 /\ Core(type).type = type
             /\ Core(type).block = "none"
  BY <1>1 DEF Core, CoreEvent
<1>3. ASSUME NEW i \in Nat, NEW kind \in {"text", "reasoning", "tool_use"}
      PROVE  /\ BlockStarted(i, kind) \in CoreEvent /\ BlockStarted(i, kind).index = i
             /\ Deed(BlockStarted(i, kind)) = kind
  BY <1>1 DEF Core, CoreEvent, BlockStarted, Deed, CoreTypes
<1>4. ASSUME NEW i \in Nat, NEW type \in {"text_delta", "args_delta", "args_done"}, NEW text \in Pieces
      PROVE  /\ Delta(type, i, text) \in CoreEvent /\ Delta(type, i, text).index = i
             /\ Deed(Delta(type, i, text)) = type
  BY <1>1 DEF Core, CoreEvent, Delta, Deed, CoreTypes
<1>5. ASSUME NEW i \in Nat
      PROVE  /\ BlockDone(i) \in CoreEvent /\ BlockDone(i).index = i /\ Deed(BlockDone(i)) = "block_done"
             /\ SignedBlockDone(i) \in CoreEvent /\ SignedBlockDone(i).index = i
             /\ Deed(SignedBlockDone(i)) = "block_done"
  BY <1>1 DEF Core, CoreEvent, BlockDone, SignedBlockDone, Deed, CoreTypes
<1> QED
  BY <1>2, <1>3, <1>4, <1>5

LEMMA EmitText ==
  ASSUME NEW fits, NEW queue, Sound(fits, queue), NEW i \in Nat, <<"text", i>> \in Comes(fits, queue),
         NEW longer, longer = Append(queue, BlockStarted(i, "text"))
  PROVE  /\ Sound(fits, longer) /\ Elsewhere(Comes(fits, queue), Comes(fits, longer), i)
         /\ <<"text_delta", i>> \in Comes(fits, longer) /\ <<"block_done", i>> \in Comes(fits, longer)
         /\ <<"args_delta", i>> \in Comes(fits, queue) => <<"args_delta", i>> \in Comes(fits, longer)
<1> DEFINE e == BlockStarted(i, "text")
<1>1. e \in CoreEvent /\ e.index = i /\ Deed(e) = "text"
  BY EventsTyped
<1> HIDE DEF e
<1>2. Sound(fits, longer) /\ After(Comes(fits, queue), Comes(fits, longer), e)
  BY <1>1, EmittedAfter DEF e
<1> QED
  BY <1>1, <1>2, AfterAt DEF Made, Left, Deeds

LEMMA EmitReasoning ==
  ASSUME NEW fits, NEW queue, Sound(fits, queue), NEW i \in Nat, <<"reasoning", i>> \in Comes(fits, queue),
         NEW longer, longer = Append(queue, BlockStarted(i, "reasoning"))
  PROVE  /\ Sound(fits, longer) /\ Elsewhere(Comes(fits, queue), Comes(fits, longer), i)
         /\ <<"text_delta", i>> \in Comes(fits, longer) /\ <<"block_done", i>> \in Comes(fits, longer)
<1> DEFINE e == BlockStarted(i, "reasoning")
<1>1. e \in CoreEvent /\ e.index = i /\ Deed(e) = "reasoning"
  BY EventsTyped
<1> HIDE DEF e
<1>2. Sound(fits, longer) /\ After(Comes(fits, queue), Comes(fits, longer), e)
  BY <1>1, EmittedAfter DEF e
<1> QED
  BY <1>1, <1>2, AfterAt DEF Made, Left, Deeds

LEMMA EmitTool ==
  ASSUME NEW fits, NEW queue, Sound(fits, queue), NEW i \in Nat, <<"tool_use", i>> \in Comes(fits, queue),
         NEW longer, longer = Append(queue, BlockStarted(i, "tool_use"))
  PROVE  /\ Sound(fits, longer) /\ Elsewhere(Comes(fits, queue), Comes(fits, longer), i)
         /\ <<"args_delta", i>> \in Comes(fits, longer) /\ <<"args_done", i>> \in Comes(fits, longer)
         /\ <<"text", i>> \in Comes(fits, longer) /\ <<"block_done", i>> \in Comes(fits, longer)
         /\ <<"text_delta", i>> \in Comes(fits, longer)
<1> DEFINE e == BlockStarted(i, "tool_use")
<1>1. e \in CoreEvent /\ e.index = i /\ Deed(e) = "tool_use"
  BY EventsTyped
<1> HIDE DEF e
<1>2. Sound(fits, longer) /\ After(Comes(fits, queue), Comes(fits, longer), e)
  BY <1>1, EmittedAfter DEF e
<1> QED
  BY <1>1, <1>2, AfterAt DEF Made, Left, Deeds

LEMMA EmitTextDelta ==
  ASSUME NEW fits, NEW queue, Sound(fits, queue), NEW i \in Nat, <<"text_delta", i>> \in Comes(fits, queue),
         NEW text \in Pieces, NEW longer, longer = Append(queue, Delta("text_delta", i, text))
  PROVE  /\ Sound(fits, longer) /\ Elsewhere(Comes(fits, queue), Comes(fits, longer), i)
         /\ <<"text_delta", i>> \in Comes(fits, longer) /\ <<"block_done", i>> \in Comes(fits, longer)
         /\ <<"args_delta", i>> \in Comes(fits, queue) => <<"args_delta", i>> \in Comes(fits, longer)
<1> DEFINE e == Delta("text_delta", i, text)
<1>1. e \in CoreEvent /\ e.index = i /\ Deed(e) = "text_delta"
  BY EventsTyped
<1> HIDE DEF e
<1>2. Sound(fits, longer) /\ After(Comes(fits, queue), Comes(fits, longer), e)
  BY <1>1, EmittedAfter DEF e
<1> QED
  BY <1>1, <1>2, AfterAt DEF Made, Left, Deeds

LEMMA EmitArgs ==
  ASSUME NEW fits, NEW queue, Sound(fits, queue), NEW i \in Nat, <<"args_delta", i>> \in Comes(fits, queue),
         NEW text \in Pieces
  PROVE  LET longer == Append(queue, Delta("args_delta", i, text))
         IN Sound(fits, longer) /\ Comes(fits, queue) \subseteq Comes(fits, longer)
<1> DEFINE e == Delta("args_delta", i, text)
           longer == Append(queue, e)
<1>1. e \in CoreEvent /\ e.index = i /\ Deed(e) = "args_delta"
  BY EventsTyped
<1> HIDE DEF e
<1>2. Sound(fits, longer) /\ After(Comes(fits, queue), Comes(fits, longer), e)
  BY <1>1, EmittedAfter
<1>3. Sound(fits, longer) /\ Comes(fits, queue) \subseteq Comes(fits, longer)
  BY <1>1, <1>2, AfterNone, ComesPairs
<1> QED
  BY <1>3 DEF e

LEMMA EmitArgsDone ==
  ASSUME NEW fits, NEW queue, Sound(fits, queue), NEW i \in Nat, <<"args_done", i>> \in Comes(fits, queue),
         NEW text \in Pieces, NEW longer, longer = Append(queue, Delta("args_done", i, text))
  PROVE  /\ Sound(fits, longer) /\ Elsewhere(Comes(fits, queue), Comes(fits, longer), i)
         /\ <<"block_done", i>> \in Comes(fits, longer)
<1> DEFINE e == Delta("args_done", i, text)
<1>1. e \in CoreEvent /\ e.index = i /\ Deed(e) = "args_done"
  BY EventsTyped
<1> HIDE DEF e
<1>2. Sound(fits, longer) /\ After(Comes(fits, queue), Comes(fits, longer), e)
  BY <1>1, EmittedAfter DEF e
<1> QED
  BY <1>1, <1>2, AfterAt DEF Made, Left, Deeds

LEMMA EmitDone ==
  ASSUME NEW fits, NEW queue, Sound(fits, queue), NEW i \in Nat, <<"block_done", i>> \in Comes(fits, queue),
         NEW longer, longer \in {Append(queue, BlockDone(i)), Append(queue, SignedBlockDone(i))}
  PROVE  /\ Sound(fits, longer) /\ Elsewhere(Comes(fits, queue), Comes(fits, longer), i)
         /\ <<"reasoning", i>> \in Comes(fits, queue) => <<"reasoning", i>> \in Comes(fits, longer)
<1>0. PICK e \in {BlockDone(i), SignedBlockDone(i)} : longer = Append(queue, e)
  OBVIOUS
<1>1. e \in CoreEvent /\ e.index = i /\ Deed(e) = "block_done"
  BY EventsTyped
<1>2. Sound(fits, longer) /\ After(Comes(fits, queue), Comes(fits, longer), e)
  BY <1>0, <1>1, EmittedAfter
<1> QED
  BY <1>1, <1>2, AfterAt DEF Made, Left, Deeds

\* The types of events that are of no block.
Plain == {"created", "in_progress", "completed", "incomplete", "failed", "item_added"}

LEMMA EmitPlain ==
  ASSUME NEW fits, NEW queue, Sound(fits, queue), NEW type \in Plain,
         NEW longer, longer = Append(queue, Core(type))
  PROVE  Sound(fits, longer) /\ Comes(fits, queue) \subseteq Comes(fits, longer)
<1> DEFINE e == Core(type)
<1>1. e \in CoreEvent /\ Deed(e) \notin Deeds
  BY EventsTyped DEF Plain, CoreTypes, Deed, Deeds
<1> HIDE DEF e
<1>2. Sound(fits, longer) /\ After(Comes(fits, queue), Comes(fits, longer), e)
  BY <1>1, EmittedAfter DEF e
<1> QED
  BY <1>1, <1>2, AfterNone, ComesPairs

LEMMA ShortQueues ==
  \A u, v, w : /\ <<u>> = Append(<<>>, u) /\ <<u, v>> = Append(<<u>>, v)
               /\ <<u, v, w>> = Append(<<u, v>>, w)
  OBVIOUS

LEMMA Joins ==
  ASSUME NEW S, NEW s \in Seq(S)
  PROVE  s \o <<>> = s /\ <<>> \o s = s /\ \A e \in S : s \o <<e>> = Append(s, e)
  BY ConcatEmptySeq, AppendIsConcat

\* What fits in the next state, when an adapter has emitted a queue of events.
Expected == {p \in Pairs : Expect(p[1], p[2])}
Fitting == {p \in Pairs : Fits(p[1], p[2])}

LEMMA Linked ==
  ASSUME NEW fits, fits = Fitting', NEW queue, core' = queue, Sound(fits, queue)
  PROVE  AllFit(core)' /\ Comes(fits, queue) \subseteq Expected'
<1>1. \A p \in Pairs : p \in fits <=> Fits(p[1], p[2])'
  BY DEF Fitting
<1>2. ASSUME NEW n \in Nat, NEW p \in Pairs, p \in Allows(fits, queue, n)
      PROVE  Allowed(queue, n, p[1], p[2])'
  BY <1>1, <1>2 DEF Allows, Allowed
<1>3. AllFit(core)'
  <2> SUFFICES ASSUME NEW k \in 1..Len(core'), NEW deed \in Deeds, NEW i \in Nat,
                      Deed(core'[k]) = deed, core'[k].index = i
               PROVE  Allowed(core, k - 1, deed, i)'
    BY DEF AllFit, Deed
  <2>1. <<deed, i>> \in Pairs /\ <<deed, i>> \in Allows(fits, queue, k - 1) /\ k - 1 \in Nat
    BY ElementsOf DEF Pairs, Sound
  <2>2. Allowed(queue, k - 1, deed, i)'
    BY <1>2, <2>1
  <2> QED
    BY <2>2
<1>5. Len(queue) \in Nat /\ Comes(fits, queue) \subseteq Pairs
  BY ComesPairs, ElementsOf DEF Sound
<1>6. ASSUME NEW p \in Comes(fits, queue) PROVE Expect(p[1], p[2])'
  <2>1. Allowed(queue, Len(queue), p[1], p[2])'
    BY <1>2, <1>5 DEF Comes
  <2> QED
    BY <2>1 DEF Expect
<1> QED
  BY <1>3, <1>5, <1>6 DEF Expected

-----------------------------------------------------------------------------
(***************************************************************************)
(* What each adapter may emit next, of what fits: `can` is a set of pairs  *)
(* of a deed and a block.                                                  *)
(***************************************************************************)

Fresh(can, j) == {<<"text", j>>, <<"tool_use", j>>, <<"reasoning", j>>, <<"block_done", j>>} \subseteq can

StartCan(can) ==
    provider.phase = "start" =>
        /\ provider.block = "none" /\ \A j \in Nat : Fresh(can, j)
        /\ protocol = "chat" => conv = ChatConv
        /\ protocol = "google" => ~ conv.started

AnthropicCan(can) ==
    protocol = "anthropic" =>
        /\ provider.block # "none" => provider.phase \in {"open", "broken"}
        /\ provider.phase = "open" =>
             /\ \A j \in Nat : j > provider.index => Fresh(can, j)
             /\ provider.block = "none" => Fresh(can, provider.index)
             /\ provider.block # "none" =>
                  /\ provider.index \in DOMAIN conv.blockTypes
                  /\ conv.blockTypes[provider.index] = provider.block
                  /\ <<"block_done", provider.index>> \in can
             /\ provider.block \in {"text", "thinking"} => <<"text_delta", provider.index>> \in can
             /\ provider.block = "tool_use" => <<"args_delta", provider.index>> \in can

GoogleCan(can) ==
    protocol = "google" /\ provider.phase = "open" =>
        conv.started /\ <<"text_delta", 0>> \in can /\ <<"block_done", 0>> \in can

WholeCan(can) ==
    protocol \in Whole /\ provider.phase = "open" => \A j \in Nat : j >= provider.index => Fresh(can, j)

\* A call's slot is behind the slots before it. It is behind the current block when the
\* block is one of reasoning, unless reasoning has interrupted the calls.
ChatSlots ==
    LET slots == conv.toolCallSlot
        b == conv.blockIndex
    IN /\ \A p \in DOMAIN slots : p < Len(given.calls) /\ slots[p] < conv.toolCallIdx
       /\ \A s \in conv.callStarted : \E p \in DOMAIN slots : slots[p] = s
       /\ NothingGoesAstray =>
            /\ DOMAIN slots # {} => conv.toolCallIdx > b
            /\ conv.hasReasoning => \A p \in DOMAIN slots : slots[p] > b
            /\ provider.block = "none" => ~ conv.hasReasoning
            /\ provider.block = "thinking" => conv.hasReasoning
            /\ provider.block \in {"none", "thinking"} => DOMAIN slots = {}

\* What the chat adapter may emit next, at the current block and behind it.
ChatBehind(can, b, started) ==
    /\ \A j \in Nat : j > b => <<"text", j>> \in can
    /\ \A j \in Nat : j > b /\ j \notin started => <<"tool_use", j>> \in can
    /\ \A s \in started : s > b => <<"args_done", s>> \in can
ChatDeeds(can, b, started) ==
    <<"text_delta", b>> \in can /\ <<"block_done", b>> \in can /\ ChatBehind(can, b, started)
ChatArgs(can, started) == \A s \in started : <<"args_delta", s>> \in can

ChatCan(can) ==
    protocol = "chat" /\ provider.phase = "open" =>
        /\ ChatSlots
        /\ conv.started
        /\ conv.hasReasoning => conv.reasonIndex = conv.blockIndex
        /\ ChatDeeds(can, conv.blockIndex, conv.callStarted)
        /\ NothingGoesAstray => ChatArgs(can, conv.callStarted)

Can(can) == StartCan(can) /\ AnthropicCan(can) /\ GoogleCan(can) /\ WholeCan(can) /\ ChatCan(can)

LEMMA CanMore ==
  ASSUME NEW less, NEW more, less \subseteq more, Can(less)
  PROVE  Can(more)
<1>1. \A j : Fresh(less, j) => Fresh(more, j)
  BY DEF Fresh
<1>2. StartCan(more) /\ WholeCan(more) /\ GoogleCan(more)
  BY <1>1 DEF Can, StartCan, WholeCan, GoogleCan
<1>3. AnthropicCan(more)
  BY <1>1 DEF Can, AnthropicCan
<1>4. ChatCan(more)
  BY DEF Can, ChatCan, ChatDeeds, ChatBehind, ChatArgs
<1> QED
  BY <1>2, <1>3, <1>4 DEF Can

LEMMA CanMoreNext ==
  ASSUME NEW less, NEW more, less \subseteq more, Can(less)'
  PROVE  Can(more)'
<1>1. \A j : Fresh(less, j) => Fresh(more, j)
  BY DEF Fresh
<1>2. StartCan(more)' /\ WholeCan(more)' /\ GoogleCan(more)'
  BY <1>1 DEF Can, StartCan, WholeCan, GoogleCan
<1>3. AnthropicCan(more)'
  BY <1>1 DEF Can, AnthropicCan
<1>4. ChatCan(more)'
  BY DEF Can, ChatCan, ChatDeeds, ChatBehind, ChatArgs
<1> QED
  BY <1>2, <1>3, <1>4 DEF Can

ChatState ==
    [started : BOOLEAN, blockIndex : Nat, hasReasoning : BOOLEAN, reasonIndex : Nat,
     toolCallIdx : Nat, callStarted : SUBSET Nat, toolCallSlot : Partial(Nat)]

ConvTyped ==
    /\ protocol = "anthropic" =>
         conv \in [blockTypes : Partial(BlockKinds), suppressText : SUBSET Nat, blockSignatures : SUBSET Nat]
    /\ protocol = "chat" => conv \in ChatState
    /\ protocol = "google" => conv \in [started : BOOLEAN, prevText : Pieces]

GivenTyped ==
    given \in [text : Pieces, reasoning : Pieces, calls : Seq(Pieces), signed : SUBSET Nat]

ProviderTyped == provider \in Provider /\ habits \subseteq Habits /\ ConvTyped /\ GivenTyped

-----------------------------------------------------------------------------
(***************************************************************************)
(* A step of a provider leaves the loop alone.                             *)
(***************************************************************************)

Grants(fits) ==
    \A i \in Nat :
        /\ <<"reasoning", i>> \in fits
        /\ <<"text", i>> \in fits => <<"block_done", i>> \in fits
        /\ NothingGoesAstray' \/ {<<"tool_use", i>>, <<"args_delta", i>>, <<"block_done", i>>} \subseteq fits

LEMMA HabitsStay ==
  Provide => core = <<>> /\ Quiet /\ habits \subseteq habits' /\ (NothingGoesAstray' => NothingGoesAstray)
<1> SUFFICES ASSUME Provide PROVE core = <<>> /\ Quiet /\ habits \subseteq habits'
  BY DEF NothingGoesAstray
<1>1. CASE \/ MessageStart \/ ContentBlockStart \/ ContentBlockDelta \/ ContentBlockStop
           \/ MessageDelta \/ MessageStop \/ Breaks
  BY <1>1, Zenon DEF MessageStart, ContentBlockStart, ContentBlockDelta, ContentBlockStop,
         MessageDelta, MessageStop, Breaks, Ready, Quiet
<1>2. CASE ChatRole \/ ChatReasoningChunk \/ ChatTextChunk \/ ChatCallChunk \/ ChatFinishChunk
  BY <1>2 DEF ChatRole, ChatReasoningChunk, ChatTextChunk, ChatCallChunk, ChatFinishChunk, Ready, ChatReceives
<1>3. CASE GoogleChunk \/ ChannelClosed
  BY <1>3 DEF GoogleChunk, ChannelClosed, Ready
<1>4. CASE WholeStart \/ WholeNextBlock \/ WholeEnd
  BY <1>4 DEF WholeStart, WholeNextBlock, WholeEnd, ReadyWhole, Ready
<1> QED
  BY <1>1, <1>2, <1>3, <1>4 DEF Provide

LEMMA LoopLeftAlone ==
  ASSUME Provide, LoopTyped, Struct, Texts, Ends, core' \in Seq(CoreEvent)
  PROVE  LoopTyped' /\ Struct' /\ Texts' /\ Ends'
<1>1. Quiet /\ (NothingGoesAstray' => NothingGoesAstray)
  BY HabitsStay
<1>2. /\ output' = output /\ sent' = sent /\ contentText' = contentText /\ toolCallArgs' = toolCallArgs
      /\ outputIndexes' = outputIndexes /\ reasonIndexes' = reasonIndexes
      /\ toolCallFinalized' = toolCallFinalized
  BY <1>1 DEF Quiet, maps
<1>3. LoopTyped'
  BY <1>2 DEF LoopTyped
<1>4. Struct'
  BY <1>2 DEF Struct, IsMessage, Has
<1>5. Texts'
  BY <1>2 DEF Texts, OpenText, DoneText, IsMessage, Has
<1>6. Ends'
  BY <1>1, <1>2 DEF Ends, Open, Silent, Speaks, IsMessage, Has, Earlier
<1> QED
  BY <1>3, <1>4, <1>5, <1>6

LEMMA FitsBefore ==
  ASSUME Provide, NEW fits, fits = Fitting'
  PROVE  fits \in SUBSET Pairs /\ Expected \subseteq fits /\ Grants(fits)
<1>1. Quiet /\ (NothingGoesAstray' => NothingGoesAstray) /\ core = <<>>
  BY HabitsStay
<1>2. /\ output' = output /\ sent' = sent /\ contentText' = contentText /\ toolCallArgs' = toolCallArgs
      /\ outputIndexes' = outputIndexes /\ reasonIndexes' = reasonIndexes
      /\ toolCallFinalized' = toolCallFinalized
  BY <1>1 DEF Quiet, maps
<1>3. fits \in SUBSET Pairs /\ \A p \in Pairs : p \in fits <=> Fits(p[1], p[2])'
  BY DEF Fitting
<1>4. ASSUME NEW p \in Expected PROVE p \in fits
  <2>1. Len(core) = 0 /\ 1..0 = {}
    BY <1>1
  <2>2. Fits(p[1], p[2]) /\ p \in Pairs
    BY <2>1 DEF Expected, Expect, Allowed
  <2>3. Fits(p[1], p[2])'
    BY <1>1, <1>2, <2>2 DEF Fits, IsMessage, Has, Live, Speaks, Idle
  <2> QED
    BY <1>3, <2>2, <2>3
<1>5. ASSUME NEW i \in Nat
      PROVE  /\ <<"reasoning", i>> \in fits
             /\ <<"text", i>> \in fits => <<"block_done", i>> \in fits
             /\ NothingGoesAstray' \/ {<<"tool_use", i>>, <<"args_delta", i>>, <<"block_done", i>>} \subseteq fits
  <2>1. \A deed \in Deeds : <<deed, i>> \in fits <=> Fits(deed, i)'
    BY <1>3 DEF Pairs
  <2>2. /\ "reasoning" \in Deeds /\ "text" \in Deeds /\ "block_done" \in Deeds
        /\ "tool_use" \in Deeds /\ "args_delta" \in Deeds
    BY DEF Deeds
  <2>3. Fits("reasoning", i)'
    BY DEF Fits
  <2>4. Fits("text", i)' => Fits("block_done", i)'
    BY DEF Fits, Speaks
  <2>5. NothingGoesAstray' \/ (Fits("tool_use", i)' /\ Fits("args_delta", i)' /\ Fits("block_done", i)')
    BY DEF Fits
  <2> QED
    BY <2>1, <2>2, <2>3, <2>4, <2>5
<1> QED
  BY <1>3, <1>4, <1>5 DEF Grants

\* The loop moves on: what an adapter may emit next stays so.
LEMMA ExpectedOn ==
  ASSUME LoopTyped, AllFit(core), Struct, Translate, UNCHANGED providerVars
  PROVE  Expected \subseteq Expected'
<1>1. core # <<>> /\ core' = Tail(core)
  BY LoopTypedOn
<1>2. FitsOn
  BY FitsKept DEF NothingGoesAstray, providerVars
<1>3. Len(core) \in 1..Len(core) /\ Len(core') = Len(core) - 1
  BY <1>1, QueueTail
<1> SUFFICES ASSUME NEW deed \in Deeds, NEW i \in Nat, Expect(deed, i) PROVE Expect(deed, i)'
  BY DEF Expected, Pairs
<1>4. Allowed(core, Len(core), deed, i)
  BY DEF Expect
<1>5. /\ Leaves(Event, deed, i) /\ Fits(deed, i) => Fits(deed, i)'
      /\ Makes(Event, deed, i) => Fits(deed, i)'
  BY <1>2 DEF FitsOn
<1>6. PICK n \in 1..Len(core) : n = Len(core)
  BY <1>3
<1>7. Allowed(core, n - 1, deed, i)'
  BY <1>1, <1>4, <1>5, <1>6, Shifted
<1> QED
  BY <1>3, <1>6, <1>7 DEF Expect, Allowed

-----------------------------------------------------------------------------
(***************************************************************************)
(* The provider's steps. What is emitted fits, and so will what may be     *)
(* emitted next.                                                           *)
(***************************************************************************)

LEMMA FirstEmitted ==
  ASSUME NEW fits \in SUBSET Pairs
  PROVE  /\ Sound(fits, <<>>) /\ Comes(fits, <<>>) = fits
         /\ \A type \in Plain : Sound(fits, <<Core(type)>>) /\ fits \subseteq Comes(fits, <<Core(type)>>)
<1>1. Sound(fits, <<>>) /\ Comes(fits, <<>>) = fits
  BY NothingEmitted
<1>2. ASSUME NEW type \in Plain
      PROVE  Sound(fits, <<Core(type)>>) /\ fits \subseteq Comes(fits, <<Core(type)>>)
  BY <1>1, ShortQueues, EmitPlain
<1> QED
  BY <1>1, <1>2

LEMMA TwoPlain ==
  ASSUME NEW fits \in SUBSET Pairs, NEW s \in Plain, NEW t \in Plain
  PROVE  Sound(fits, <<Core(s), Core(t)>>) /\ fits \subseteq Comes(fits, <<Core(s), Core(t)>>)
<1>1. Sound(fits, <<Core(s)>>) /\ fits \subseteq Comes(fits, <<Core(s)>>)
  BY FirstEmitted
<1>2. <<Core(s), Core(t)>> = Append(<<Core(s)>>, Core(t))
  BY ShortQueues
<1> DEFINE long == <<Core(s), Core(t)>>
<1> HIDE DEF long
<1>3. Sound(fits, long) /\ Comes(fits, <<Core(s)>>) \subseteq Comes(fits, long)
  BY <1>1, <1>2, EmitPlain DEF long
<1> QED
  BY <1>1, <1>3 DEF long

LEMMA CanAtRest ==
  ASSUME NEW can, provider'.phase \notin {"start", "open"},
         protocol' # "anthropic" \/ provider'.block = "none" \/ provider'.phase = "broken"
  PROVE  Can(can)'
  BY DEF Can, StartCan, AnthropicCan, GoogleCan, WholeCan, ChatCan

LEMMA CanOfAnthropic ==
  ASSUME NEW can, protocol' = "anthropic", provider'.phase # "start", AnthropicCan(can)'
  PROVE  Can(can)'
  BY DEF Can, StartCan, GoogleCan, WholeCan, Whole, ChatCan

LEMMA CanOfWhole ==
  ASSUME NEW can, protocol' \in Whole, provider'.phase # "start", WholeCan(can)'
  PROVE  Can(can)'
  BY DEF Can, StartCan, AnthropicCan, GoogleCan, Whole, ChatCan

LEMMA CanOfGoogle ==
  ASSUME NEW can, protocol' = "google", provider'.phase # "start", GoogleCan(can)'
  PROVE  Can(can)'
  BY DEF Can, StartCan, AnthropicCan, WholeCan, Whole, ChatCan

LEMMA CanOfChat ==
  ASSUME NEW can, protocol' = "chat", provider'.phase # "start", ChatCan(can)'
  PROVE  Can(can)'
  BY DEF Can, StartCan, AnthropicCan, WholeCan, Whole, GoogleCan

LEMMA ProviderFields ==
  ASSUME provider \in Provider
  PROVE  /\ provider.index \in Nat /\ provider.chunks \in Nat /\ provider.pieces \in Nat
         /\ provider.block \in BlockKinds \cup {"none"} /\ Piece \in Pieces /\ Piece # <<>>
  BY DEF Provider, Piece, Pieces

LEMMA SendsTo ==
  ASSUME provider \in Provider, NEW phase, NEW block, NEW index, NEW pieces,
         Sends(phase, block, index, pieces)
  PROVE  /\ provider'.phase = phase /\ provider'.block = block /\ provider'.index = index
         /\ provider'.chunks = provider.chunks + 1 /\ provider'.pieces = provider.pieces + pieces
         /\ provider' = [phase |-> phase, block |-> block, index |-> index,
                         chunks |-> provider.chunks + 1, pieces |-> provider.pieces + pieces]
<1>1. provider = [phase |-> provider.phase, block |-> provider.block, index |-> provider.index,
                  chunks |-> provider.chunks, pieces |-> provider.pieces]
  BY DEF Provider
<1> QED
  BY <1>1, Zenon DEF Sends

LEMMA PlainEmits ==
  ASSUME MessageStart \/ MessageDelta \/ MessageStop \/ Breaks \/ ChannelClosed \/ WholeStart \/ WholeEnd,
         provider \in Provider, NEW fits \in SUBSET Pairs, Can(fits), NEW queue, core' = queue
  PROVE  Sound(fits, queue) /\ Can(Comes(fits, queue))'
<1>1. \A type \in Plain : Sound(fits, <<Core(type)>>) /\ fits \subseteq Comes(fits, <<Core(type)>>)
  BY FirstEmitted
<1>2. \A s, t \in Plain : Sound(fits, <<Core(s), Core(t)>>) /\ fits \subseteq Comes(fits, <<Core(s), Core(t)>>)
  BY TwoPlain
<1>3. 0 \in Nat /\ provider.index \in Nat
  BY ProviderFields
<1>4. CASE MessageStart
  <2>1. core' = <<Core("created"), Core("item_added")>> /\ protocol' = "anthropic"
        /\ provider'.phase = "open" /\ provider'.block = "none" /\ provider'.index = 0
    BY <1>3, <1>4, SendsTo DEF MessageStart, Ready, Quiet
  <2>2. Sound(fits, queue) /\ fits \subseteq Comes(fits, queue)
    BY <1>2, <2>1 DEF Plain
  <2>3. \A j \in Nat : Fresh(fits, j)
    BY <1>4 DEF Can, StartCan, MessageStart
  <2>4. \A j \in Nat : Fresh(Comes(fits, queue), j)
    BY <2>2, <2>3 DEF Fresh
  <2>5. AnthropicCan(Comes(fits, queue))'
    <3>1. PICK can : can = Comes(fits, queue)
      OBVIOUS
    <3>2. \A j \in Nat : Fresh(can, j)
      BY <2>4, <3>1
    <3>3. AnthropicCan(can)'
      BY <1>3, <2>1, <3>2 DEF AnthropicCan, Fresh
    <3> QED
      BY <3>1, <3>3
  <2> QED
    BY <2>1, <2>2, <2>5, CanOfAnthropic
<1>5. CASE WholeStart
  <2>1. /\ protocol' \in Whole /\ provider'.phase = "open" /\ provider'.index = 0
        /\ core' \in {<<Core("created")>>, <<Core("created"), Core("in_progress")>>}
    <3>1. <<Core("created")>> \o <<Core("in_progress")>> = <<Core("created"), Core("in_progress")>>
          /\ <<Core("created")>> \o <<>> = <<Core("created")>>
      <4>1. Core("created") \in CoreEvent /\ Core("in_progress") \in CoreEvent
        BY EventsTyped DEF CoreTypes
      <4>3. PICK u \in CoreEvent, v \in CoreEvent : u = Core("created") /\ v = Core("in_progress")
        BY <4>1
      <4>4. <<u>> \in Seq(CoreEvent)
        OBVIOUS
      <4>5. <<u>> \o <<v>> = Append(<<u>>, v) /\ <<u>> \o <<>> = <<u>>
        BY <4>4, Joins
      <4>6. Append(<<u>>, v) = <<u, v>>
        BY ShortQueues
      <4> QED
        BY <4>3, <4>5, <4>6
    <3>2. /\ protocol' \in Whole /\ provider'.phase = "open" /\ provider'.index = 0
      BY <1>3, <1>5, SendsTo DEF WholeStart, ReadyWhole, Ready, Quiet
    <3> QED
      BY <1>5, <3>1, <3>2 DEF WholeStart
  <2>2. Sound(fits, queue) /\ fits \subseteq Comes(fits, queue)
    BY <1>1, <1>2, <2>1 DEF Plain
  <2>3. \A j \in Nat : Fresh(fits, j)
    BY <1>5 DEF Can, StartCan, WholeStart, ReadyWhole
  <2>4. WholeCan(Comes(fits, queue))'
    BY <2>2, <2>3 DEF WholeCan, Fresh
  <2> QED
    BY <2>1, <2>2, <2>4, CanOfWhole
<1>6. CASE MessageDelta \/ MessageStop \/ Breaks \/ ChannelClosed \/ WholeEnd
  <2>1. \E type \in Plain : core' = <<Core(type)>>
    BY <1>6 DEF MessageDelta, MessageStop, Breaks, ChannelClosed, WholeEnd, Plain
  <2>2. /\ provider'.phase \notin {"start", "open"}
        /\ protocol' # "anthropic" \/ provider'.block = "none" \/ provider'.phase = "broken"
    <3>1. CASE MessageDelta \/ MessageStop \/ Breaks \/ WholeEnd
      BY <1>3, <3>1, SendsTo DEF MessageDelta, MessageStop, Breaks, WholeEnd
    <3>2. CASE ChannelClosed
      BY <3>2 DEF ChannelClosed, Quiet, Provider
    <3> QED
      BY <1>6, <3>1, <3>2
  <2> QED
    BY <1>1, <2>1, <2>2, CanAtRest
<1> QED
  BY <1>4, <1>5, <1>6

LEMMA FreshElsewhere ==
  ASSUME NEW before, NEW after, NEW i, Elsewhere(before, after, i), NEW j \in Nat, j # i, Fresh(before, j)
  PROVE  Fresh(after, j)
  BY DEF Elsewhere, Fresh, Deeds

\* An open block of an Anthropic stream.
BlockCan(can, i, kind) ==
    /\ \A j \in Nat : j > i => Fresh(can, j)
    /\ <<"block_done", i>> \in can
    /\ kind \in {"text", "thinking"} => <<"text_delta", i>> \in can
    /\ kind = "tool_use" => <<"args_delta", i>> \in can

LEMMA AnthropicOpen ==
  ASSUME NEW can, NEW i \in Nat, NEW kind \in BlockKinds, BlockCan(can, i, kind),
         protocol' = "anthropic", provider'.phase = "open", provider'.block = kind, provider'.index = i,
         i \in DOMAIN conv'.blockTypes, conv'.blockTypes[i] = kind
  PROVE  Can(can)'
<1>1. kind # "none"
  BY DEF BlockKinds
<1>2. AnthropicCan(can)'
  BY <1>1 DEF AnthropicCan, BlockCan
<1> QED
  BY <1>2, CanOfAnthropic

LEMMA AnnouncedEmits ==
  ASSUME NEW fits \in SUBSET Pairs, NEW i \in Nat, NEW kind \in BlockKinds,
         \A j \in Nat : j >= i => Fresh(fits, j), NEW queue, queue = Announced(kind, i)
  PROVE  Sound(fits, queue) /\ BlockCan(Comes(fits, queue), i, kind)
<1>1. Sound(fits, <<>>) /\ Comes(fits, <<>>) = fits
  BY FirstEmitted
<1>2. /\ <<"text", i>> \in fits /\ <<"tool_use", i>> \in fits /\ <<"reasoning", i>> \in fits
      /\ <<"block_done", i>> \in fits
  BY DEF Fresh
<1>3. \A j \in Nat : j > i => j >= i /\ j # i
  OBVIOUS
<1>4. CASE kind = "text"
  <2>1. queue = Append(<<>>, BlockStarted(i, "text"))
    BY <1>4, ShortQueues DEF Announced
  <2>2. /\ Sound(fits, queue) /\ Elsewhere(fits, Comes(fits, queue), i)
        /\ <<"text_delta", i>> \in Comes(fits, queue) /\ <<"block_done", i>> \in Comes(fits, queue)
    BY <1>1, <1>2, <2>1, EmitText
  <2> QED
    BY <1>3, <1>4, <2>2, FreshElsewhere DEF BlockCan
<1>5. CASE kind = "thinking"
  <2>1. queue = Append(<<>>, BlockStarted(i, "reasoning"))
    BY <1>5, ShortQueues DEF Announced
  <2>2. /\ Sound(fits, queue) /\ Elsewhere(fits, Comes(fits, queue), i)
        /\ <<"text_delta", i>> \in Comes(fits, queue) /\ <<"block_done", i>> \in Comes(fits, queue)
    BY <1>1, <1>2, <2>1, EmitReasoning
  <2> QED
    BY <1>3, <1>5, <2>2, FreshElsewhere DEF BlockCan
<1>6. CASE kind = "tool_use"
  <2> DEFINE q == <<BlockStarted(i, "tool_use")>>
  <2>1. queue = Append(q, Core("item_added")) /\ q = Append(<<>>, BlockStarted(i, "tool_use"))
    BY <1>6, ShortQueues DEF Announced
  <2> HIDE DEF q
  <2>2. /\ Sound(fits, q) /\ Elsewhere(fits, Comes(fits, q), i)
        /\ <<"args_delta", i>> \in Comes(fits, q) /\ <<"block_done", i>> \in Comes(fits, q)
    BY <1>1, <1>2, <2>1, EmitTool
  <2>3. "item_added" \in Plain
    BY DEF Plain
  <2>4. Sound(fits, queue) /\ Comes(fits, q) \subseteq Comes(fits, queue)
    BY <2>1, <2>2, <2>3, EmitPlain
  <2>5. \A j \in Nat : j > i => Fresh(Comes(fits, q), j)
    BY <1>3, <2>2, FreshElsewhere
  <2>6. \A j \in Nat : j > i => Fresh(Comes(fits, queue), j)
    BY <2>4, <2>5 DEF Fresh
  <2> QED
    BY <1>6, <2>2, <2>4, <2>6 DEF BlockCan
<1>7. CASE kind \notin {"text", "thinking", "tool_use"}
  <2>1. queue = <<>>
    BY <1>7 DEF Announced
  <2> QED
    BY <1>1, <1>2, <1>3, <1>7, <2>1 DEF BlockCan
<1> QED
  BY <1>4, <1>5, <1>6, <1>7

LEMMA BlockStartEmits ==
  ASSUME ContentBlockStart, provider \in Provider, ConvTyped, NEW fits \in SUBSET Pairs, Can(fits),
         NEW queue, core' = queue
  PROVE  Sound(fits, queue) /\ Can(Comes(fits, queue))'
<1>0. PICK i \in Nat : i = provider.index
  BY ProviderFields
<1>1. PICK kind \in BlockKinds :
        /\ Sends("open", kind, i, 0)
        /\ conv' = [conv EXCEPT !.blockTypes = With(@, i, kind)]
        /\ core' = Announced(kind, i)
  BY <1>0 DEF ContentBlockStart
<1>2. protocol = "anthropic" /\ protocol' = "anthropic" /\ provider.phase = "open" /\ provider.block = "none"
  BY DEF ContentBlockStart, Ready, Quiet
<1>3. provider'.phase = "open" /\ provider'.block = kind /\ provider'.index = i
  BY <1>1, SendsTo
<1>4. i \in DOMAIN conv'.blockTypes /\ conv'.blockTypes[i] = kind
  <2>1. conv'.blockTypes = With(conv.blockTypes, i, kind)
    BY <1>1, <1>2 DEF ConvTyped
  <2> QED
    BY <2>1, WithIs
<1>5. \A j \in Nat : j >= i => Fresh(fits, j)
  <2>1. /\ \A j \in Nat : j > i => Fresh(fits, j)
        /\ Fresh(fits, i)
    BY <1>0, <1>2 DEF Can, AnthropicCan
  <2> QED
    BY <2>1
<1>6. Sound(fits, queue) /\ BlockCan(Comes(fits, queue), i, kind)
  BY <1>1, <1>5, AnnouncedEmits
<1>7. PICK can : can = Comes(fits, queue)
  OBVIOUS
<1>8. Can(can)'
  BY <1>2, <1>3, <1>4, <1>6, <1>7, AnthropicOpen
<1> QED
  BY <1>6, <1>7, <1>8

\* What is known of the block an Anthropic stream is in.
LEMMA InBlock ==
  ASSUME protocol = "anthropic", provider \in Provider, provider.phase \notin {"closed", "broken"},
         provider.block # "none", NEW fits, Can(fits), NEW i \in Nat, i = provider.index,
         NEW kind, kind = provider.block
  PROVE  /\ kind \in BlockKinds /\ provider.phase = "open"
         /\ i \in DOMAIN conv.blockTypes /\ conv.blockTypes[i] = kind
         /\ BlockCan(fits, i, kind)
<1>1. kind \in BlockKinds
  BY ProviderFields
<1>2. provider.phase = "open"
  BY DEF Can, AnthropicCan
<1> QED
  BY <1>1, <1>2 DEF Can, AnthropicCan, BlockCan

LEMMA BlockDeltaIs ==
  ASSUME ContentBlockDelta, ConvTyped, NEW i \in Nat, i = provider.index, provider \in Provider,
         NEW kind, kind = provider.block, conv.blockTypes[i] = kind
  PROVE  /\ protocol' = "anthropic" /\ provider'.phase = "open" /\ provider'.block = kind
         /\ provider'.index = i /\ conv'.blockTypes = conv.blockTypes
         /\ \/ core' = <<>>
            \/ /\ kind \in {"text", "thinking"}
               /\ \E text \in Pieces : core' = <<Delta("text_delta", i, text)>>
            \/ /\ kind \in {"tool_use", "server_tool_use"}
               /\ core' = <<Delta("args_delta", i, Piece)>>
               /\ kind = "server_tool_use" => ~ NothingGoesAstray'
<1>1. protocol = "anthropic" /\ protocol' = "anthropic" /\ Sends("open", kind, i, 1)
  BY DEF ContentBlockDelta, Ready, Quiet
<1>2. provider'.phase = "open" /\ provider'.block = kind /\ provider'.index = i
  BY <1>1, SendsTo
<1>3. \E type \in DeltaTypes(provider.block) :
         LET n == provider.index
             known == conv.blockTypes[n]
             hasText == n \in DOMAIN contentText /\ contentText[n] # <<>>
         IN /\ core' = IF type = "status" THEN <<>>
                       ELSE IF type = "text_delta" \/ known = "text" THEN <<Delta("text_delta", n, Piece)>>
                       ELSE IF type = "input_json_delta" \/ known = "tool_use"
                            THEN <<Delta("args_delta", n, Piece)>>
                       ELSE IF type = "thinking_delta" THEN <<Delta("text_delta", n, Piece)>>
                       ELSE IF known = "thinking" THEN <<Delta("text_delta", n, <<>>)>>
                       ELSE <<>>
            /\ conv' = CASE type = "status" -> [conv EXCEPT !.suppressText = @ \cup {n}]
                         [] type = "signature_delta" /\ known # "thinking"
                              -> [conv EXCEPT !.blockSignatures = @ \cup {n}]
                         [] OTHER -> conv
            /\ habits' = IF \/ type = "status" /\ hasText
                            \/ type = "text_delta" /\ n \in conv.suppressText
                         THEN habits \cup {"status_in_text"}
                         ELSE IF known = "server_tool_use" THEN habits \cup {"server_input"} ELSE habits
  BY Zenon DEF ContentBlockDelta
<1>4. PICK type \in DeltaTypes(kind) :
         /\ core' = IF type = "status" THEN <<>>
                    ELSE IF type = "text_delta" \/ kind = "text" THEN <<Delta("text_delta", i, Piece)>>
                    ELSE IF type = "input_json_delta" \/ kind = "tool_use"
                         THEN <<Delta("args_delta", i, Piece)>>
                    ELSE IF type = "thinking_delta" THEN <<Delta("text_delta", i, Piece)>>
                    ELSE IF kind = "thinking" THEN <<Delta("text_delta", i, <<>>)>>
                    ELSE <<>>
         /\ conv' = CASE type = "status" -> [conv EXCEPT !.suppressText = @ \cup {i}]
                      [] type = "signature_delta" /\ kind # "thinking"
                           -> [conv EXCEPT !.blockSignatures = @ \cup {i}]
                      [] OTHER -> conv
         /\ habits' = IF \/ type = "status" /\ i \in DOMAIN contentText /\ contentText[i] # <<>>
                         \/ type = "text_delta" /\ i \in conv.suppressText
                      THEN habits \cup {"status_in_text"}
                      ELSE IF kind = "server_tool_use" THEN habits \cup {"server_input"} ELSE habits
  BY <1>3
<1>10. conv'.blockTypes = conv.blockTypes
  BY <1>1, <1>4 DEF ConvTyped
<1>5. Piece \in Pieces /\ <<>> \in Pieces
  BY ProviderFields DEF Pieces
<1>6. CASE kind = "text"
  <2>1. type \in {"status", "text_delta"}
    BY <1>4, <1>6 DEF DeltaTypes
  <2> QED
    BY <1>1, <1>2, <1>4, <1>10, <1>5, <1>6, <2>1
<1>7. CASE kind = "thinking"
  <2>1. type \in {"thinking_delta", "signature_delta"}
    BY <1>4, <1>7 DEF DeltaTypes
  <2> QED
    BY <1>1, <1>2, <1>4, <1>10, <1>5, <1>7, <2>1
<1>8. CASE kind \in {"tool_use", "server_tool_use"}
  <2>1. type = "input_json_delta"
    BY <1>4, <1>8 DEF DeltaTypes
  <2>2. core' = <<Delta("args_delta", i, Piece)>>
    BY <1>4, <1>8, <2>1
  <2>3. kind = "server_tool_use" => "server_input" \in habits'
    BY <1>4, <2>1
  <2> QED
    BY <1>1, <1>2, <1>10, <1>8, <2>2, <2>3 DEF NothingGoesAstray
<1>9. CASE kind \notin {"text", "thinking", "tool_use", "server_tool_use"}
  BY <1>4, <1>9 DEF DeltaTypes
<1> QED
  BY <1>6, <1>7, <1>8, <1>9

LEMMA BlockDeltaEmits ==
  ASSUME ContentBlockDelta, provider \in Provider, ConvTyped, NEW fits \in SUBSET Pairs, Can(fits),
         Grants(fits), NEW queue, core' = queue
  PROVE  Sound(fits, queue) /\ Can(Comes(fits, queue))'
<1>0. PICK i \in Nat, kind \in BlockKinds \cup {"none"} : i = provider.index /\ kind = provider.block
  BY ProviderFields
<1>1. /\ kind \in BlockKinds /\ i \in DOMAIN conv.blockTypes /\ conv.blockTypes[i] = kind
      /\ BlockCan(fits, i, kind)
  BY <1>0, InBlock DEF ContentBlockDelta, Ready
<1>2. /\ protocol' = "anthropic" /\ provider'.phase = "open" /\ provider'.block = kind
      /\ provider'.index = i /\ conv'.blockTypes = conv.blockTypes
      /\ \/ core' = <<>>
         \/ /\ kind \in {"text", "thinking"}
            /\ \E text \in Pieces : core' = <<Delta("text_delta", i, text)>>
         \/ /\ kind \in {"tool_use", "server_tool_use"}
            /\ core' = <<Delta("args_delta", i, Piece)>>
            /\ kind = "server_tool_use" => ~ NothingGoesAstray'
  BY <1>0, <1>1, BlockDeltaIs
<1>3. Sound(fits, <<>>) /\ Comes(fits, <<>>) = fits
  BY FirstEmitted
<1>4. \A j \in Nat : j > i => j # i
  OBVIOUS
<1>5. Sound(fits, queue) /\ BlockCan(Comes(fits, queue), i, kind)
  <2>1. CASE core' = <<>>
    BY <1>1, <1>3, <2>1
  <2>2. CASE kind \in {"text", "thinking"} /\ \E text \in Pieces : core' = <<Delta("text_delta", i, text)>>
    <3>1. PICK text \in Pieces : queue = Append(<<>>, Delta("text_delta", i, text))
      BY <2>2, ShortQueues
    <3>2. <<"text_delta", i>> \in fits
      BY <1>1, <2>2 DEF BlockCan
    <3>3. /\ Sound(fits, queue) /\ Elsewhere(fits, Comes(fits, queue), i)
          /\ <<"text_delta", i>> \in Comes(fits, queue) /\ <<"block_done", i>> \in Comes(fits, queue)
      BY <1>3, <3>1, <3>2, EmitTextDelta
    <3> QED
      BY <1>1, <1>4, <2>2, <3>3, FreshElsewhere DEF BlockCan
  <2>3. CASE /\ kind \in {"tool_use", "server_tool_use"} /\ core' = <<Delta("args_delta", i, Piece)>>
             /\ kind = "server_tool_use" => ~ NothingGoesAstray'
    <3>1. PICK text \in Pieces : queue = Append(<<>>, Delta("args_delta", i, text))
      BY <2>3, ShortQueues, ProviderFields
    <3>2. <<"args_delta", i>> \in Comes(fits, <<>>)
      BY <1>1, <1>3, <2>3 DEF BlockCan, Grants
    <3>3. Sound(fits, queue) /\ fits \subseteq Comes(fits, queue)
      BY <1>3, <3>1, <3>2, EmitArgs
    <3> QED
      BY <1>1, <3>3 DEF BlockCan, Fresh
  <2> QED
    BY <1>2, <2>1, <2>2, <2>3
<1>6. PICK can : can = Comes(fits, queue)
  OBVIOUS
<1>7. Can(can)'
  BY <1>1, <1>2, <1>5, <1>6, AnthropicOpen
<1> QED
  BY <1>5, <1>6, <1>7

LEMMA BlockStopEmits ==
  ASSUME ContentBlockStop, provider \in Provider, ConvTyped, NEW fits \in SUBSET Pairs, Can(fits),
         NEW queue, core' = queue
  PROVE  Sound(fits, queue) /\ Can(Comes(fits, queue))'
<1>0. PICK i \in Nat, kind \in BlockKinds \cup {"none"} : i = provider.index /\ kind = provider.block
  BY ProviderFields
<1>1. BlockCan(fits, i, kind)
  BY <1>0, InBlock DEF ContentBlockStop, Ready
<1>2. protocol' = "anthropic" /\ Sends("open", "none", i + 1, 0)
  BY <1>0 DEF ContentBlockStop, Ready, Quiet
<1>3. provider'.phase = "open" /\ provider'.block = "none" /\ provider'.index = i + 1
  BY <1>2, SendsTo
<1>4. core' \in {<<>>, <<BlockDone(i)>>, <<SignedBlockDone(i)>>}
  BY <1>0 DEF ContentBlockStop
<1>5. Sound(fits, <<>>) /\ Comes(fits, <<>>) = fits
  BY FirstEmitted
<1>6. \A j \in Nat : j > i => Fresh(fits, j)
  BY <1>1 DEF BlockCan
<1>7. Sound(fits, queue) /\ \A j \in Nat : j > i => Fresh(Comes(fits, queue), j)
  <2>1. CASE core' = <<>>
    BY <1>5, <1>6, <2>1
  <2>2. CASE core' \in {<<BlockDone(i)>>, <<SignedBlockDone(i)>>}
    <3>1. queue \in {Append(<<>>, BlockDone(i)), Append(<<>>, SignedBlockDone(i))}
      BY <2>2, ShortQueues
    <3>2. <<"block_done", i>> \in fits
      BY <1>1 DEF BlockCan
    <3>3. Sound(fits, queue) /\ Elsewhere(fits, Comes(fits, queue), i)
      BY <1>5, <3>1, <3>2, EmitDone
    <3>4. \A j \in Nat : j > i => j # i
      OBVIOUS
    <3> QED
      BY <1>6, <3>3, <3>4, FreshElsewhere
  <2> QED
    BY <1>4, <2>1, <2>2
<1>8. PICK can : can = Comes(fits, queue)
  OBVIOUS
<1>9. AnthropicCan(can)'
  <2>1. i + 1 \in Nat /\ i + 1 > i /\ \A j \in Nat : j > i + 1 => j > i
    OBVIOUS
  <2>2. "none" \notin {"text", "thinking"}
    OBVIOUS
  <2> QED
    BY <1>3, <1>7, <1>8, <2>1, <2>2 DEF AnthropicCan
<1> QED
  BY <1>2, <1>3, <1>7, <1>8, <1>9, CanOfAnthropic

LEMMA FreshTwice ==
  ASSUME NEW a, NEW b, NEW c, NEW i, Elsewhere(a, b, i), Elsewhere(b, c, i)
  PROVE  Elsewhere(a, c, i)
  BY DEF Elsewhere

LEMMA WholeBlockEmits ==
  ASSUME NEW fits \in SUBSET Pairs, NEW i \in Nat, NEW kind \in {"reasoning", "tool_use", "text", "empty"},
         NEW text \in Pieces, Fresh(fits, i), NEW queue, queue = WholeBlock(kind, i, text)
  PROVE  Sound(fits, queue) /\ Elsewhere(fits, Comes(fits, queue), i)
<1>1. Sound(fits, <<>>) /\ Comes(fits, <<>>) = fits
  BY FirstEmitted
<1>2. /\ <<"text", i>> \in Comes(fits, <<>>) /\ <<"tool_use", i>> \in Comes(fits, <<>>)
      /\ <<"reasoning", i>> \in Comes(fits, <<>>)
  BY <1>1 DEF Fresh
<1>3. CASE kind \in {"reasoning", "text"}
  <2> DEFINE q == <<BlockStarted(i, kind)>>
             r == Append(q, Delta("text_delta", i, text))
  <2>1. /\ q = Append(<<>>, BlockStarted(i, kind))
        /\ queue \in {Append(r, BlockDone(i)), Append(r, SignedBlockDone(i))}
    BY <1>3, ShortQueues DEF WholeBlock
  <2>2. Sound(fits, q) /\ Elsewhere(fits, Comes(fits, q), i) /\ <<"text_delta", i>> \in Comes(fits, q)
    <3> HIDE DEF q
    <3>1. CASE kind = "text"
      BY <1>1, <1>2, <2>1, <3>1, EmitText
    <3>2. CASE kind = "reasoning"
      BY <1>1, <1>2, <2>1, <3>2, EmitReasoning
    <3> QED
      BY <1>3, <3>1, <3>2
  <2> HIDE DEF q
  <2>3. Sound(fits, r) /\ Elsewhere(Comes(fits, q), Comes(fits, r), i) /\ <<"block_done", i>> \in Comes(fits, r)
    BY <2>2, EmitTextDelta
  <2> HIDE DEF r
  <2>4. Sound(fits, queue) /\ Elsewhere(Comes(fits, r), Comes(fits, queue), i)
    BY <2>1, <2>3, EmitDone
  <2> QED
    BY <2>2, <2>3, <2>4, FreshTwice
<1>4. CASE kind = "tool_use"
  <2> DEFINE q == <<BlockStarted(i, "tool_use")>>
             r == Append(q, Delta("args_done", i, text))
  <2>1. q = Append(<<>>, BlockStarted(i, "tool_use")) /\ queue = Append(r, BlockDone(i))
    BY <1>4, ShortQueues DEF WholeBlock
  <2> HIDE DEF q
  <2>2. Sound(fits, q) /\ Elsewhere(fits, Comes(fits, q), i) /\ <<"args_done", i>> \in Comes(fits, q)
    BY <1>1, <1>2, <2>1, EmitTool
  <2>3. Sound(fits, r) /\ Elsewhere(Comes(fits, q), Comes(fits, r), i) /\ <<"block_done", i>> \in Comes(fits, r)
    BY <2>2, EmitArgsDone
  <2> HIDE DEF r
  <2>4. Sound(fits, queue) /\ Elsewhere(Comes(fits, r), Comes(fits, queue), i)
    BY <2>1, <2>3, EmitDone
  <2> QED
    BY <2>2, <2>3, <2>4, FreshTwice
<1>5. CASE kind = "empty"
  <2> DEFINE q == <<BlockStarted(i, "text")>>
  <2>1. q = Append(<<>>, BlockStarted(i, "text")) /\ queue = Append(q, BlockDone(i))
    BY <1>5, ShortQueues DEF WholeBlock
  <2> HIDE DEF q
  <2>2. Sound(fits, q) /\ Elsewhere(fits, Comes(fits, q), i) /\ <<"block_done", i>> \in Comes(fits, q)
    BY <1>1, <1>2, <2>1, EmitText
  <2>3. Sound(fits, queue) /\ Elsewhere(Comes(fits, q), Comes(fits, queue), i)
    BY <2>1, <2>2, EmitDone
  <2> QED
    BY <2>2, <2>3, FreshTwice
<1> QED
  BY <1>3, <1>4, <1>5

LEMMA WholeNextEmits ==
  ASSUME WholeNextBlock, provider \in Provider, NEW fits \in SUBSET Pairs, Can(fits),
         NEW queue, core' = queue
  PROVE  Sound(fits, queue) /\ Can(Comes(fits, queue))'
<1>0. PICK i \in Nat, text \in Pieces : i = provider.index /\ text = Piece
  BY ProviderFields
<1>1. protocol \in Whole /\ protocol' \in Whole /\ provider.phase = "open"
  BY DEF WholeNextBlock, ReadyWhole, Quiet
<1>2. \A j \in Nat : j >= i => Fresh(fits, j)
  BY <1>0, <1>1 DEF Can, WholeCan
<1>3. \/ core' = <<>> /\ Sends("open", "none", i, 1)
      \/ /\ \E kind \in {"reasoning", "tool_use", "text", "empty"} : core' = WholeBlock(kind, i, text)
         /\ Sends("open", "none", i + 1, 1)
  BY <1>0 DEF WholeNextBlock
<1>4. CASE core' = <<>> /\ Sends("open", "none", i, 1)
  <2>1. provider'.phase = "open" /\ provider'.index = i
    BY <1>4, SendsTo
  <2>2. Sound(fits, queue) /\ Comes(fits, queue) = fits
    BY <1>4, FirstEmitted
  <2>3. WholeCan(fits)'
    BY <1>2, <2>1 DEF WholeCan
  <2> QED
    BY <1>1, <2>1, <2>2, <2>3, CanOfWhole
<1>5. CASE /\ \E kind \in {"reasoning", "tool_use", "text", "empty"} : core' = WholeBlock(kind, i, text)
           /\ Sends("open", "none", i + 1, 1)
  <2>1. provider'.phase = "open" /\ provider'.index = i + 1
    BY <1>5, SendsTo
  <2>2. Sound(fits, queue) /\ Elsewhere(fits, Comes(fits, queue), i)
    <3>1. PICK kind \in {"reasoning", "tool_use", "text", "empty"} : queue = WholeBlock(kind, i, text)
      BY <1>5
    <3>2. Fresh(fits, i)
      BY <1>2
    <3> QED
      BY <3>1, <3>2, WholeBlockEmits
  <2>3. PICK can : can = Comes(fits, queue)
    OBVIOUS
  <2>4. \A j \in Nat : j >= i + 1 => Fresh(can, j)
    <3>1. \A j \in Nat : j >= i + 1 => j # i /\ j >= i
      OBVIOUS
    <3> QED
      BY <1>2, <2>2, <2>3, <3>1, FreshElsewhere
  <2>5. WholeCan(can)'
    BY <2>1, <2>4 DEF WholeCan
  <2> QED
    BY <1>1, <2>1, <2>2, <2>3, <2>5, CanOfWhole
<1> QED
  BY <1>3, <1>4, <1>5

GoogleEvents(started, delta, finish) ==
    (IF started THEN <<>> ELSE <<BlockStarted(0, "text")>>)
    \o (IF delta # <<>> THEN <<Delta("text_delta", 0, delta)>> ELSE <<>>)
    \o (IF finish THEN <<BlockDone(0)>> ELSE <<>>)

LEMMA GoogleEmits ==
  ASSUME NEW fits \in SUBSET Pairs, NEW started \in BOOLEAN, NEW delta \in Pieces, NEW finish \in BOOLEAN,
         started => <<"text_delta", 0>> \in fits /\ <<"block_done", 0>> \in fits,
         started \/ <<"text", 0>> \in fits
  PROVE  LET queue == GoogleEvents(started, delta, finish)
         IN /\ Sound(fits, queue)
            /\ finish \/ (<<"text_delta", 0>> \in Comes(fits, queue) /\ <<"block_done", 0>> \in Comes(fits, queue))
<1> SUFFICES ASSUME NEW queue, queue = GoogleEvents(started, delta, finish)
             PROVE  /\ Sound(fits, queue)
                    /\ \/ finish
                       \/ <<"text_delta", 0>> \in Comes(fits, queue) /\ <<"block_done", 0>> \in Comes(fits, queue)
  OBVIOUS
<1> DEFINE q == IF started THEN <<>> ELSE <<BlockStarted(0, "text")>>
           r == q \o (IF delta # <<>> THEN <<Delta("text_delta", 0, delta)>> ELSE <<>>)
<1>0. 0 \in Nat /\ queue = r \o (IF finish THEN <<BlockDone(0)>> ELSE <<>>)
  BY DEF GoogleEvents
<1>1. Sound(fits, <<>>) /\ Comes(fits, <<>>) = fits
  BY FirstEmitted
<1>2. /\ Sound(fits, q)
      /\ <<"text_delta", 0>> \in Comes(fits, q) /\ <<"block_done", 0>> \in Comes(fits, q)
  <2>1. CASE started
    BY <1>1, <2>1
  <2>2. CASE ~ started
    <3>1. q = Append(<<>>, BlockStarted(0, "text")) /\ <<"text", 0>> \in Comes(fits, <<>>)
      BY <1>1, <2>2, ShortQueues
    <3> HIDE DEF q
    <3> QED
      BY <1>0, <1>1, <3>1, EmitText
  <2> QED
    BY <2>1, <2>2
<1> HIDE DEF q
<1>3. q \in Seq(CoreEvent) /\ Delta("text_delta", 0, delta) \in CoreEvent /\ BlockDone(0) \in CoreEvent
  BY <1>0, <1>2, EventsTyped DEF Sound
<1>4. /\ Sound(fits, r)
      /\ <<"text_delta", 0>> \in Comes(fits, r) /\ <<"block_done", 0>> \in Comes(fits, r)
  <2>1. CASE delta = <<>>
    <3>1. r = q
      BY <1>3, <2>1, Joins
    <3> QED
      BY <1>2, <3>1
  <2>2. CASE delta # <<>>
    <3>1. r = Append(q, Delta("text_delta", 0, delta))
      BY <1>3, <2>2, Joins
    <3> HIDE DEF r
    <3> QED
      BY <1>0, <1>2, <3>1, EmitTextDelta
  <2> QED
    BY <2>1, <2>2
<1> HIDE DEF r
<1>5. r \in Seq(CoreEvent)
  BY <1>4 DEF Sound
<1>6. CASE ~ finish
  <2>1. queue = r
    BY <1>0, <1>5, <1>6, Joins
  <2> QED
    BY <1>4, <2>1
<1>7. CASE finish
  <2>1. queue = Append(r, BlockDone(0))
    BY <1>0, <1>3, <1>5, <1>7, Joins
  <2>2. Sound(fits, queue)
    BY <1>0, <1>4, <2>1, EmitDone
  <2> QED
    BY <1>7, <2>2
<1> QED
  BY <1>6, <1>7

LEMMA ComputeDeltaTyped ==
  ASSUME NEW prev \in Pieces, NEW current \in Pieces
  PROVE  ComputeDelta(prev, current) \in Pieces
<1>1. CASE Len(current) <= Len(prev)
  BY <1>1 DEF ComputeDelta
<1>2. CASE ~ (Len(current) <= Len(prev))
  <2>1. Len(prev) \in Nat /\ Len(current) \in Nat /\ prev \in Seq(Nat) /\ current \in Seq(Nat)
    BY DEF Pieces
  <2>2. Len(prev) + 1 \in 1..Len(current)
    BY <1>2, <2>1
  <2>3. SubSeq(current, Len(prev) + 1, Len(current)) \in Seq(Nat)
    BY <2>1, <2>2
  <2> QED
    BY <1>2, <2>3 DEF ComputeDelta, Pieces
<1> QED
  BY <1>1, <1>2

LEMMA GoogleChunkEmits ==
  ASSUME GoogleChunk, provider \in Provider, ConvTyped, GivenTyped, NEW fits \in SUBSET Pairs, Can(fits),
         NEW queue, core' = queue
  PROVE  Sound(fits, queue) /\ Can(Comes(fits, queue))'
<1>1. protocol = "google" /\ protocol' = "google" /\ provider.phase \in {"start", "open"} /\ 0 \in Nat
  BY DEF GoogleChunk, Ready, Quiet
<1>2. PICK grows \in BOOLEAN, finish \in BOOLEAN :
        LET current == given.text \o (IF grows THEN Piece ELSE <<>>)
            delta == ComputeDelta(conv.prevText, current)
        IN /\ core' = (IF conv.started THEN <<>> ELSE <<BlockStarted(0, "text")>>)
                      \o (IF delta # <<>> THEN <<Delta("text_delta", 0, delta)>> ELSE <<>>)
                      \o (IF finish THEN <<BlockDone(0)>> ELSE <<>>)
           /\ conv' = [started |-> TRUE, prevText |-> current]
           /\ Sends(IF finish THEN "stopped" ELSE "open", "text", 0, IF grows THEN 1 ELSE 0)
  BY DEF GoogleChunk
<1>3. /\ provider'.phase = IF finish THEN "stopped" ELSE "open"
      /\ conv'.started
  <2>1. \E pieces : Sends(IF finish THEN "stopped" ELSE "open", "text", 0, pieces)
    BY <1>2
  <2>2. provider'.phase = IF finish THEN "stopped" ELSE "open"
    BY <2>1, SendsTo
  <2> QED
    BY <1>2, <2>2
<1>4. PICK started \in BOOLEAN, delta \in Pieces :
        started = conv.started /\ queue = GoogleEvents(started, delta, finish)
  <2>1. given.text \in Pieces /\ Piece \in Pieces /\ conv.started \in BOOLEAN /\ conv.prevText \in Pieces
    <3>1. Piece \in Pieces
      BY ProviderFields
    <3>2. given.text \in Pieces
      BY DEF GivenTyped
    <3> QED
      BY <1>1, <3>1, <3>2 DEF ConvTyped
  <2>2. PICK current : current = given.text \o (IF grows THEN Piece ELSE <<>>)
    OBVIOUS
  <2>3. current \in Pieces
    <3>1. (IF grows THEN Piece ELSE <<>>) \in Pieces
      BY <2>1 DEF Pieces
    <3> QED
      BY <2>1, <2>2, <3>1, ConcatProperties DEF Pieces
  <2>4. ComputeDelta(conv.prevText, current) \in Pieces
    BY <2>1, <2>3, ComputeDeltaTyped
  <2> QED
    BY <1>2, <2>1, <2>2, <2>4 DEF GoogleEvents
<1>5. /\ started => <<"text_delta", 0>> \in fits /\ <<"block_done", 0>> \in fits
      /\ started \/ <<"text", 0>> \in fits
  <2>1. CASE provider.phase = "start"
    <3>1. Fresh(fits, 0) /\ ~ conv.started
      BY <1>1, <2>1 DEF Can, StartCan
    <3>2. ~ started /\ <<"text", 0>> \in fits
      BY <1>4, <3>1 DEF Fresh
    <3> QED
      BY <3>2
  <2>2. CASE provider.phase = "open"
    <3>1. conv.started /\ <<"text_delta", 0>> \in fits /\ <<"block_done", 0>> \in fits
      BY <1>1, <2>2 DEF Can, GoogleCan
    <3>2. started
      BY <1>4, <3>1
    <3> QED
      BY <3>1, <3>2
  <2> QED
    BY <1>1, <2>1, <2>2
<1>6. /\ Sound(fits, queue)
      /\ finish \/ (<<"text_delta", 0>> \in Comes(fits, queue) /\ <<"block_done", 0>> \in Comes(fits, queue))
  BY <1>4, <1>5, GoogleEmits
<1>7. PICK can : can = Comes(fits, queue)
  OBVIOUS
<1>8. GoogleCan(can)'
  BY <1>3, <1>6, <1>7 DEF GoogleCan
<1>9. Can(can)'
  BY <1>1, <1>3, <1>8, CanOfGoogle
<1> QED
  BY <1>6, <1>7, <1>9

-----------------------------------------------------------------------------
(***************************************************************************)
(* Chat Completions: the checks that a chunk goes through.                 *)
(***************************************************************************)

Point(st, out, chunk) == [st |-> st, out |-> out, chunk |-> chunk]

\* The checks that a chunk passes without a change.
LEMMA ThenNot ==
  ASSUME NEW r, NEW test, ~ test, NEW next, NEW events
  PROVE  Then(r, test, next, events) = r
  BY DEF Then

LEMMA PassesParts ==
  ASSUME NEW r
  PROVE  /\ r.st.started \/ ~ r.chunk.role => ChatStart(r) = r
         /\ r.chunk.reasoning = <<>> \/ r.st.hasReasoning => ChatLateReasoning(r) = r
         /\ r.chunk.reasoning = <<>> => ChatReasoning(r) = r
         /\ r.chunk.content = <<>> \/ ~ r.st.hasReasoning => ChatTextAfterReasoning(r) = r
         /\ r.chunk.content = <<>> => ChatContent(r) = r
<1>1. r.st.started \/ ~ r.chunk.role => ChatStart(r) = r
  BY Zenon DEF ChatStart, Then
<1>2. r.chunk.reasoning = <<>> \/ r.st.hasReasoning => ChatLateReasoning(r) = r
  BY Zenon DEF ChatLateReasoning, Then
<1>3. r.chunk.reasoning = <<>> => ChatReasoning(r) = r
  BY Zenon DEF ChatReasoning, Then
<1>4. r.chunk.content = <<>> \/ ~ r.st.hasReasoning => ChatTextAfterReasoning(r) = r
  BY Zenon DEF ChatTextAfterReasoning, Then
<1>5. r.chunk.content = <<>> => ChatContent(r) = r
  BY Zenon DEF ChatContent, Then
<1> QED
  BY <1>1, <1>2, <1>3, <1>4, <1>5

LEMMA PassesCalls ==
  ASSUME NEW r
  PROVE  /\ r.chunk.call = "none" \/ r.chunk.pos \in DOMAIN r.st.toolCallSlot => ChatSlot(r) = r
         /\ r.chunk.call # "named" => ChatCallStart(r) = r
         /\ r.chunk.call = "none" => ChatCallArgs(r) = r
         /\ ~ r.chunk.finish => ChatFinish(r) = r
<1>1. r.chunk.call = "none" \/ r.chunk.pos \in DOMAIN r.st.toolCallSlot => ChatSlot(r) = r
  BY Zenon DEF ChatSlot, Then
<1>2. r.chunk.call # "named" => ChatCallStart(r) = r
  BY Zenon DEF ChatCallStart, Then
<1>3. r.chunk.call = "none" => ChatCallArgs(r) = r
  BY Zenon DEF ChatCallArgs, Then
<1>4. ~ r.chunk.finish => ChatFinish(r) = r
  BY Zenon DEF ChatFinish, Then
<1> QED
  BY <1>1, <1>2, <1>3, <1>4

LEMMA Puts ==
  ASSUME NEW a \in CoreEvent, NEW b \in CoreEvent, NEW c \in CoreEvent
  PROVE  /\ <<>> \o <<a>> = <<a>> /\ <<>> \o <<a, b>> = <<a, b>>
         /\ <<a>> \o <<b>> = <<a, b>> /\ <<a, b>> \o <<c>> = <<a, b, c>>
         /\ <<a>> \o <<>> = <<a>>
<1>1. <<a>> \in Seq(CoreEvent) /\ <<a, b>> \in Seq(CoreEvent)
  OBVIOUS
<1>2. /\ <<a>> \o <<b>> = Append(<<a>>, b) /\ <<a, b>> \o <<c>> = Append(<<a, b>>, c)
      /\ <<a>> \o <<>> = <<a>> /\ <<>> \o <<a>> = <<a>> /\ <<>> \o <<a, b>> = <<a, b>>
  BY <1>1, Joins
<1>3. Append(<<a>>, b) = <<a, b>>
  BY ShortQueues, Zenon
<1>4. Append(<<a, b>>, c) = <<a, b, c>>
  <2>1. Append(<<a, b>>, c) \in Seq(CoreEvent) /\ <<a, b, c>> \in Seq(CoreEvent)
    BY <1>1, Appended
  <2>2. Len(Append(<<a, b>>, c)) = 3 /\ \A k \in 1..3 : Append(<<a, b>>, c)[k] = <<a, b, c>>[k]
    BY <1>1
  <2> QED
    BY <2>1, <2>2, SameSequence
<1> QED
  BY <1>2, <1>3, <1>4, Zenon

\* A chunk without a call that does not end the stream.
Parts(r) == ChatContent(ChatTextAfterReasoning(ChatReasoning(ChatLateReasoning(ChatStart(r)))))

LEMMA ConvertsParts ==
  ASSUME NEW role, NEW reasoning, NEW content, NEW chunk,
         chunk = Chunk(role, reasoning, content, 0, "none", <<>>, FALSE),
         NEW st, NEW out, Parts(Point(conv, <<>>, chunk)) = Point(st, out, chunk)
  PROVE  ChatConvert(chunk).st = st /\ ChatConvert(chunk).out = out
<1>1. chunk.call = "none" /\ ~ chunk.finish
  BY DEF Chunk
<1>2. ChatConvert(chunk) = ChatFinish(ChatCallArgs(ChatCallStart(ChatSlot(Point(st, out, chunk)))))
  <2>1. ChatConvert(chunk) =
          ChatFinish(ChatCallArgs(ChatCallStart(ChatSlot(Parts(Point(conv, <<>>, chunk))))))
    BY Zenon DEF ChatConvert, Parts, Point
  <2> QED
    BY <2>1
<1> DEFINE r == Point(st, out, chunk)
<1>3. r.chunk = chunk /\ r.st = st /\ r.out = out
  BY DEF Point
<1> HIDE DEF r
<1>4. ChatSlot(r) = r /\ ChatCallStart(r) = r /\ ChatCallArgs(r) = r /\ ChatFinish(r) = r
  BY <1>1, <1>3, PassesCalls
<1>5. ChatConvert(chunk) = r
  BY <1>2, <1>4 DEF r
<1> QED
  BY <1>3, <1>5

LEMMA ConvertsReasoning ==
  ASSUME conv \in ChatState, conv.started, NEW text \in Pieces, text # <<>>,
         NEW chunk, chunk = Chunk(FALSE, text, <<>>, 0, "none", <<>>, FALSE)
  PROVE  LET b == conv.blockIndex IN
         /\ conv.hasReasoning =>
              /\ ChatConvert(chunk).st = conv
              /\ ChatConvert(chunk).out = <<Delta("text_delta", conv.reasonIndex, text)>>
         /\ ~ conv.hasReasoning =>
              /\ ChatConvert(chunk).st =
                   [conv EXCEPT !.hasReasoning = TRUE, !.reasonIndex = b + 1, !.blockIndex = b + 1]
              /\ ChatConvert(chunk).out = <<BlockDone(b + 1), BlockStarted(b + 1, "reasoning"),
                                            Delta("text_delta", b + 1, text)>>
<1> DEFINE b == conv.blockIndex
           r == Point(conv, <<>>, chunk)
<1>1. chunk.role = FALSE /\ chunk.reasoning = text /\ chunk.content = <<>>
  BY DEF Chunk
<1>2. b \in Nat /\ conv.reasonIndex \in Nat /\ b + 1 \in Nat
  BY DEF ChatState
<1>3. ChatStart(r) = r /\ r.st = conv /\ r.chunk = chunk
  <2>1. r.st = conv /\ r.chunk = chunk
    BY DEF Point
  <2> HIDE DEF r
  <2> QED
    BY <1>1, <2>1, PassesParts
<1>4. CASE conv.hasReasoning
  <2> DEFINE e == Delta("text_delta", conv.reasonIndex, text)
             q == Point(conv, <<e>>, chunk)
  <2>1. ChatLateReasoning(r) = r
    <3> HIDE DEF r
    <3> QED
      BY <1>3, <1>4, PassesParts
  <2>2. e \in CoreEvent /\ <<>> \o <<e>> = <<e>>
    BY <1>2, EventsTyped, Puts
  <2>3. ChatReasoning(r) = q
    <3>1. ChatReasoning(r) = Then(r, text # <<>>, conv, <<e>>)
      BY <1>1, <1>3, Zenon DEF ChatReasoning
    <3> HIDE DEF e
    <3>2. Then(Point(conv, <<>>, chunk), text # <<>>, conv, <<e>>) = Point(conv, <<>> \o <<e>>, chunk)
      BY DEF Then, Point
    <3> QED
      BY <2>2, <3>1, <3>2
  <2>4. q.st = conv /\ q.chunk = chunk
    BY DEF Point
  <2> HIDE DEF q, r, e
  <2>5. ChatTextAfterReasoning(q) = q /\ ChatContent(q) = q
    BY <1>1, <2>4, PassesParts
  <2>6. Parts(r) = q
    BY <1>3, <2>1, <2>3, <2>5 DEF Parts
  <2> QED
    BY <1>4, <2>6, ConvertsParts DEF q, r, e
<1>5. CASE ~ conv.hasReasoning
  <2> DEFINE d == BlockDone(b + 1)
             s == BlockStarted(b + 1, "reasoning")
             e == Delta("text_delta", b + 1, text)
             st == [conv EXCEPT !.hasReasoning = TRUE, !.reasonIndex = b + 1, !.blockIndex = b + 1]
             p == Point(st, <<d, s>>, chunk)
             q == Point(st, <<d, s, e>>, chunk)
  <2>1. /\ d \in CoreEvent /\ s \in CoreEvent /\ e \in CoreEvent
        /\ <<>> \o <<d, s>> = <<d, s>> /\ <<d, s>> \o <<e>> = <<d, s, e>>
    <3>1. d \in CoreEvent /\ s \in CoreEvent /\ e \in CoreEvent
      BY <1>2, EventsTyped
    <3> HIDE DEF d, s, e
    <3> QED
      BY <3>1, Puts
  <2>2. st.reasonIndex = b + 1
    BY DEF ChatState
  <2>3. ChatLateReasoning(r) = p
    <3>1. ChatLateReasoning(r) = Then(r, text # <<>> /\ ~ conv.hasReasoning, st, <<d, s>>)
      BY <1>1, <1>3, Zenon DEF ChatLateReasoning
    <3> HIDE DEF st, d, s, e
    <3>2. Then(Point(conv, <<>>, chunk), text # <<>> /\ ~ conv.hasReasoning, st, <<d, s>>)
            = Point(st, <<>> \o <<d, s>>, chunk)
      BY <1>5 DEF Then, Point
    <3> QED
      BY <2>1, <3>1, <3>2
  <2>4. ChatReasoning(p) = q
    <3>1. p.st = st /\ p.chunk = chunk
      BY DEF Point
    <3> HIDE DEF st
    <3>2. ChatReasoning(p) = Then(p, text # <<>>, st, <<e>>)
      <4> HIDE DEF p
      <4> QED
        BY <1>1, <2>2, <3>1 DEF ChatReasoning
    <3> HIDE DEF d, s, e
    <3>3. Then(Point(st, <<d, s>>, chunk), text # <<>>, st, <<e>>) = Point(st, <<d, s>> \o <<e>>, chunk)
      BY DEF Then, Point
    <3> QED
      BY <2>1, <3>2, <3>3
  <2>5. q.st = st /\ q.chunk = chunk
    BY DEF Point
  <2> HIDE DEF p, q, r, st, d, s, e
  <2>6. ChatTextAfterReasoning(q) = q /\ ChatContent(q) = q
    BY <1>1, <2>5, PassesParts
  <2>7. Parts(r) = q
    BY <1>3, <2>3, <2>4, <2>6 DEF Parts
  <2> QED
    BY <1>5, <2>7, ConvertsParts DEF q, r, st, d, s, e
<1> QED
  BY <1>4, <1>5

LEMMA ConvertsText ==
  ASSUME conv \in ChatState, conv.started, NEW text \in Pieces, text # <<>>,
         NEW chunk, chunk = Chunk(FALSE, <<>>, text, 0, "none", <<>>, FALSE)
  PROVE  LET i == conv.reasonIndex + 1 IN
         /\ ~ conv.hasReasoning =>
              /\ ChatConvert(chunk).st = conv
              /\ ChatConvert(chunk).out = <<Delta("text_delta", conv.blockIndex, text)>>
         /\ conv.hasReasoning =>
              /\ ChatConvert(chunk).st = [conv EXCEPT !.hasReasoning = FALSE, !.blockIndex = i]
              /\ ChatConvert(chunk).out = <<BlockDone(conv.reasonIndex), BlockStarted(i, "text"),
                                            Delta("text_delta", i, text)>>
<1> DEFINE i == conv.reasonIndex + 1
           r == Point(conv, <<>>, chunk)
<1>1. chunk.role = FALSE /\ chunk.reasoning = <<>> /\ chunk.content = text
  BY DEF Chunk
<1>2. i \in Nat /\ conv.reasonIndex \in Nat /\ conv.blockIndex \in Nat
  BY DEF ChatState
<1>3. ChatStart(r) = r /\ ChatLateReasoning(r) = r /\ ChatReasoning(r) = r /\ r.st = conv /\ r.chunk = chunk
  <2>1. r.st = conv /\ r.chunk = chunk
    BY DEF Point
  <2> HIDE DEF r
  <2> QED
    BY <1>1, <2>1, PassesParts
<1>4. CASE ~ conv.hasReasoning
  <2> DEFINE e == Delta("text_delta", conv.blockIndex, text)
             q == Point(conv, <<e>>, chunk)
  <2>1. ChatTextAfterReasoning(r) = r
    <3> HIDE DEF r
    <3> QED
      BY <1>3, <1>4, PassesParts
  <2>2. e \in CoreEvent /\ <<>> \o <<e>> = <<e>>
    BY <1>2, EventsTyped, Puts
  <2>3. ChatContent(r) = q
    <3>1. ChatContent(r) = Then(r, text # <<>>, conv, <<e>>)
      BY <1>1, <1>3, Zenon DEF ChatContent
    <3> HIDE DEF e
    <3>2. Then(Point(conv, <<>>, chunk), text # <<>>, conv, <<e>>) = Point(conv, <<>> \o <<e>>, chunk)
      BY DEF Then, Point
    <3> QED
      BY <2>2, <3>1, <3>2
  <2> HIDE DEF q, r, e
  <2>4. Parts(r) = q
    BY <1>3, <2>1, <2>3 DEF Parts
  <2> QED
    BY <1>4, <2>4, ConvertsParts DEF q, r, e
<1>5. CASE conv.hasReasoning
  <2> DEFINE d == BlockDone(conv.reasonIndex)
             s == BlockStarted(i, "text")
             e == Delta("text_delta", i, text)
             st == [conv EXCEPT !.hasReasoning = FALSE, !.blockIndex = i]
             p == Point(st, <<d, s>>, chunk)
             q == Point(st, <<d, s, e>>, chunk)
  <2>1. /\ d \in CoreEvent /\ s \in CoreEvent /\ e \in CoreEvent
        /\ <<>> \o <<d, s>> = <<d, s>> /\ <<d, s>> \o <<e>> = <<d, s, e>>
    <3>1. d \in CoreEvent /\ s \in CoreEvent /\ e \in CoreEvent
      BY <1>2, EventsTyped
    <3> HIDE DEF d, s, e
    <3> QED
      BY <3>1, Puts
  <2>2. st.blockIndex = i
    BY DEF ChatState
  <2>3. ChatTextAfterReasoning(r) = p
    <3>1. ChatTextAfterReasoning(r) = Then(r, text # <<>> /\ conv.hasReasoning, st, <<d, s>>)
      BY <1>1, <1>3, Zenon DEF ChatTextAfterReasoning
    <3> HIDE DEF st, d, s, e
    <3>2. Then(Point(conv, <<>>, chunk), text # <<>> /\ conv.hasReasoning, st, <<d, s>>)
            = Point(st, <<>> \o <<d, s>>, chunk)
      BY <1>5 DEF Then, Point
    <3> QED
      BY <2>1, <3>1, <3>2
  <2>4. ChatContent(p) = q
    <3>1. p.st = st /\ p.chunk = chunk
      BY DEF Point
    <3> HIDE DEF st
    <3>2. ChatContent(p) = Then(p, text # <<>>, st, <<e>>)
      <4> HIDE DEF p
      <4> QED
        BY <1>1, <2>2, <3>1 DEF ChatContent
    <3> HIDE DEF d, s, e
    <3>3. Then(Point(st, <<d, s>>, chunk), text # <<>>, st, <<e>>) = Point(st, <<d, s>> \o <<e>>, chunk)
      BY DEF Then, Point
    <3> QED
      BY <2>1, <3>2, <3>3
  <2> HIDE DEF p, q, r, st, d, s, e
  <2>5. Parts(r) = q
    BY <1>3, <2>3, <2>4 DEF Parts
  <2> QED
    BY <1>5, <2>5, ConvertsParts DEF q, r, st, d, s, e
<1> QED
  BY <1>4, <1>5

\* The first chunk of a stream.
RoleConverts(chunk, reasoning, content) ==
    LET thinks == reasoning # <<>> IN
    /\ ChatConvert(chunk).st =
         [ChatConv EXCEPT !.started = TRUE, !.hasReasoning = thinks, !.reasonIndex = 0]
    /\ thinks => ChatConvert(chunk).out =
                   <<BlockStarted(0, "reasoning"), Delta("text_delta", 0, reasoning)>>
    /\ content # <<>> => ChatConvert(chunk).out =
                           <<BlockStarted(0, "text"), Delta("text_delta", 0, content)>>
    /\ reasoning = <<>> /\ content = <<>> => ChatConvert(chunk).out = <<BlockStarted(0, "text")>>

LEMMA ConvertsRole ==
  ASSUME conv = ChatConv, NEW reasoning \in Pieces, NEW content \in Pieces,
         reasoning = <<>> \/ content = <<>>,
         NEW chunk, chunk = Chunk(TRUE, reasoning, content, 0, "none", <<>>, FALSE)
  PROVE  RoleConverts(chunk, reasoning, content)
<1> DEFINE r == Point(conv, <<>>, chunk)
           thinks == reasoning # <<>>
           text == IF thinks THEN reasoning ELSE content
           s == BlockStarted(0, IF thinks THEN "reasoning" ELSE "text")
           e == Delta("text_delta", 0, text)
           st == [ChatConv EXCEPT !.started = TRUE, !.hasReasoning = thinks, !.reasonIndex = 0]
           p == Point(st, <<s>>, chunk)
           q == Point(st, <<s, e>>, chunk)
<1>1. chunk.role = TRUE /\ chunk.reasoning = reasoning /\ chunk.content = content
  BY DEF Chunk
<1>2. /\ s \in CoreEvent /\ e \in CoreEvent
      /\ <<>> \o <<s>> = <<s>> /\ <<s>> \o <<e>> = <<s, e>>
  <2>1. s \in CoreEvent /\ e \in CoreEvent
    BY EventsTyped
  <2> HIDE DEF s, e
  <2> QED
    BY <2>1, Puts
<1>3. ChatStart(r) = p
  <2>1. r.st = conv /\ r.chunk = chunk /\ conv.started = FALSE /\ conv.blockIndex = 0
    BY DEF Point, ChatConv
  <2>2. [conv EXCEPT !.started = TRUE, !.hasReasoning = @ \/ thinks,
                     !.reasonIndex = IF thinks THEN conv.blockIndex ELSE @] = st
    BY DEF ChatConv
  <2>3. ChatStart(r) = Then(r, TRUE, st, <<s>>)
    <3> HIDE DEF r, st
    <3> QED
      BY <1>1, <2>1, <2>2 DEF ChatStart, Then
  <2> HIDE DEF s, e, st
  <2>4. Then(Point(conv, <<>>, chunk), TRUE, st, <<s>>) = Point(st, <<>> \o <<s>>, chunk)
    BY DEF Then, Point
  <2> QED
    BY <1>2, <2>3, <2>4
<1>4. p.st = st /\ p.chunk = chunk /\ q.st = st /\ q.chunk = chunk
  BY DEF Point
<1>5. st.blockIndex = 0 /\ st.reasonIndex = 0 /\ st.hasReasoning = thinks
  BY DEF ChatConv
<1>6. text # <<>> => Then(p, text # <<>>, st, <<e>>) = q
  <2> HIDE DEF s, e, st
  <2>1. Then(Point(st, <<s>>, chunk), TRUE, st, <<e>>) = Point(st, <<s>> \o <<e>>, chunk)
    BY DEF Then, Point
  <2>2. text # <<>> => Then(p, text # <<>>, st, <<e>>) = Then(p, TRUE, st, <<e>>)
    BY DEF Then
  <2> QED
    BY <1>2, <2>1, <2>2
<1>7. Parts(r) = IF text = <<>> THEN p ELSE q
  <2>1. CASE thinks
    <3>1. ChatReasoning(p) = Then(p, text # <<>>, st, <<e>>)
      <4> HIDE DEF p, st
      <4> QED
        BY <1>1, <1>4, <1>5, <2>1 DEF ChatReasoning
    <3> HIDE DEF p, q, r, st
    <3>2. ChatLateReasoning(p) = p
      BY <1>4, <1>5, <2>1, PassesParts
    <3>3. ChatTextAfterReasoning(q) = q /\ ChatContent(q) = q
      BY <1>1, <1>4, <2>1, PassesParts
    <3> QED
      BY <1>3, <1>6, <2>1, <3>1, <3>2, <3>3 DEF Parts
  <2>2. CASE ~ thinks
    <3>1. ChatContent(p) = Then(p, text # <<>>, st, <<e>>)
      <4> HIDE DEF p, st
      <4> QED
        BY <1>1, <1>4, <1>5, <2>2 DEF ChatContent
    <3> HIDE DEF p, q, r, st
    <3>2. ChatLateReasoning(p) = p /\ ChatReasoning(p) = p /\ ChatTextAfterReasoning(p) = p
      BY <1>1, <1>4, <1>5, <2>2, PassesParts
    <3>3. text = <<>> => ChatContent(p) = p
      BY <1>1, <1>4, <2>2, PassesParts
    <3> QED
      BY <1>3, <1>6, <3>1, <3>2, <3>3 DEF Parts
  <2> QED
    BY <2>1, <2>2
<1>8. ChatConvert(chunk).st = st /\ ChatConvert(chunk).out = IF text = <<>> THEN <<s>> ELSE <<s, e>>
  <2> HIDE DEF s, e, st, r, text
  <2>1. Parts(r) = Point(st, IF text = <<>> THEN <<s>> ELSE <<s, e>>, chunk)
    BY <1>7
  <2> QED
    BY <2>1, ConvertsParts DEF r
<1> QED
  BY <1>8 DEF RoleConverts

\* The slot of a call, and the state with that slot given out.
NextSlot == IF conv.toolCallSlot = <<>> THEN conv.blockIndex + 1 ELSE conv.toolCallIdx
SlotOf(pos) == IF pos \in DOMAIN conv.toolCallSlot THEN conv.toolCallSlot[pos] ELSE NextSlot
Slotted(pos) ==
    IF pos \in DOMAIN conv.toolCallSlot THEN conv
    ELSE [conv EXCEPT !.toolCallSlot = With(conv.toolCallSlot, pos, NextSlot), !.toolCallIdx = NextSlot + 1]

LEMMA SlottedTyped ==
  ASSUME conv \in ChatState, NEW pos \in Nat
  PROVE  /\ SlotOf(pos) \in Nat /\ Slotted(pos) \in ChatState
         /\ Slotted(pos).toolCallSlot[pos] = SlotOf(pos)
         /\ Slotted(pos).callStarted = conv.callStarted
         /\ Slotted(pos).blockIndex = conv.blockIndex /\ Slotted(pos).reasonIndex = conv.reasonIndex
         /\ Slotted(pos).hasReasoning = conv.hasReasoning /\ Slotted(pos).started = conv.started
         /\ DOMAIN Slotted(pos).toolCallSlot = DOMAIN conv.toolCallSlot \cup {pos}
         /\ \A p \in DOMAIN conv.toolCallSlot : Slotted(pos).toolCallSlot[p] = conv.toolCallSlot[p]
         /\ pos \notin DOMAIN conv.toolCallSlot => Slotted(pos).toolCallIdx = NextSlot + 1
         /\ pos \in DOMAIN conv.toolCallSlot => Slotted(pos).toolCallIdx = conv.toolCallIdx
<1>1. /\ conv.toolCallSlot \in Partial(Nat) /\ conv.blockIndex \in Nat /\ conv.toolCallIdx \in Nat
  BY DEF ChatState
<1>2. NextSlot \in Nat
  BY <1>1 DEF NextSlot
<1>3. CASE pos \in DOMAIN conv.toolCallSlot
  <2>1. conv.toolCallSlot[pos] \in Nat
    BY <1>1, <1>3, PartialAt
  <2> QED
    BY <1>3, <2>1 DEF SlotOf, Slotted
<1>4. CASE pos \notin DOMAIN conv.toolCallSlot
  <2> DEFINE f == With(conv.toolCallSlot, pos, NextSlot)
  <2>1. f \in Partial(Nat)
    BY <1>1, <1>2, PartialWith
  <2>2. /\ f[pos] = NextSlot /\ DOMAIN f = DOMAIN conv.toolCallSlot \cup {pos}
        /\ \A p \in DOMAIN conv.toolCallSlot : f[p] = conv.toolCallSlot[p]
    BY <1>4 DEF With
  <2>3. Slotted(pos) = [conv EXCEPT !.toolCallSlot = f, !.toolCallIdx = NextSlot + 1] /\ SlotOf(pos) = NextSlot
    BY <1>4 DEF Slotted, SlotOf
  <2> HIDE DEF f
  <2>4. /\ Slotted(pos) \in ChatState /\ Slotted(pos).toolCallSlot = f
        /\ Slotted(pos).callStarted = conv.callStarted
        /\ Slotted(pos).blockIndex = conv.blockIndex /\ Slotted(pos).reasonIndex = conv.reasonIndex
        /\ Slotted(pos).hasReasoning = conv.hasReasoning /\ Slotted(pos).started = conv.started
        /\ Slotted(pos).toolCallIdx = NextSlot + 1
    <3>1. PICK next \in Nat : next = NextSlot + 1
      BY <1>2
    <3>2. Slotted(pos) = [conv EXCEPT !.toolCallSlot = f, !.toolCallIdx = next]
      BY <2>3, <3>1
    <3> DEFINE d == Slotted(pos)
    <3>3. conv \in ChatState /\ f \in Partial(Nat) /\ next \in Nat /\ d = [conv EXCEPT !.toolCallSlot = f, !.toolCallIdx = next]
      BY <2>1, <3>2
    <3> HIDE DEF d
    <3>4. /\ d \in ChatState /\ d.toolCallSlot = f /\ d.toolCallIdx = next
          /\ d.callStarted = conv.callStarted /\ d.blockIndex = conv.blockIndex /\ d.reasonIndex = conv.reasonIndex
          /\ d.hasReasoning = conv.hasReasoning /\ d.started = conv.started
      BY <3>3 DEF ChatState
    <3> QED
      BY <3>1, <3>4 DEF d
  <2> QED
    BY <1>2, <1>4, <2>2, <2>3, <2>4
<1> QED
  BY <1>3, <1>4

CallConverts(chunk, pos, call, args, slot) ==
    LET starts == call = "named" /\ slot \notin conv.callStarted IN
    /\ starts =>
         /\ ChatConvert(chunk).st = [Slotted(pos) EXCEPT !.callStarted = @ \cup {slot}]
         /\ ChatConvert(chunk).out = <<BlockStarted(slot, "tool_use"), Delta("args_delta", slot, args)>>
    /\ ~ starts =>
         /\ ChatConvert(chunk).st = Slotted(pos)
         /\ ChatConvert(chunk).out =
              IF slot \in conv.callStarted THEN <<Delta("args_delta", slot, args)>> ELSE <<>>

LEMMA ConvertsCall ==
  ASSUME conv \in ChatState, conv.started, NEW pos \in Nat, NEW call \in {"named", "unnamed"},
         NEW args \in Pieces, args # <<>>,
         NEW chunk, chunk = Chunk(FALSE, <<>>, <<>>, pos, call, args, FALSE),
         NEW slot, slot = SlotOf(pos)
  PROVE  CallConverts(chunk, pos, call, args, slot)
<1> DEFINE r == Point(conv, <<>>, chunk)
           st == Slotted(pos)
           starts == call = "named" /\ slot \notin conv.callStarted
           p == Point(st, <<>>, chunk)
           s == BlockStarted(slot, "tool_use")
           e == Delta("args_delta", slot, args)
           tt == [st EXCEPT !.callStarted = @ \cup {slot}]
           q == IF starts THEN Point(tt, <<s>>, chunk) ELSE p
<1>1. /\ chunk.role = FALSE /\ chunk.reasoning = <<>> /\ chunk.content = <<>> /\ chunk.pos = pos
      /\ chunk.call = call /\ chunk.args = args /\ chunk.finish = FALSE
  BY DEF Chunk
<1>2. /\ st \in ChatState /\ st.toolCallSlot[pos] = slot /\ st.callStarted = conv.callStarted /\ slot \in Nat
  BY SlottedTyped
<1>3. r.st = conv /\ r.chunk = chunk /\ p.st = st /\ p.chunk = chunk /\ p.out = <<>>
  BY DEF Point
<1>4. ChatContent(ChatTextAfterReasoning(ChatReasoning(ChatLateReasoning(ChatStart(r))))) = r
  <2> HIDE DEF r
  <2> QED
    BY <1>1, <1>3, PassesParts
<1>5. ChatSlot(r) = p
  <2>1. CASE pos \in DOMAIN conv.toolCallSlot
    <3>1. st = conv
      BY <2>1 DEF Slotted
    <3>2. r = p
      BY <3>1
    <3> HIDE DEF r, p
    <3> QED
      BY <1>1, <1>3, <2>1, <3>2, PassesCalls
  <2>2. CASE pos \notin DOMAIN conv.toolCallSlot
    <3> DEFINE next == IF conv.toolCallSlot = <<>> THEN conv.blockIndex + 1 ELSE conv.toolCallIdx
    <3>1. ChatSlot(r) = Then(r, chunk.call # "none" /\ chunk.pos \notin DOMAIN conv.toolCallSlot,
                             [conv EXCEPT !.toolCallSlot = With(@, chunk.pos, next), !.toolCallIdx = next + 1],
                             <<>>)
      <4> HIDE DEF r
      <4> QED
        BY <1>3 DEF ChatSlot
    <3>2. [conv EXCEPT !.toolCallSlot = With(@, chunk.pos, next), !.toolCallIdx = next + 1] = st
      BY <1>1, <2>2 DEF Slotted, NextSlot, ChatState
    <3>3. ChatSlot(r) = Then(r, TRUE, st, <<>>)
      <4> HIDE DEF next, st, r
      <4> QED
        BY <1>1, <2>2, <3>1, <3>2 DEF Then
    <3> HIDE DEF st
    <3>4. Then(Point(conv, <<>>, chunk), TRUE, st, <<>>) = Point(st, <<>> \o <<>>, chunk)
      BY DEF Then, Point
    <3>5. <<>> \o <<>> = <<>>
      OBVIOUS
    <3> QED
      BY <3>3, <3>4, <3>5
  <2> QED
    BY <2>1, <2>2
<1>6. ChatCallStart(p) = q
  <2>1. ChatCallStart(p) = Then(p, call = "named" /\ slot \notin st.callStarted, tt, <<s>>)
    <3> HIDE DEF p, st
    <3> QED
      BY <1>1, <1>2, <1>3, Zenon DEF ChatCallStart
  <2>2. s \in CoreEvent /\ <<>> \o <<s>> = <<s>>
    BY <1>2, EventsTyped, Puts
  <2> HIDE DEF st, s, tt
  <2>3. Then(Point(st, <<>>, chunk), TRUE, tt, <<s>>) = Point(tt, <<>> \o <<s>>, chunk)
    BY DEF Then, Point
  <2>4. starts => Then(p, call = "named" /\ slot \notin st.callStarted, tt, <<s>>) = Then(p, TRUE, tt, <<s>>)
    BY <1>2 DEF Then
  <2>5. ~ starts => Then(p, call = "named" /\ slot \notin st.callStarted, tt, <<s>>) = p
    BY <1>2 DEF Then
  <2> QED
    BY <2>1, <2>2, <2>3, <2>4, <2>5
<1> DEFINE nx == IF starts THEN tt ELSE st
           out == IF starts THEN <<s>> ELSE <<>>
           goes == starts \/ slot \in conv.callStarted
           last == Point(nx, IF goes THEN out \o <<e>> ELSE out, chunk)
<1>7. /\ nx.toolCallSlot[pos] = slot /\ nx.callStarted = IF starts THEN conv.callStarted \cup {slot}
                                                         ELSE conv.callStarted
  <2> HIDE DEF st, starts
  <2> QED
    BY <1>2 DEF ChatState
<1>8. q = Point(nx, out, chunk) /\ q.st = nx /\ q.chunk = chunk
  BY DEF Point
<1>9. ChatCallArgs(q) = last
  <2>1. ChatCallArgs(q) = Then(q, call # "none" /\ slot \in nx.callStarted /\ args # <<>>, nx, <<e>>)
    <3> HIDE DEF q, nx
    <3> QED
      <4>1. q.st.toolCallSlot[q.chunk.pos] = slot /\ q.chunk.call = call /\ q.chunk.args = args
        BY <1>1, <1>7, <1>8, Zenon
      <4> QED
        BY <1>8, <4>1, Zenon DEF ChatCallArgs
  <2>2. slot \in nx.callStarted <=> goes
    <3> HIDE DEF nx, starts
    <3> QED
      BY <1>7
  <2>3. q = Point(nx, out, chunk)
    BY <1>8
  <2> HIDE DEF nx, out, goes, e, q
  <2>4. goes => Then(q, call # "none" /\ slot \in nx.callStarted /\ args # <<>>, nx, <<e>>) = Point(nx, out \o <<e>>, chunk)
    BY <2>2, <2>3 DEF Then, Point
  <2>5. ~ goes => Then(q, call # "none" /\ slot \in nx.callStarted /\ args # <<>>, nx, <<e>>) = q
    BY <2>2 DEF Then
  <2> QED
    BY <2>1, <2>3, <2>4, <2>5
<1>10. last.st = nx /\ last.chunk = chunk /\ last.out = IF goes THEN out \o <<e>> ELSE out
  BY DEF Point
<1>11. ChatConvert(chunk) = last
  <2>1. ChatConvert(chunk) =
          ChatFinish(ChatCallArgs(ChatCallStart(ChatSlot(
            ChatContent(ChatTextAfterReasoning(ChatReasoning(ChatLateReasoning(ChatStart(r)))))))))
    BY Zenon DEF ChatConvert, Point
  <2> HIDE DEF r, q, p, last
  <2>2. ChatFinish(last) = last
    BY <1>1, <1>10, PassesCalls
  <2> QED
    BY <1>4, <1>5, <1>6, <1>9, <2>1, <2>2
<1>12. s \in CoreEvent /\ e \in CoreEvent /\ <<>> \o <<e>> = <<e>> /\ <<s>> \o <<e>> = <<s, e>>
  <2>1. s \in CoreEvent /\ e \in CoreEvent
    BY <1>2, EventsTyped
  <2> HIDE DEF s, e
  <2> QED
    BY <2>1, Puts
<1>13. CASE starts
  <2>1. ChatConvert(chunk).st = tt /\ ChatConvert(chunk).out = <<s>> \o <<e>>
    <3> HIDE DEF s, e, last, tt
    <3> QED
      BY <1>10, <1>11, <1>13
  <2> HIDE DEF s, e
  <2>2. ChatConvert(chunk).out = <<s, e>>
    BY <1>12, <2>1
  <2> QED
    BY <1>13, <2>1, <2>2, Zenon DEF CallConverts, s, e
<1>14. CASE ~ starts
  <2>1. ChatConvert(chunk).st = st /\ ChatConvert(chunk).out = IF slot \in conv.callStarted THEN <<>> \o <<e>> ELSE <<>>
    <3> HIDE DEF s, e, last, tt
    <3> QED
      BY <1>10, <1>11, <1>14
  <2> HIDE DEF s, e
  <2>2. ChatConvert(chunk).out = IF slot \in conv.callStarted THEN <<e>> ELSE <<>>
    BY <1>12, <2>1
  <2> QED
    BY <1>14, <2>1, <2>2, Zenon DEF CallConverts, s, e
<1> QED
  BY <1>13, <1>14

-----------------------------------------------------------------------------
(***************************************************************************)
(* Chat Completions: what the events of a chunk make fit.                  *)
(***************************************************************************)

LEMMA RoleEmits ==
  ASSUME NEW fits \in SUBSET Pairs, \A j \in Nat : Fresh(fits, j), NEW text \in Pieces, NEW queue,
         queue \in {<<BlockStarted(0, "text")>>, <<BlockStarted(0, "text"), Delta("text_delta", 0, text)>>,
                    <<BlockStarted(0, "reasoning"), Delta("text_delta", 0, text)>>}
  PROVE  Sound(fits, queue) /\ ChatDeeds(Comes(fits, queue), 0, {})
<1>1. Sound(fits, <<>>) /\ Comes(fits, <<>>) = fits /\ 0 \in Nat
  BY FirstEmitted
<1>2a. PICK kind \in {"text", "reasoning"} :
         LET start == <<BlockStarted(0, kind)>>
         IN /\ start = Append(<<>>, BlockStarted(0, kind))
            /\ queue = start \/ queue = Append(start, Delta("text_delta", 0, text))
  BY ShortQueues
<1>2b. PICK start : start = <<BlockStarted(0, kind)>>
  OBVIOUS
<1>2. /\ start = Append(<<>>, BlockStarted(0, kind))
      /\ queue = start \/ queue = Append(start, Delta("text_delta", 0, text))
  BY <1>2a, <1>2b
<1>3. <<"text", 0>> \in fits /\ <<"reasoning", 0>> \in fits
  BY <1>1 DEF Fresh
<1>4. /\ Sound(fits, start) /\ Elsewhere(fits, Comes(fits, start), 0)
      /\ <<"text_delta", 0>> \in Comes(fits, start) /\ <<"block_done", 0>> \in Comes(fits, start)
  <2>1. CASE kind = "text"
    BY <1>1, <1>2, <1>3, <2>1, EmitText
  <2>2. CASE kind = "reasoning"
    BY <1>1, <1>2, <1>3, <2>2, EmitReasoning
  <2> QED
    BY <2>1, <2>2
<1>5. queue = Append(start, Delta("text_delta", 0, text)) =>
        /\ Sound(fits, queue) /\ Elsewhere(Comes(fits, start), Comes(fits, queue), 0)
        /\ <<"text_delta", 0>> \in Comes(fits, queue) /\ <<"block_done", 0>> \in Comes(fits, queue)
  BY <1>1, <1>4, EmitTextDelta
<1>6. \A j \in Nat : j > 0 => j # 0
  OBVIOUS
<1>7. \A j \in Nat : j > 0 => Fresh(Comes(fits, queue), j)
  BY <1>2, <1>4, <1>5, <1>6, FreshElsewhere
<1>8. Sound(fits, queue) /\ <<"text_delta", 0>> \in Comes(fits, queue) /\ <<"block_done", 0>> \in Comes(fits, queue)
  BY <1>2, <1>4, <1>5
<1> QED
  BY <1>7, <1>8 DEF ChatDeeds, ChatBehind, Fresh

\* An event of block i leaves what fits behind another block.
LEMMA DeedsElsewhere ==
  ASSUME NEW b \in Nat, NEW started \in SUBSET Nat, NEW before, NEW after, NEW i \in Nat, NEW c \in Nat, i <= c, b <= c,
         Elsewhere(before, after, i), ChatBehind(before, b, started)
  PROVE  ChatBehind(after, c, started)
<1>1. "text" \in Deeds /\ "tool_use" \in Deeds /\ "args_done" \in Deeds
  BY DEF Deeds
<1>2. \A j \in Nat : j > c => j # i /\ j > b
  OBVIOUS
<1> QED
  BY <1>1, <1>2 DEF Elsewhere, ChatBehind

LEMMA TextSaid ==
  ASSUME NEW fits \in SUBSET Pairs, NEW b \in Nat, NEW started \in SUBSET Nat, ChatDeeds(fits, b, started),
         NEW text \in Pieces, NEW queue, queue = <<Delta("text_delta", b, text)>>
  PROVE  /\ Sound(fits, queue) /\ ChatDeeds(Comes(fits, queue), b, started)
         /\ ChatArgs(fits, started) => ChatArgs(Comes(fits, queue), started)
<1>1. Sound(fits, <<>>) /\ Comes(fits, <<>>) = fits
  BY FirstEmitted
<1>2. queue = Append(<<>>, Delta("text_delta", b, text)) /\ <<"text_delta", b>> \in fits
  BY ShortQueues DEF ChatDeeds
<1>3. /\ Sound(fits, queue) /\ Elsewhere(fits, Comes(fits, queue), b)
      /\ <<"text_delta", b>> \in Comes(fits, queue) /\ <<"block_done", b>> \in Comes(fits, queue)
      /\ <<"args_delta", b>> \in fits => <<"args_delta", b>> \in Comes(fits, queue)
  BY <1>1, <1>2, EmitTextDelta
<1>4. PICK after : after = Comes(fits, queue)
  OBVIOUS
<1>5. ChatDeeds(after, b, started)
  BY <1>3, <1>4, DeedsElsewhere DEF ChatDeeds
<1>6. ChatArgs(fits, started) => ChatArgs(after, started)
  <2>1. "args_delta" \in Deeds
    BY DEF Deeds
  <2> QED
    BY <1>3, <1>4, <2>1 DEF ChatArgs, Elsewhere
<1> QED
  BY <1>3, <1>4, <1>5, <1>6

LEMMA TextBegun ==
  ASSUME NEW fits \in SUBSET Pairs, NEW b \in Nat, NEW started \in SUBSET Nat, ChatDeeds(fits, b, started),
         NEW text \in Pieces, NEW i, i = b + 1,
         NEW queue, queue = <<BlockDone(b), BlockStarted(i, "text"), Delta("text_delta", i, text)>>
  PROVE  /\ Sound(fits, queue) /\ ChatDeeds(Comes(fits, queue), i, started)
         /\ b \notin started /\ ChatArgs(fits, started) => ChatArgs(Comes(fits, queue), started)
<1>1. Sound(fits, <<>>) /\ Comes(fits, <<>>) = fits /\ i \in Nat /\ i # b /\ i > b
  BY FirstEmitted
<1>2. PICK q, r : /\ q = Append(<<>>, BlockDone(b)) /\ r = Append(q, BlockStarted(i, "text"))
                  /\ queue = Append(r, Delta("text_delta", i, text))
  <2>1. PICK x, y, z : x = BlockDone(b) /\ y = BlockStarted(i, "text") /\ z = Delta("text_delta", i, text)
    OBVIOUS
  <2>2. <<x>> = Append(<<>>, x) /\ <<x, y>> = Append(<<x>>, y) /\ <<x, y, z>> = Append(<<x, y>>, z)
    BY ShortQueues
  <2>3. queue = <<x, y, z>>
    BY <2>1
  <2> QED
    BY <2>1, <2>2, <2>3
<1>3. <<"block_done", b>> \in fits /\ <<"text", i>> \in fits
  BY <1>1 DEF ChatDeeds, ChatBehind
<1>4. Sound(fits, q) /\ Elsewhere(fits, Comes(fits, q), b)
  BY <1>1, <1>2, <1>3, EmitDone
<1>5. <<"text", i>> \in Comes(fits, q)
  BY <1>1, <1>3, <1>4 DEF Elsewhere, Deeds
<1>6. /\ Sound(fits, r) /\ Elsewhere(Comes(fits, q), Comes(fits, r), i) /\ <<"text_delta", i>> \in Comes(fits, r)
      /\ <<"args_delta", i>> \in Comes(fits, q) => <<"args_delta", i>> \in Comes(fits, r)
  BY <1>1, <1>2, <1>4, <1>5, EmitText
<1>7. /\ Sound(fits, queue) /\ Elsewhere(Comes(fits, r), Comes(fits, queue), i)
      /\ <<"text_delta", i>> \in Comes(fits, queue) /\ <<"block_done", i>> \in Comes(fits, queue)
      /\ <<"args_delta", i>> \in Comes(fits, r) => <<"args_delta", i>> \in Comes(fits, queue)
  BY <1>1, <1>2, <1>6, EmitTextDelta
<1>8. PICK u, v, w : u = Comes(fits, q) /\ v = Comes(fits, r) /\ w = Comes(fits, queue)
  OBVIOUS
<1>9. ChatBehind(u, b, started)
  BY <1>4, <1>8, DeedsElsewhere DEF ChatDeeds
<1>10. ChatBehind(v, i, started)
  <2>1. i <= i /\ b <= i
    BY <1>1
  <2> QED
    BY <1>1, <1>6, <1>8, <1>9, <2>1, DeedsElsewhere
<1>11. ChatBehind(w, i, started)
  BY <1>1, <1>7, <1>8, <1>10, DeedsElsewhere
<1>12. ChatDeeds(w, i, started)
  BY <1>7, <1>8, <1>11 DEF ChatDeeds
<1>13. ASSUME b \notin started, ChatArgs(fits, started), NEW s \in started PROVE <<"args_delta", s>> \in w
  <2>1. "args_delta" \in Deeds /\ s # b /\ <<"args_delta", s>> \in fits /\ s \in Nat
    BY <1>13 DEF Deeds, ChatArgs
  <2>2. <<"args_delta", s>> \in u
    BY <1>4, <1>8, <2>1 DEF Elsewhere
  <2>3. <<"args_delta", s>> \in v
    BY <1>6, <1>8, <2>1, <2>2 DEF Elsewhere
  <2> QED
    BY <1>7, <1>8, <2>1, <2>3 DEF Elsewhere
<1> QED
  BY <1>7, <1>8, <1>12, <1>13 DEF ChatArgs

LEMMA ReasoningBegun ==
  ASSUME NEW fits \in SUBSET Pairs, NEW b \in Nat, NEW started \in SUBSET Nat, ChatDeeds(fits, b, started),
         NEW text \in Pieces, NEW i, i = b + 1, <<"block_done", i>> \in fits, <<"reasoning", i>> \in fits,
         NEW queue, queue = <<BlockDone(i), BlockStarted(i, "reasoning"), Delta("text_delta", i, text)>>
  PROVE  Sound(fits, queue) /\ ChatDeeds(Comes(fits, queue), i, started)
<1>1. Sound(fits, <<>>) /\ Comes(fits, <<>>) = fits /\ i \in Nat /\ i <= i /\ b <= i
  BY FirstEmitted
<1>2. PICK q, r : /\ q = Append(<<>>, BlockDone(i)) /\ r = Append(q, BlockStarted(i, "reasoning"))
                  /\ queue = Append(r, Delta("text_delta", i, text))
  <2>1. PICK x, y, z : x = BlockDone(i) /\ y = BlockStarted(i, "reasoning") /\ z = Delta("text_delta", i, text)
    OBVIOUS
  <2>2. <<x>> = Append(<<>>, x) /\ <<x, y>> = Append(<<x>>, y) /\ <<x, y, z>> = Append(<<x, y>>, z)
    BY ShortQueues
  <2>3. queue = <<x, y, z>>
    BY <2>1
  <2> QED
    BY <2>1, <2>2, <2>3
<1>4. Sound(fits, q) /\ Elsewhere(fits, Comes(fits, q), i) /\ <<"reasoning", i>> \in Comes(fits, q)
  BY <1>1, <1>2, EmitDone
<1>6. Sound(fits, r) /\ Elsewhere(Comes(fits, q), Comes(fits, r), i) /\ <<"text_delta", i>> \in Comes(fits, r)
  BY <1>1, <1>2, <1>4, EmitReasoning
<1>7. /\ Sound(fits, queue) /\ Elsewhere(Comes(fits, r), Comes(fits, queue), i)
      /\ <<"text_delta", i>> \in Comes(fits, queue) /\ <<"block_done", i>> \in Comes(fits, queue)
  BY <1>1, <1>2, <1>6, EmitTextDelta
<1>8. PICK u, v, w : u = Comes(fits, q) /\ v = Comes(fits, r) /\ w = Comes(fits, queue)
  OBVIOUS
<1>9. ChatBehind(u, i, started)
  BY <1>1, <1>4, <1>8, DeedsElsewhere DEF ChatDeeds
<1>10. ChatBehind(v, i, started)
  BY <1>1, <1>6, <1>8, <1>9, DeedsElsewhere
<1>11. ChatBehind(w, i, started)
  BY <1>1, <1>7, <1>8, <1>10, DeedsElsewhere
<1> QED
  BY <1>7, <1>8, <1>11 DEF ChatDeeds

LEMMA CallBegun ==
  ASSUME NEW fits \in SUBSET Pairs, NEW b \in Nat, NEW started \in SUBSET Nat, ChatDeeds(fits, b, started),
         NEW slot \in Nat, <<"tool_use", slot>> \in fits, NEW args \in Pieces,
         NEW queue, queue = <<BlockStarted(slot, "tool_use"), Delta("args_delta", slot, args)>>
  PROVE  /\ Sound(fits, queue) /\ ChatDeeds(Comes(fits, queue), b, started \cup {slot})
         /\ ChatArgs(fits, started) => ChatArgs(Comes(fits, queue), started \cup {slot})
<1>1. Sound(fits, <<>>) /\ Comes(fits, <<>>) = fits
  BY FirstEmitted
<1> DEFINE x == BlockStarted(slot, "tool_use")
           y == Delta("args_delta", slot, args)
<1>0. queue = <<x, y>>
  OBVIOUS
<1> HIDE DEF x, y
<1>2. PICK q : q = Append(<<>>, x) /\ queue = Append(q, y)
  <2>1. <<x>> = Append(<<>>, x) /\ <<x, y>> = Append(<<x>>, y)
    BY ShortQueues
  <2> QED
    BY <1>0, <2>1
<1> USE DEF x, y
<1>3. /\ Sound(fits, q) /\ Elsewhere(fits, Comes(fits, q), slot)
      /\ <<"args_delta", slot>> \in Comes(fits, q) /\ <<"args_done", slot>> \in Comes(fits, q)
      /\ <<"text", slot>> \in Comes(fits, q) /\ <<"block_done", slot>> \in Comes(fits, q)
      /\ <<"text_delta", slot>> \in Comes(fits, q)
  BY <1>1, <1>2, EmitTool
<1>4. Sound(fits, queue) /\ Comes(fits, q) \subseteq Comes(fits, queue)
  BY <1>2, <1>3, EmitArgs
<1>5. PICK after : after = Comes(fits, queue)
  OBVIOUS
<1>6. /\ Elsewhere(fits, after, slot)
      /\ <<"args_delta", slot>> \in after /\ <<"args_done", slot>> \in after /\ <<"text", slot>> \in after
      /\ <<"block_done", slot>> \in after /\ <<"text_delta", slot>> \in after
  BY <1>3, <1>4, <1>5 DEF Elsewhere
<1>7. {"text_delta", "block_done", "text", "tool_use", "args_done", "args_delta"} \subseteq Deeds
  BY DEF Deeds
<1>8. ChatDeeds(after, b, started \cup {slot})
  BY <1>6, <1>7 DEF ChatDeeds, ChatBehind, Elsewhere
<1>9. ChatArgs(fits, started) => ChatArgs(after, started \cup {slot})
  BY <1>6, <1>7 DEF ChatArgs, Elsewhere
<1> QED
  BY <1>4, <1>5, <1>8, <1>9

LEMMA ArgsSaid ==
  ASSUME NEW fits \in SUBSET Pairs, NEW slot \in Nat, <<"args_delta", slot>> \in fits, NEW args \in Pieces
  PROVE  LET queue == <<Delta("args_delta", slot, args)>>
         IN Sound(fits, queue) /\ fits \subseteq Comes(fits, queue)
<1>1. Sound(fits, <<>>) /\ Comes(fits, <<>>) = fits
  BY FirstEmitted
<1>2. PICK queue : queue = <<Delta("args_delta", slot, args)>>
  OBVIOUS
<1>3. queue = Append(<<>>, Delta("args_delta", slot, args))
  BY <1>2, ShortQueues
<1>4. Sound(fits, queue) /\ fits \subseteq Comes(fits, queue)
  BY <1>1, <1>3, EmitArgs
<1> QED
  BY <1>2, <1>4

-----------------------------------------------------------------------------
(***************************************************************************)
(* Chat Completions: the end of the current block and of the calls behind  *)
(* it.                                                                     *)
(***************************************************************************)

Ending(i) == <<Delta("args_done", i, <<>>), BlockDone(i)>>
Stops(b, count, started) == [n \in 1..count |-> IF b + n \in started THEN Ending(b + n) ELSE <<>>]

LEMMA TwoMore ==
  ASSUME NEW S, NEW s \in Seq(S), NEW x \in S, NEW y \in S
  PROVE  s \o <<x, y>> = Append(Append(s, x), y)
<1>1. <<x>> \in Seq(S) /\ <<y>> \in Seq(S) /\ Append(s, x) \in Seq(S)
  BY AppendProperties
<1>2. Append(s, x) = s \o <<x>> /\ Append(Append(s, x), y) = Append(s, x) \o <<y>>
  BY <1>1, AppendIsConcat
<1>3. <<x>> \o <<y>> = Append(<<x>>, y) /\ Append(<<x>>, y) = <<x, y>>
  BY <1>1, AppendIsConcat, ShortQueues
<1>4. (s \o <<x>>) \o <<y>> = s \o (<<x>> \o <<y>>)
  BY <1>1, ConcatAssociative
<1> QED
  BY <1>2, <1>3, <1>4

LEMMA EndingEmits ==
  ASSUME NEW fits, NEW queue, Sound(fits, queue), NEW i \in Nat, <<"args_done", i>> \in Comes(fits, queue),
         NEW longer, longer = queue \o Ending(i)
  PROVE  Sound(fits, longer) /\ Elsewhere(Comes(fits, queue), Comes(fits, longer), i)
<1> DEFINE x == Delta("args_done", i, <<>>)
           y == BlockDone(i)
<1>1. x \in CoreEvent /\ y \in CoreEvent /\ <<>> \in Pieces
  <2>1. <<>> \in Pieces
    BY DEF Pieces
  <2> QED
    BY <2>1, EventsTyped
<1>2. queue \in Seq(CoreEvent) /\ longer = queue \o <<x, y>>
  BY DEF Sound, Ending
<1> HIDE DEF x, y
<1>3. longer = Append(Append(queue, x), y)
  BY <1>1, <1>2, TwoMore
<1>4. PICK q : q = Append(queue, x)
  OBVIOUS
<1>5. q = Append(queue, Delta("args_done", i, <<>>)) /\ longer = Append(q, BlockDone(i))
  BY <1>3, <1>4 DEF x, y
<1>6. Sound(fits, q) /\ Elsewhere(Comes(fits, queue), Comes(fits, q), i) /\ <<"block_done", i>> \in Comes(fits, q)
  BY <1>1, <1>5, EmitArgsDone
<1>7. Sound(fits, longer) /\ Elsewhere(Comes(fits, q), Comes(fits, longer), i)
  BY <1>5, <1>6, EmitDone
<1> QED
  BY <1>6, <1>7 DEF Elsewhere

LEMMA StopsTyped ==
  ASSUME NEW b \in Nat, NEW count \in Nat, NEW started
  PROVE  /\ Stops(b, count, started) \in Seq(Seq(CoreEvent)) /\ Len(Stops(b, count, started)) = count
         /\ \A n \in 1..count : /\ b + n \in started => Stops(b, count, started)[n] = Ending(b + n)
                                /\ b + n \notin started => Stops(b, count, started)[n] = <<>>
<1>1. ASSUME NEW i \in Nat PROVE Ending(i) \in Seq(CoreEvent)
  <2>1. <<>> \in Pieces
    BY DEF Pieces
  <2>2. Delta("args_done", i, <<>>) \in CoreEvent /\ BlockDone(i) \in CoreEvent
    BY <2>1, EventsTyped
  <2> QED
    BY <2>2 DEF Ending
<1>2. <<>> \in Seq(CoreEvent) /\ \A n \in 1..count : b + n \in Nat
  OBVIOUS
<1>3. \A n \in 1..count : (IF b + n \in started THEN Ending(b + n) ELSE <<>>) \in Seq(CoreEvent)
  BY <1>1, <1>2
<1>4. Stops(b, count, started) \in [1..count -> Seq(CoreEvent)]
  BY <1>3 DEF Stops
<1>5. Stops(b, count, started) \in Seq(Seq(CoreEvent)) /\ Len(Stops(b, count, started)) = count
  BY <1>4
<1> QED
  BY <1>5 DEF Stops

LEMMA FinishEmits ==
  ASSUME NEW fits \in SUBSET Pairs, NEW b \in Nat, NEW started \in SUBSET Nat, ChatDeeds(fits, b, started),
         NEW count \in Nat, NEW queue, queue = <<BlockDone(b)>> \o Flat(Stops(b, count, started))
  PROVE  Sound(fits, queue)
<1> DEFINE seqs == Stops(b, count, started)
           first == <<BlockDone(b)>>
<1>1. /\ Len(seqs) = count /\ \A n \in 1..count : seqs[n] \in Seq(CoreEvent)
      /\ \A n \in 1..count : /\ b + n \in started => seqs[n] = Ending(b + n)
                             /\ b + n \notin started => seqs[n] = <<>>
  <2>1. seqs \in Seq(Seq(CoreEvent)) /\ Len(seqs) = count
    BY StopsTyped
  <2>2. \A n \in 1..count : /\ b + n \in started => seqs[n] = Ending(b + n)
                            /\ b + n \notin started => seqs[n] = <<>>
    BY StopsTyped
  <2> HIDE DEF seqs
  <2>3. \A n \in 1..count : seqs[n] \in Seq(CoreEvent)
    BY <2>1, ElementsOf
  <2> QED
    BY <2>1, <2>2, <2>3
<1>2. /\ Sound(fits, first) /\ first \in Seq(CoreEvent)
      /\ \A s \in started : s > b => <<"args_done", s>> \in Comes(fits, first)
  <2>1. Sound(fits, <<>>) /\ Comes(fits, <<>>) = fits /\ first = Append(<<>>, BlockDone(b)) /\ <<"block_done", b>> \in fits
    BY FirstEmitted, ShortQueues DEF ChatDeeds
  <2>2. Sound(fits, first) /\ Elsewhere(fits, Comes(fits, first), b)
    BY <2>1, EmitDone
  <2>3. PICK after : after = Comes(fits, first)
    OBVIOUS
  <2>4. ChatBehind(after, b, started)
    BY <2>2, <2>3, DeedsElsewhere DEF ChatDeeds
  <2> HIDE DEF first
  <2> QED
    BY <2>2, <2>3, <2>4 DEF ChatBehind, Sound
<1> HIDE DEF seqs, first
<1>3. PICK f : f[0] = <<>> /\ Flat(seqs) = f[count] /\ \A k \in 1..count : f[k] = f[k - 1] \o seqs[k]
  BY <1>1, FlatSteps
<1>4. \A k \in 0..count : f[k] \in Seq(CoreEvent)
  BY <1>1, <1>3, FlatTyped
<1> DEFINE q(k) == first \o f[k]
           T == {k \in 0..count : /\ Sound(fits, q(k))
                                  /\ \A s \in started : s > b + k => <<"args_done", s>> \in Comes(fits, q(k))}
<1>5. 0 \in T
  <2>1. q(0) = first
    BY <1>2, <1>3, ConcatEmptySeq
  <2>2. 0 \in 0..count /\ b + 0 = b
    OBVIOUS
  <2> HIDE DEF q
  <2> QED
    BY <1>2, <2>1, <2>2
<1>6. ASSUME NEW k \in 1..count, k - 1 \in T PROVE k \in T
  <2>1. PICK i \in Nat, j \in 0..count : i = b + k /\ j = k - 1
    OBVIOUS
  <2>2. /\ Sound(fits, q(j)) /\ k \in 0..count /\ b + j < i
        /\ \A s \in started : s > b + j => <<"args_done", s>> \in Comes(fits, q(j))
    <3>1. b + j < i /\ k \in 0..count
      BY <2>1
    <3> HIDE DEF q
    <3> QED
      BY <1>6, <2>1, <3>1
  <2>3. f[j] \in Seq(CoreEvent) /\ seqs[k] \in Seq(CoreEvent) /\ f[k] = f[j] \o seqs[k]
    BY <1>1, <1>3, <1>4, <2>1
  <2>4. q(k) = q(j) \o seqs[k] /\ q(j) \in Seq(CoreEvent)
    <3>1. (first \o f[j]) \o seqs[k] = first \o (f[j] \o seqs[k])
      <4>1. PICK x, y, z : x = first /\ y = f[j] /\ z = seqs[k]
        OBVIOUS
      <4>2. x \in Seq(CoreEvent) /\ y \in Seq(CoreEvent) /\ z \in Seq(CoreEvent)
        BY <1>2, <2>3, <4>1
      <4>3. (x \o y) \o z = x \o (y \o z)
        BY ONLY <4>2, ConcatAssociative
      <4> QED
        BY <4>1, <4>3
    <3>2. first \o f[j] \in Seq(CoreEvent)
      BY <1>2, <2>3, ConcatProperties
    <3> QED
      BY <2>3, <3>1, <3>2
  <2>5. /\ i \in started => seqs[k] = Ending(i)
        /\ i \notin started => seqs[k] = <<>>
    BY <1>1, <2>1
  <2>6. PICK old, new : old = q(j) /\ new = q(k)
    OBVIOUS
  <2> HIDE DEF q
  <2>7. /\ Sound(fits, new)
        /\ \A s \in started : s > i => <<"args_done", s>> \in Comes(fits, new)
    <3>0. \A s \in started : s > i => s > b + j /\ s # i /\ s \in Nat
      BY <2>2
    <3>1. CASE i \in started
      <4>1. new = old \o Ending(i) /\ Sound(fits, old)
        BY <2>2, <2>4, <2>5, <2>6, <3>1
      <4>2. <<"args_done", i>> \in Comes(fits, old)
        BY <2>2, <2>6, <3>1
      <4>3. Sound(fits, new) /\ Elsewhere(Comes(fits, old), Comes(fits, new), i)
        BY <4>1, <4>2, EndingEmits
      <4> QED
        BY <2>2, <2>6, <3>0, <4>3 DEF Elsewhere, Deeds
    <3>2. CASE i \notin started
      <4>1. new = old
        BY <2>4, <2>5, <2>6, <3>2, ConcatEmptySeq
      <4> QED
        BY <2>2, <2>6, <3>0, <4>1
    <3> QED
      BY <3>1, <3>2
  <2> QED
    BY <2>1, <2>2, <2>6, <2>7
<1> HIDE DEF T
<1>7. \A k \in 0..count : k \in T
  BY <1>5, <1>6, AllUpTo
<1>8. count \in 0..count
  OBVIOUS
<1>9. count \in T
  BY <1>7, <1>8
<1>10. Sound(fits, q(count))
  BY <1>9 DEF T
<1> QED
  BY <1>3, <1>10 DEF seqs, first

\* How many slots follow the current block.
CallsTo(st) == IF st.toolCallIdx > st.blockIndex + 1 THEN st.toolCallIdx - st.blockIndex - 1 ELSE 0

LEMMA ConvertsFinish ==
  ASSUME conv \in ChatState, conv.started,
         NEW chunk, chunk = Chunk(FALSE, <<>>, <<>>, 0, "none", <<>>, TRUE)
  PROVE  \E count \in Nat :
            /\ count = CallsTo(conv)
            /\ ChatConvert(chunk).st = conv
            /\ ChatConvert(chunk).out =
                 <<BlockDone(conv.blockIndex)>> \o Flat(Stops(conv.blockIndex, count, conv.callStarted))
<1> DEFINE r == Point(conv, <<>>, chunk)
           b == conv.blockIndex
           count == IF conv.toolCallIdx > b + 1 THEN conv.toolCallIdx - b - 1 ELSE 0
           events == <<BlockDone(b)>> \o Flat(Stops(b, count, conv.callStarted))
<1>1. /\ chunk.role = FALSE /\ chunk.reasoning = <<>> /\ chunk.content = <<>> /\ chunk.call = "none"
      /\ chunk.finish = TRUE
  BY DEF Chunk
<1>2. r.st = conv /\ r.chunk = chunk
  BY DEF Point
<1>3. b \in Nat /\ count \in Nat
  BY DEF ChatState
<1>4. ChatConvert(chunk) = ChatFinish(r)
  <2>1. ChatConvert(chunk) =
          ChatFinish(ChatCallArgs(ChatCallStart(ChatSlot(
            ChatContent(ChatTextAfterReasoning(ChatReasoning(ChatLateReasoning(ChatStart(r)))))))))
    BY Zenon DEF ChatConvert, Point
  <2> HIDE DEF r
  <2>2. ChatContent(ChatTextAfterReasoning(ChatReasoning(ChatLateReasoning(ChatStart(r))))) = r
    BY <1>1, <1>2, PassesParts
  <2>3. ChatCallArgs(ChatCallStart(ChatSlot(r))) = r
    BY <1>1, <1>2, PassesCalls
  <2> QED
    BY <2>1, <2>2, <2>3
<1>5. ChatFinish(r) = Then(r, TRUE, conv, events)
  <2> DEFINE after == [n \in 1..count |-> b + n]
             Closes(i) == IF i \in conv.callStarted THEN <<Delta("args_done", i, <<>>), BlockDone(i)>> ELSE <<>>
  <2>1. ChatFinish(r) = Then(r, TRUE, conv, <<BlockDone(b)>> \o Flat([n \in DOMAIN after |-> Closes(after[n])]))
    <3> HIDE DEF r
    <3> QED
      BY <1>1, <1>2 DEF ChatFinish
  <2>2. [n \in DOMAIN after |-> Closes(after[n])] = Stops(b, count, conv.callStarted)
    BY DEF Stops, Ending
  <2> QED
    BY <2>1, <2>2
<1>6. events \in Seq(CoreEvent) /\ <<>> \o events = events
  <2>1. Flat(Stops(b, count, conv.callStarted)) \in Seq(CoreEvent)
    BY <1>3, StopsTyped, FlatInSeq
  <2>2. BlockDone(b) \in CoreEvent
    BY <1>3, EventsTyped
  <2>3. <<BlockDone(b)>> \in Seq(CoreEvent)
    BY <2>2
  <2>4. events \in Seq(CoreEvent)
    BY <2>1, <2>3, ConcatProperties
  <2> HIDE DEF events
  <2> QED
    BY <2>4, ConcatEmptySeq
<1>7. Then(r, TRUE, conv, events).st = conv /\ Then(r, TRUE, conv, events).out = <<>> \o events
  BY DEF Then, Point
<1>8. count = CallsTo(conv)
  BY DEF CallsTo
<1> QED
  BY <1>3, <1>4, <1>5, <1>6, <1>7, <1>8

-----------------------------------------------------------------------------
(***************************************************************************)
(* The steps of a Chat Completions provider.                               *)
(***************************************************************************)

LEMMA ReceivesTo ==
  ASSUME provider \in Provider, NEW chunk, NEW kind, NEW pieces, NEW phase,
         ChatReceives(chunk, kind, pieces, phase)
  PROVE  /\ provider'.phase = phase /\ provider'.block = kind /\ protocol' = protocol
         /\ conv' = ChatConvert(chunk).st /\ core' = ChatConvert(chunk).out
         /\ provider' = [phase |-> phase, block |-> kind, index |-> provider.index,
                         chunks |-> provider.chunks + 1, pieces |-> provider.pieces + pieces]
<1>1. provider = [phase |-> provider.phase, block |-> provider.block, index |-> provider.index,
                  chunks |-> provider.chunks, pieces |-> provider.pieces]
  BY DEF Provider
<1>2. provider' = [phase |-> phase, block |-> kind, index |-> provider.index,
                   chunks |-> provider.chunks + 1, pieces |-> provider.pieces + pieces]
  BY <1>1, Zenon DEF ChatReceives
<1>3. protocol' = protocol /\ conv' = ChatConvert(chunk).st /\ core' = ChatConvert(chunk).out
  BY DEF ChatReceives, Quiet
<1> QED
  BY <1>2, <1>3

LEMMA GaveTo ==
  ASSUME GivenTyped, provider \in Provider, NEW field \in {"text", "reasoning"}, Gave(field)
  PROVE  GivenTyped' /\ given'.calls = given.calls
<1>1. Piece \in Pieces
  BY ProviderFields
<1>2. \A text \in Pieces : text \o Piece \in Pieces
  BY <1>1, ConcatProperties DEF Pieces
<1>3. given' = [given EXCEPT ![field] = @ \o Piece]
  BY DEF Gave
<1> QED
  BY <1>2, <1>3 DEF GivenTyped

LEMMA ChatNow ==
  ASSUME protocol = "chat", provider.phase = "open", ConvTyped, NEW fits, Can(fits)
  PROVE  /\ conv \in ChatState /\ ChatSlots /\ conv.started /\ (conv.hasReasoning => conv.reasonIndex = conv.blockIndex)
         /\ conv.blockIndex \in Nat /\ conv.callStarted \in SUBSET Nat /\ conv.reasonIndex \in Nat
         /\ conv.hasReasoning \in BOOLEAN
         /\ ChatDeeds(fits, conv.blockIndex, conv.callStarted)
         /\ NothingGoesAstray => ChatArgs(fits, conv.callStarted)
<1>1. conv \in ChatState
  BY DEF ConvTyped
<1>2. /\ conv.blockIndex \in Nat /\ conv.callStarted \in SUBSET Nat /\ conv.reasonIndex \in Nat
      /\ conv.hasReasoning \in BOOLEAN
  BY <1>1 DEF ChatState
<1> QED
  BY <1>1, <1>2 DEF Can, ChatCan

LEMMA ChatThen ==
  ASSUME protocol' = "chat", provider'.phase = "open", ChatSlots', conv'.started,
         conv'.hasReasoning => conv'.reasonIndex = conv'.blockIndex,
         NEW can, ChatDeeds(can, conv'.blockIndex, conv'.callStarted),
         NothingGoesAstray' => ChatArgs(can, conv'.callStarted)
  PROVE  Can(can)'
<1>1. ChatCan(can)'
  BY DEF ChatCan
<1> QED
  BY <1>1, CanOfChat

LEMMA RoleStepEmits ==
  ASSUME ChatRole, provider \in Provider, ConvTyped, GivenTyped, NEW fits \in SUBSET Pairs, Can(fits),
         NEW queue, core' = queue
  PROVE  Sound(fits, queue) /\ Can(Comes(fits, queue))'
<1>1. protocol = "chat" /\ conv = ChatConv /\ \A j \in Nat : Fresh(fits, j)
  BY DEF ChatRole, Ready, Can, StartCan
<1> DEFINE Role(reasoning, content) == Chunk(TRUE, reasoning, content, 0, "none", <<>>, FALSE)
           Sent(reasoning, content, kind, pieces) ==
             /\ reasoning = <<>> \/ content = <<>>
             /\ ChatReceives(Role(reasoning, content), kind, pieces, "open")
             /\ given'.calls = given.calls
             /\ reasoning # <<>> <=> kind = "thinking"
             /\ content # <<>> <=> kind = "text"
<1>1a. \E reasoning \in Pieces, content \in Pieces, kind \in {"none", "thinking", "text"}, pieces \in Nat :
        Sent(reasoning, content, kind, pieces)
  <2>1. Piece \in Pieces /\ Piece # <<>> /\ <<>> \in Pieces
    BY ProviderFields DEF Pieces
  <2>2. CASE ChatReceives(Role(<<>>, <<>>), "none", 0, "open") /\ UNCHANGED given
    <3>1. Sent(<<>>, <<>>, "none", 0)
      BY <2>2
    <3> HIDE DEF Sent
    <3> QED
      BY <2>1, <3>1
  <2>3. CASE ChatReceives(Role(Piece, <<>>), "thinking", 1, "open") /\ Gave("reasoning")
    <3>1. given'.calls = given.calls
      BY <2>3, GaveTo
    <3>2. Sent(Piece, <<>>, "thinking", 1)
      BY <2>1, <2>3, <3>1
    <3> HIDE DEF Sent
    <3> QED
      BY <2>1, <3>2
  <2>4. CASE ChatReceives(Role(<<>>, Piece), "text", 1, "open") /\ Gave("text")
    <3>1. given'.calls = given.calls
      BY <2>4, GaveTo
    <3>2. Sent(<<>>, Piece, "text", 1)
      BY <2>1, <2>4, <3>1
    <3> HIDE DEF Sent
    <3> QED
      BY <2>1, <3>2
  <2> QED
    BY <2>2, <2>3, <2>4 DEF ChatRole
<1>1b. PICK reasoning \in Pieces, content \in Pieces, kind \in {"none", "thinking", "text"}, pieces \in Nat :
        Sent(reasoning, content, kind, pieces)
  <2> HIDE DEF Sent
  <2> QED
    BY <1>1a
<1>1c. PICK chunk : chunk = Role(reasoning, content)
  OBVIOUS
<1>2. /\ chunk = Chunk(TRUE, reasoning, content, 0, "none", <<>>, FALSE)
      /\ reasoning = <<>> \/ content = <<>>
      /\ ChatReceives(chunk, kind, pieces, "open")
      /\ given'.calls = given.calls
      /\ reasoning # <<>> <=> kind = "thinking"
      /\ content # <<>> <=> kind = "text"
  BY <1>1b, <1>1c
<1> HIDE DEF Sent, Role
<1>3. /\ provider'.phase = "open" /\ provider'.block = kind /\ protocol' = "chat"
      /\ conv' = ChatConvert(chunk).st /\ core' = ChatConvert(chunk).out
  BY <1>1, <1>2, ReceivesTo
<1> DEFINE thinks == reasoning # <<>>
<1>4. /\ conv' = [ChatConv EXCEPT !.started = TRUE, !.hasReasoning = thinks, !.reasonIndex = 0]
      /\ thinks => core' = <<BlockStarted(0, "reasoning"), Delta("text_delta", 0, reasoning)>>
      /\ content # <<>> => core' = <<BlockStarted(0, "text"), Delta("text_delta", 0, content)>>
      /\ reasoning = <<>> /\ content = <<>> => core' = <<BlockStarted(0, "text")>>
  <2>1. RoleConverts(chunk, reasoning, content)
    BY <1>1, <1>2, ConvertsRole
  <2> QED
    BY <1>3, <2>1 DEF RoleConverts
<1>5. /\ conv'.started = TRUE /\ conv'.hasReasoning = thinks /\ conv'.reasonIndex = 0 /\ conv'.blockIndex = 0
      /\ conv'.callStarted = {} /\ conv'.toolCallSlot = <<>>
  BY <1>4 DEF ChatConv
<1>6. PICK text \in Pieces :
        queue \in {<<BlockStarted(0, "text")>>, <<BlockStarted(0, "text"), Delta("text_delta", 0, text)>>,
                   <<BlockStarted(0, "reasoning"), Delta("text_delta", 0, text)>>}
  BY <1>2, <1>4
<1>7. Sound(fits, queue) /\ ChatDeeds(Comes(fits, queue), 0, {})
  BY <1>1, <1>6, RoleEmits
<1>8. PICK can : can = Comes(fits, queue)
  OBVIOUS
<1>9. ChatSlots'
  <2>1. DOMAIN conv'.toolCallSlot = {}
    BY <1>5
  <2> QED
    BY <1>2, <1>3, <1>5, <2>1 DEF ChatSlots
<1>10. Can(can)'
  <2>1. ChatDeeds(can, conv'.blockIndex, conv'.callStarted) /\ ChatArgs(can, conv'.callStarted)
    BY <1>5, <1>7, <1>8 DEF ChatArgs
  <2> QED
    BY <1>3, <1>5, <1>9, <2>1, ChatThen
<1> QED
  BY <1>7, <1>8, <1>10

LEMMA ReasoningStepEmits ==
  ASSUME ChatReasoningChunk, provider \in Provider, ConvTyped, GivenTyped,
         NEW fits \in SUBSET Pairs, Can(fits), Grants(fits), NEW queue, core' = queue
  PROVE  Sound(fits, queue) /\ Can(Comes(fits, queue))'
<1>1. protocol = "chat" /\ provider.phase = "open" /\ <<>> \in Pieces
  BY DEF ChatReasoningChunk, Ready, Pieces
<1>2. PICK text, chunk :
        /\ text \in Pieces /\ text # <<>> /\ chunk = Chunk(FALSE, text, <<>>, 0, "none", <<>>, FALSE)
        /\ ChatReceives(chunk, "thinking", 1, "open")
  BY ProviderFields DEF ChatReasoningChunk
<1>3. /\ provider'.phase = "open" /\ provider'.block = "thinking" /\ protocol' = "chat"
      /\ conv' = ChatConvert(chunk).st /\ core' = ChatConvert(chunk).out
  BY <1>1, <1>2, ReceivesTo
<1>4. given'.calls = given.calls
  BY GaveTo DEF ChatReasoningChunk
<1>5. NothingGoesAstray' => NothingGoesAstray /\ provider.block \in {"none", "thinking"}
  BY DEF ChatReasoningChunk, ChatOrder, NothingGoesAstray
<1>6. /\ conv \in ChatState /\ ChatSlots /\ conv.started /\ (conv.hasReasoning => conv.reasonIndex = conv.blockIndex)
      /\ conv.blockIndex \in Nat /\ conv.callStarted \in SUBSET Nat /\ conv.hasReasoning \in BOOLEAN
      /\ ChatDeeds(fits, conv.blockIndex, conv.callStarted)
      /\ NothingGoesAstray => ChatArgs(fits, conv.callStarted)
  BY <1>1, ChatNow
<1>7. NothingGoesAstray' => DOMAIN conv.toolCallSlot = {} /\ conv.callStarted = {}
  BY <1>5, <1>6 DEF ChatSlots
<1>8. PICK can : can = Comes(fits, queue)
  OBVIOUS
<1>9. CASE conv.hasReasoning
  <2>1. conv' = conv /\ queue = <<Delta("text_delta", conv.blockIndex, text)>>
    <3>1. ChatConvert(chunk).st = conv /\ ChatConvert(chunk).out = <<Delta("text_delta", conv.reasonIndex, text)>>
      BY <1>2, <1>6, <1>9, ConvertsReasoning
    <3> QED
      BY <1>3, <1>6, <1>9, <3>1
  <2>2. /\ Sound(fits, queue) /\ ChatDeeds(can, conv.blockIndex, conv.callStarted)
    BY <1>2, <1>6, <1>8, <2>1, TextSaid
  <2>3. NothingGoesAstray' => ChatArgs(can, conv'.callStarted)
    BY <1>7, <2>1 DEF ChatArgs
  <2>4. ChatSlots'
    BY <1>3, <1>4, <1>5, <1>6, <1>7, <1>9, <2>1 DEF ChatSlots
  <2>5. Can(can)'
    BY <1>3, <1>6, <2>1, <2>2, <2>3, <2>4, ChatThen
  <2> QED
    BY <1>8, <2>2, <2>5
<1>10. CASE ~ conv.hasReasoning
  <2>0. PICK i \in Nat : i = conv.blockIndex + 1 /\ i > conv.blockIndex
    BY <1>6
  <2>1. /\ conv' = [conv EXCEPT !.hasReasoning = TRUE, !.reasonIndex = i, !.blockIndex = i]
        /\ queue = <<BlockDone(i), BlockStarted(i, "reasoning"), Delta("text_delta", i, text)>>
    BY <1>2, <1>3, <1>6, <1>10, <2>0, ConvertsReasoning
  <2>2. /\ conv'.started = conv.started /\ conv'.hasReasoning = TRUE /\ conv'.reasonIndex = i /\ conv'.blockIndex = i
        /\ conv'.callStarted = conv.callStarted /\ conv'.toolCallSlot = conv.toolCallSlot
        /\ conv'.toolCallIdx = conv.toolCallIdx
    BY <1>6, <2>1 DEF ChatState
  <2>3. <<"block_done", i>> \in fits /\ <<"reasoning", i>> \in fits
    <3>1. <<"text", i>> \in fits
      BY <1>6, <2>0 DEF ChatDeeds, ChatBehind
    <3> QED
      BY <3>1 DEF Grants
  <2>4. /\ Sound(fits, queue) /\ ChatDeeds(can, i, conv.callStarted)
    BY <1>2, <1>6, <1>8, <2>0, <2>1, <2>3, ReasoningBegun
  <2>5. NothingGoesAstray' => ChatArgs(can, conv'.callStarted)
    BY <1>7, <2>2 DEF ChatArgs
  <2>6. ChatSlots'
    BY <1>3, <1>4, <1>5, <1>6, <1>7, <2>2 DEF ChatSlots
  <2>7. Can(can)'
    BY <1>3, <1>6, <2>2, <2>4, <2>5, <2>6, ChatThen
  <2> QED
    BY <1>8, <2>4, <2>7
<1> QED
  BY <1>6, <1>9, <1>10

LEMMA TextStepEmits ==
  ASSUME ChatTextChunk, provider \in Provider, ConvTyped, GivenTyped,
         NEW fits \in SUBSET Pairs, Can(fits), Grants(fits), NEW queue, core' = queue
  PROVE  Sound(fits, queue) /\ Can(Comes(fits, queue))'
<1>1. protocol = "chat" /\ provider.phase = "open" /\ <<>> \in Pieces
  BY DEF ChatTextChunk, Ready, Pieces
<1>2. PICK text, chunk :
        /\ text \in Pieces /\ text # <<>> /\ chunk = Chunk(FALSE, <<>>, text, 0, "none", <<>>, FALSE)
        /\ ChatReceives(chunk, "text", 1, "open")
  BY ProviderFields DEF ChatTextChunk
<1>3. /\ provider'.phase = "open" /\ provider'.block = "text" /\ protocol' = "chat"
      /\ conv' = ChatConvert(chunk).st /\ core' = ChatConvert(chunk).out
  BY <1>1, <1>2, ReceivesTo
<1>4. given'.calls = given.calls
  BY GaveTo DEF ChatTextChunk
<1>5. NothingGoesAstray' => NothingGoesAstray
  BY DEF ChatTextChunk, ChatOrder, NothingGoesAstray
<1>6. /\ conv \in ChatState /\ ChatSlots /\ conv.started /\ (conv.hasReasoning => conv.reasonIndex = conv.blockIndex)
      /\ conv.blockIndex \in Nat /\ conv.callStarted \in SUBSET Nat /\ conv.hasReasoning \in BOOLEAN
      /\ ChatDeeds(fits, conv.blockIndex, conv.callStarted)
      /\ NothingGoesAstray => ChatArgs(fits, conv.callStarted)
  BY <1>1, ChatNow
<1>8. PICK can : can = Comes(fits, queue)
  OBVIOUS
<1>9. CASE ~ conv.hasReasoning
  <2>1. conv' = conv /\ queue = <<Delta("text_delta", conv.blockIndex, text)>>
    BY <1>2, <1>3, <1>6, <1>9, ConvertsText
  <2>2. /\ Sound(fits, queue) /\ ChatDeeds(can, conv.blockIndex, conv.callStarted)
        /\ ChatArgs(fits, conv.callStarted) => ChatArgs(can, conv.callStarted)
    BY <1>2, <1>6, <1>8, <2>1, TextSaid
  <2>4. ChatSlots'
    BY <1>3, <1>4, <1>5, <1>6, <1>9, <2>1 DEF ChatSlots
  <2>5. Can(can)'
    BY <1>3, <1>5, <1>6, <1>9, <2>1, <2>2, <2>4, ChatThen
  <2> QED
    BY <1>8, <2>2, <2>5
<1>10. CASE conv.hasReasoning
  <2>0. PICK b \in Nat, i \in Nat : b = conv.blockIndex /\ i = b + 1
    BY <1>6
  <2>1. /\ conv' = [conv EXCEPT !.hasReasoning = FALSE, !.blockIndex = i]
        /\ queue = <<BlockDone(b), BlockStarted(i, "text"), Delta("text_delta", i, text)>>
    <3>1. LET n == conv.reasonIndex + 1 IN
          /\ ChatConvert(chunk).st = [conv EXCEPT !.hasReasoning = FALSE, !.blockIndex = n]
          /\ ChatConvert(chunk).out = <<BlockDone(conv.reasonIndex), BlockStarted(n, "text"),
                                        Delta("text_delta", n, text)>>
      BY <1>2, <1>6, <1>10, ConvertsText
    <3>2. conv.reasonIndex = b /\ conv.reasonIndex + 1 = i
      BY <1>6, <1>10, <2>0
    <3> QED
      BY <1>3, <3>1, <3>2
  <2>2. /\ conv'.started = conv.started /\ conv'.hasReasoning = FALSE /\ conv'.blockIndex = i
        /\ conv'.callStarted = conv.callStarted /\ conv'.toolCallSlot = conv.toolCallSlot
        /\ conv'.toolCallIdx = conv.toolCallIdx
    BY <1>6, <2>1 DEF ChatState
  <2>3. /\ Sound(fits, queue) /\ ChatDeeds(can, i, conv.callStarted)
        /\ b \notin conv.callStarted /\ ChatArgs(fits, conv.callStarted) => ChatArgs(can, conv.callStarted)
    BY <1>2, <1>6, <1>8, <2>0, <2>1, TextBegun
  <2>4. \A p \in DOMAIN conv.toolCallSlot : conv.toolCallSlot[p] \in Nat /\ conv.toolCallIdx \in Nat
    <3>1. conv.toolCallSlot \in Partial(Nat) /\ conv.toolCallIdx \in Nat
      BY <1>6 DEF ChatState
    <3> QED
      BY <3>1, PartialAt
  <2>5. NothingGoesAstray => \A p \in DOMAIN conv.toolCallSlot : conv.toolCallSlot[p] > b /\ conv.toolCallIdx > i
    BY <1>6, <1>10, <2>0, <2>4 DEF ChatSlots
  <2>6. NothingGoesAstray' => ChatArgs(can, conv'.callStarted)
    <3>1. NothingGoesAstray => b \notin conv.callStarted
      <4>1. \A s \in conv.callStarted : \E p \in DOMAIN conv.toolCallSlot : conv.toolCallSlot[p] = s
        BY <1>6 DEF ChatSlots
      <4>2. ~ (b > b)
        OBVIOUS
      <4> QED
        BY <2>5, <4>1, <4>2
    <3> QED
      BY <1>5, <1>6, <2>2, <2>3, <3>1
  <2>7. ChatSlots'
    BY <1>3, <1>4, <1>5, <1>6, <2>2, <2>5 DEF ChatSlots
  <2>8. Can(can)'
    BY <1>3, <1>6, <2>2, <2>3, <2>6, <2>7, ChatThen
  <2> QED
    BY <1>8, <2>3, <2>8
<1> QED
  BY <1>6, <1>9, <1>10

\* The slot of a call is behind those of the calls before it, and behind a block of
\* reasoning.
LEMMA SlottedOrder ==
  ASSUME conv \in ChatState, ChatSlots, NEW pos \in Nat
  PROVE  LET st == Slotted(pos) IN
         /\ \A p \in DOMAIN st.toolCallSlot : st.toolCallSlot[p] < st.toolCallIdx
         /\ NothingGoesAstray =>
              /\ DOMAIN st.toolCallSlot # {} => st.toolCallIdx > conv.blockIndex
              /\ conv.hasReasoning => \A p \in DOMAIN st.toolCallSlot : st.toolCallSlot[p] > conv.blockIndex
              /\ pos \notin DOMAIN conv.toolCallSlot => SlotOf(pos) > conv.blockIndex
<1>0. PICK st, slots : st = Slotted(pos) /\ slots = conv.toolCallSlot
  OBVIOUS
<1>1. PICK b \in Nat, next \in Nat, idx \in Nat :
        /\ st = Slotted(pos) /\ slots = conv.toolCallSlot /\ b = conv.blockIndex
        /\ next = NextSlot /\ idx = conv.toolCallIdx
  <2>1. conv.blockIndex \in Nat /\ conv.toolCallIdx \in Nat
    BY DEF ChatState
  <2>2. NextSlot \in Nat
    BY <2>1 DEF NextSlot
  <2> QED
    BY <1>0, <2>1, <2>2
<1>2. /\ slots \in Partial(Nat) /\ DOMAIN st.toolCallSlot = DOMAIN slots \cup {pos}
      /\ st.toolCallSlot[pos] = SlotOf(pos)
      /\ \A p \in DOMAIN slots : st.toolCallSlot[p] = slots[p]
      /\ pos \notin DOMAIN slots => st.toolCallIdx = next + 1
      /\ pos \in DOMAIN slots => st.toolCallIdx = idx
  <2>1. slots \in Partial(Nat)
    BY <1>1 DEF ChatState
  <2> QED
    BY <1>1, <2>1, SlottedTyped
<1>3. /\ \A p \in DOMAIN slots : slots[p] \in Nat /\ slots[p] < idx
      /\ NothingGoesAstray =>
           /\ DOMAIN slots # {} => idx > b
           /\ conv.hasReasoning => \A p \in DOMAIN slots : slots[p] > b
  <2>1. \A p \in DOMAIN slots : slots[p] \in Nat
    BY <1>2, PartialAt
  <2> QED
    BY <1>1, <2>1 DEF ChatSlots
<1>4. DOMAIN slots = {} => slots = <<>>
  BY <1>2 DEF Partial
<1>5. /\ slots = <<>> => next = b + 1 /\ DOMAIN slots = {}
      /\ slots # <<>> => next = idx
  BY <1>1 DEF NextSlot
<1>6. CASE pos \in DOMAIN slots
  <2>1. DOMAIN st.toolCallSlot = DOMAIN slots
    BY <1>2, <1>6
  <2> QED
    BY <1>1, <1>2, <1>3, <1>6, <2>1
<1>7. CASE pos \notin DOMAIN slots
  <2>1. st.toolCallSlot[pos] = next /\ SlotOf(pos) = next /\ st.toolCallIdx = next + 1
    BY <1>1, <1>2, <1>7 DEF SlotOf
  <2>2. \A p \in DOMAIN slots : slots[p] < next
    BY <1>3, <1>5
  <2>3. NothingGoesAstray => next > b
    <3>1. CASE slots = <<>>
      <4>1. next = b + 1
        BY <1>5, <3>1
      <4>2. next > b
        BY <4>1
      <4> QED
        BY <4>2
    <3>2. CASE slots # <<>>
      <4>1. DOMAIN slots # {} /\ next = idx
        BY <1>4, <1>5, <3>2
      <4> QED
        BY <1>3, <4>1
    <3> QED
      BY <3>1, <3>2
  <2>4. next < next + 1 /\ \A k \in Nat : k < next => k < next + 1
    OBVIOUS
  <2>5. NothingGoesAstray => next + 1 > b
    BY <2>3
  <2>6. ASSUME NEW p \in DOMAIN st.toolCallSlot
        PROVE  /\ st.toolCallSlot[p] < next + 1
               /\ NothingGoesAstray /\ conv.hasReasoning => st.toolCallSlot[p] > b
    <3>1. CASE p = pos
      BY <2>1, <2>3, <2>4, <3>1
    <3>2. CASE p # pos
      BY <1>2, <1>3, <2>2, <2>4, <3>2
    <3> QED
      BY <3>1, <3>2
  <2> QED
    BY <1>1, <2>1, <2>3, <2>5, <2>6
<1> QED
  BY <1>6, <1>7

LEMMA CallStepEmits ==
  ASSUME ChatCallChunk, provider \in Provider, ConvTyped, GivenTyped,
         NEW fits \in SUBSET Pairs, Can(fits), Grants(fits), NEW queue, core' = queue
  PROVE  Sound(fits, queue) /\ Can(Comes(fits, queue))'
<1>1. protocol = "chat" /\ provider.phase = "open"
  BY DEF ChatCallChunk, Ready
<1>2. Piece \in Pieces /\ Piece # <<>> /\ given.calls \in Seq(Pieces) /\ Len(given.calls) \in Nat
  <2>1. given.calls \in Seq(Pieces)
    BY DEF GivenTyped
  <2> QED
    BY <2>1, ProviderFields
<1>3. PICK pos \in Nat, call \in {"named", "unnamed"} :
        /\ ChatReceives(Chunk(FALSE, <<>>, <<>>, pos, call, Piece, FALSE), "tool_use", 1, "open")
        /\ pos < Len(given'.calls) /\ Len(given.calls) <= Len(given'.calls) /\ Len(given'.calls) \in Nat
        /\ call = "named" => pos = Len(given.calls)
        /\ NothingGoesAstray' => NothingGoesAstray
  <2>1. ASSUME NEW call \in {"named", "unnamed"},
               ChatReceives(Chunk(FALSE, <<>>, <<>>, Len(given.calls), call, Piece, FALSE), "tool_use", 1, "open"),
               given' = [given EXCEPT !.calls = Append(@, Piece)],
               habits' = IF call = "unnamed" THEN habits \cup {"unnamed_call"} ELSE habits
        PROVE  /\ ChatReceives(Chunk(FALSE, <<>>, <<>>, Len(given.calls), call, Piece, FALSE), "tool_use", 1, "open")
               /\ Len(given.calls) < Len(given'.calls) /\ Len(given.calls) <= Len(given'.calls) /\ Len(given'.calls) \in Nat
               /\ NothingGoesAstray' => NothingGoesAstray
    <3>1. given'.calls = Append(given.calls, Piece)
      BY <2>1 DEF GivenTyped
    <3>2. Len(given'.calls) = Len(given.calls) + 1
      BY <1>2, <3>1, AppendProperties
    <3>3. NothingGoesAstray' => NothingGoesAstray
      BY <2>1 DEF NothingGoesAstray
    <3>4. Len(given.calls) < Len(given.calls) + 1 /\ Len(given.calls) + 1 \in Nat
      BY <1>2
    <3>5. /\ Len(given.calls) < Len(given'.calls) /\ Len(given.calls) <= Len(given'.calls)
          /\ Len(given'.calls) \in Nat
      BY <1>2, <3>2, <3>4
    <3> QED
      BY <2>1, <3>3, <3>5
  <2>2. ASSUME NEW n \in 1..Len(given.calls),
               ChatReceives(Chunk(FALSE, <<>>, <<>>, n - 1, "unnamed", Piece, FALSE), "tool_use", 1, "open"),
               GaveCall(n), UNCHANGED habits
        PROVE  /\ ChatReceives(Chunk(FALSE, <<>>, <<>>, n - 1, "unnamed", Piece, FALSE), "tool_use", 1, "open")
               /\ n - 1 < Len(given'.calls) /\ Len(given.calls) <= Len(given'.calls) /\ Len(given'.calls) \in Nat
               /\ n - 1 \in Nat
               /\ NothingGoesAstray' => NothingGoesAstray
    <3>1. given'.calls = [given.calls EXCEPT ![n] = @ \o Piece]
      BY <2>2 DEF GivenTyped, GaveCall
    <3>2. Len(given'.calls) = Len(given.calls)
      BY <1>2, <3>1
    <3>3. NothingGoesAstray' => NothingGoesAstray
      BY <2>2 DEF NothingGoesAstray
    <3>4. n - 1 < Len(given.calls) /\ n - 1 \in Nat
      BY <1>2
    <3>5. /\ n - 1 < Len(given'.calls) /\ Len(given.calls) <= Len(given'.calls)
          /\ Len(given'.calls) \in Nat
      BY <1>2, <3>2, <3>4
    <3> QED
      BY <2>2, <3>3, <3>4, <3>5
  <2>3. CASE \E call \in {"named", "unnamed"} :
               /\ Len(given.calls) < MaxBlocks
               /\ ChatReceives(Chunk(FALSE, <<>>, <<>>, Len(given.calls), call, Piece, FALSE), "tool_use", 1, "open")
               /\ given' = [given EXCEPT !.calls = Append(@, Piece)]
               /\ habits' = IF call = "unnamed" THEN habits \cup {"unnamed_call"} ELSE habits
    BY <1>2, <2>1, <2>3
  <2>4. CASE \E n \in 1..Len(given.calls) :
               /\ ChatReceives(Chunk(FALSE, <<>>, <<>>, n - 1, "unnamed", Piece, FALSE), "tool_use", 1, "open")
               /\ GaveCall(n)
               /\ UNCHANGED habits
    BY <1>2, <2>2, <2>4
  <2> QED
    BY <2>3, <2>4 DEF ChatCallChunk
<1>4. PICK chunk : chunk = Chunk(FALSE, <<>>, <<>>, pos, call, Piece, FALSE)
  OBVIOUS
<1>5. /\ provider'.phase = "open" /\ provider'.block = "tool_use" /\ protocol' = "chat"
      /\ conv' = ChatConvert(chunk).st /\ core' = ChatConvert(chunk).out
  <2>1. ChatReceives(chunk, "tool_use", 1, "open")
    BY <1>3, <1>4
  <2> QED
    BY <1>1, <2>1, ReceivesTo
<1>6. /\ conv \in ChatState /\ ChatSlots /\ conv.started /\ (conv.hasReasoning => conv.reasonIndex = conv.blockIndex)
      /\ conv.blockIndex \in Nat /\ conv.callStarted \in SUBSET Nat /\ conv.hasReasoning \in BOOLEAN
      /\ ChatDeeds(fits, conv.blockIndex, conv.callStarted)
      /\ NothingGoesAstray => ChatArgs(fits, conv.callStarted)
  BY <1>1, ChatNow
<1>7. PICK slot \in Nat, st \in ChatState :
        /\ slot = SlotOf(pos) /\ st = Slotted(pos)
        /\ st.toolCallSlot[pos] = slot /\ st.callStarted = conv.callStarted
        /\ st.blockIndex = conv.blockIndex /\ st.reasonIndex = conv.reasonIndex
        /\ st.hasReasoning = conv.hasReasoning /\ st.started = conv.started
        /\ DOMAIN st.toolCallSlot = DOMAIN conv.toolCallSlot \cup {pos}
        /\ \A p \in DOMAIN conv.toolCallSlot : st.toolCallSlot[p] = conv.toolCallSlot[p]
  BY <1>6, SlottedTyped
<1>8. /\ \A p \in DOMAIN st.toolCallSlot : st.toolCallSlot[p] < st.toolCallIdx
      /\ NothingGoesAstray =>
           /\ DOMAIN st.toolCallSlot # {} => st.toolCallIdx > conv.blockIndex
           /\ conv.hasReasoning => \A p \in DOMAIN st.toolCallSlot : st.toolCallSlot[p] > conv.blockIndex
           /\ pos \notin DOMAIN conv.toolCallSlot => slot > conv.blockIndex
  BY <1>6, <1>7, SlottedOrder
<1>9. /\ \A p \in DOMAIN st.toolCallSlot : p < Len(given'.calls)
      /\ \A s \in conv.callStarted \cup {slot} : \E p \in DOMAIN st.toolCallSlot : st.toolCallSlot[p] = s
      /\ call = "named" => pos \notin DOMAIN conv.toolCallSlot
  <2>1. \A p \in DOMAIN conv.toolCallSlot : p \in Nat /\ p < Len(given.calls)
    <3>1. conv.toolCallSlot \in Partial(Nat)
      BY <1>6 DEF ChatState
    <3> QED
      BY <1>6, <3>1 DEF ChatSlots, Partial
  <2>2. \A s \in conv.callStarted : \E p \in DOMAIN conv.toolCallSlot : conv.toolCallSlot[p] = s
    BY <1>6 DEF ChatSlots
  <2>3. \A p \in DOMAIN st.toolCallSlot : p < Len(given'.calls)
    BY <1>2, <1>3, <1>7, <2>1
  <2>4. \A s \in conv.callStarted \cup {slot} : \E p \in DOMAIN st.toolCallSlot : st.toolCallSlot[p] = s
    BY <1>7, <2>2
  <2>5. call = "named" => pos \notin DOMAIN conv.toolCallSlot
    BY <1>2, <1>3, <2>1
  <2> QED
    BY <2>3, <2>4, <2>5
<1>10. ASSUME NEW started, started \subseteq conv.callStarted \cup {slot},
              conv'.started = st.started /\ conv'.blockIndex = st.blockIndex /\ conv'.reasonIndex = st.reasonIndex,
              conv'.hasReasoning = st.hasReasoning /\ conv'.toolCallSlot = st.toolCallSlot,
              conv'.toolCallIdx = st.toolCallIdx /\ conv'.callStarted = started
       PROVE  ChatSlots'
  <2>1. provider'.block \notin {"none", "thinking"}
    BY <1>5
  <2> QED
    BY <1>3, <1>7, <1>8, <1>9, <1>10, <2>1 DEF ChatSlots
<1>11. PICK can : can = Comes(fits, queue)
  OBVIOUS
<1>12. CASE call = "named" /\ slot \notin conv.callStarted
  <2>1. /\ conv' = [st EXCEPT !.callStarted = @ \cup {slot}]
        /\ queue = <<BlockStarted(slot, "tool_use"), Delta("args_delta", slot, Piece)>>
    <3>1. CallConverts(chunk, pos, call, Piece, slot)
      BY <1>2, <1>4, <1>6, <1>7, ConvertsCall
    <3> QED
      BY <1>5, <1>7, <1>12, <3>1 DEF CallConverts
  <2>2. PICK started : started = conv.callStarted \cup {slot}
    OBVIOUS
  <2>3. /\ conv'.started = st.started /\ conv'.blockIndex = st.blockIndex /\ conv'.reasonIndex = st.reasonIndex
        /\ conv'.hasReasoning = st.hasReasoning /\ conv'.toolCallSlot = st.toolCallSlot
        /\ conv'.toolCallIdx = st.toolCallIdx /\ conv'.callStarted = started
    BY <1>7, <2>1, <2>2 DEF ChatState
  <2>4. ChatSlots'
    BY <1>10, <2>2, <2>3
  <2>5. <<"tool_use", slot>> \in fits
    <3>1. CASE NothingGoesAstray'
      BY <1>3, <1>6, <1>8, <1>9, <1>12, <3>1 DEF ChatDeeds, ChatBehind
    <3>2. CASE ~ NothingGoesAstray'
      BY <3>2 DEF Grants
    <3> QED
      BY <3>1, <3>2
  <2>6. /\ Sound(fits, queue) /\ ChatDeeds(can, conv.blockIndex, started)
        /\ ChatArgs(fits, conv.callStarted) => ChatArgs(can, started)
    BY <1>2, <1>6, <1>11, <2>1, <2>2, <2>5, CallBegun
  <2>7. Can(can)'
    BY <1>3, <1>5, <1>6, <1>7, <2>3, <2>4, <2>6, ChatThen
  <2> QED
    BY <1>11, <2>6, <2>7
<1>13. CASE ~ (call = "named" /\ slot \notin conv.callStarted)
  <2>1. /\ conv' = st
        /\ queue = IF slot \in conv.callStarted THEN <<Delta("args_delta", slot, Piece)>> ELSE <<>>
    <3>1. CallConverts(chunk, pos, call, Piece, slot)
      BY <1>2, <1>4, <1>6, <1>7, ConvertsCall
    <3> QED
      BY <1>5, <1>7, <1>13, <3>1 DEF CallConverts
  <2>2. ChatSlots'
    BY <1>7, <1>10, <2>1
  <2>3. Sound(fits, queue) /\ fits \subseteq can
    <3>1. CASE slot \in conv.callStarted
      <4>1. <<"args_delta", slot>> \in fits
        BY <1>3, <1>6, <3>1 DEF Grants, ChatArgs
      <4> QED
        BY <1>2, <1>11, <2>1, <3>1, <4>1, ArgsSaid
    <3>2. CASE slot \notin conv.callStarted
      BY <1>11, <2>1, <3>2, FirstEmitted
    <3> QED
      BY <3>1, <3>2
  <2>4. /\ ChatDeeds(can, conv.blockIndex, conv.callStarted)
        /\ NothingGoesAstray' => ChatArgs(can, conv.callStarted)
    BY <1>3, <1>6, <2>3 DEF ChatDeeds, ChatBehind, ChatArgs
  <2>5. Can(can)'
    BY <1>5, <1>6, <1>7, <2>1, <2>2, <2>4, ChatThen
  <2> QED
    BY <1>11, <2>3, <2>5
<1> QED
  BY <1>12, <1>13

LEMMA FinishStepEmits ==
  ASSUME ChatFinishChunk, provider \in Provider, ConvTyped, NEW fits \in SUBSET Pairs, Can(fits),
         NEW queue, core' = queue
  PROVE  Sound(fits, queue) /\ Can(Comes(fits, queue))'
<1>1. protocol = "chat" /\ provider.phase = "open"
  BY DEF ChatFinishChunk, Ready
<1>2. PICK chunk : /\ chunk = Chunk(FALSE, <<>>, <<>>, 0, "none", <<>>, TRUE)
                   /\ ChatReceives(chunk, provider.block, 0, "stopped")
  BY DEF ChatFinishChunk
<1>3. provider'.phase = "stopped" /\ protocol' = "chat" /\ core' = ChatConvert(chunk).out
  BY <1>1, <1>2, ReceivesTo
<1>4. /\ conv \in ChatState /\ conv.started /\ conv.blockIndex \in Nat /\ conv.callStarted \in SUBSET Nat
      /\ ChatDeeds(fits, conv.blockIndex, conv.callStarted)
  BY <1>1, ChatNow
<1>5. PICK count \in Nat :
        queue = <<BlockDone(conv.blockIndex)>> \o Flat(Stops(conv.blockIndex, count, conv.callStarted))
  BY <1>2, <1>3, <1>4, ConvertsFinish
<1>6. Sound(fits, queue)
  BY <1>4, <1>5, FinishEmits
<1>7. PICK can : can = Comes(fits, queue)
  OBVIOUS
<1>8. Can(can)'
  BY <1>3, CanAtRest
<1> QED
  BY <1>6, <1>7, <1>8

-----------------------------------------------------------------------------
(***************************************************************************)
(* The types of the provider's side.                                       *)
(***************************************************************************)

Phases == {"start", "open", "stopped", "closed", "broken"}

LEMMA SendsTyped ==
  ASSUME provider \in Provider, NEW phase \in Phases, NEW block \in BlockKinds \cup {"none"},
         NEW index \in Nat, NEW pieces \in Nat, Sends(phase, block, index, pieces)
  PROVE  provider' \in Provider
<1>1. provider' = [phase |-> phase, block |-> block, index |-> index,
                   chunks |-> provider.chunks + 1, pieces |-> provider.pieces + pieces]
  BY SendsTo
<1>2. provider.chunks + 1 \in Nat /\ provider.pieces + pieces \in Nat
  BY ProviderFields
<1> QED
  BY <1>1, <1>2 DEF Provider, Phases

LEMMA ReceivesTyped ==
  ASSUME provider \in Provider, NEW chunk, NEW kind \in BlockKinds \cup {"none"}, NEW pieces \in Nat,
         NEW phase \in Phases, ChatReceives(chunk, kind, pieces, phase)
  PROVE  provider' \in Provider
<1>1. provider' = [phase |-> phase, block |-> kind, index |-> provider.index,
                   chunks |-> provider.chunks + 1, pieces |-> provider.pieces + pieces]
  BY ReceivesTo
<1>2. provider.chunks + 1 \in Nat /\ provider.pieces + pieces \in Nat /\ provider.index \in Nat
  BY ProviderFields
<1> QED
  BY <1>1, <1>2 DEF Provider, Phases

LEMMA GaveCallTyped ==
  ASSUME GivenTyped, provider \in Provider, NEW n \in Nat, GaveCall(n)
  PROVE  GivenTyped'
<1>1. Piece \in Pieces
  BY ProviderFields
<1>2. \A text \in Pieces : text \o Piece \in Pieces
  BY <1>1, ConcatProperties DEF Pieces
<1>3. PICK calls : calls = given.calls /\ calls \in Seq(Pieces)
  BY DEF GivenTyped
<1>4. PICK longer : longer = [calls EXCEPT ![n] = @ \o Piece]
  OBVIOUS
<1>5. longer \in Seq(Pieces)
  <2>1. CASE n \in 1..Len(calls)
    <3>1. calls[n] \o Piece \in Pieces
      BY <1>2, <1>3, <2>1
    <3> QED
      BY <1>3, <1>4, <2>1, <3>1
  <2>2. CASE n \notin 1..Len(calls)
    <3>1. DOMAIN calls = 1..Len(calls)
      BY <1>3
    <3>2. longer = calls
      BY <1>3, <1>4, <2>2, <3>1
    <3> QED
      BY <1>3, <3>2
  <2> QED
    BY <2>1, <2>2
<1>6. given' = [given EXCEPT !.calls = longer]
  BY <1>3, <1>4 DEF GaveCall
<1> QED
  BY <1>5, <1>6 DEF GivenTyped

LEMMA GivenMore ==
  ASSUME GivenTyped, provider \in Provider
  PROVE  /\ given' = [given EXCEPT !.calls = Append(@, Piece)] => GivenTyped'
         /\ given' = [given EXCEPT !.calls = Append(@, <<>>)] => GivenTyped'
         /\ given' = [given EXCEPT !.signed = @ \cup {provider.index}] => GivenTyped'
         /\ given' = [given EXCEPT !.reasoning = @ \o Piece, !.signed = @ \cup {provider.index}] => GivenTyped'
         /\ given' = given => GivenTyped'
<1>1. Piece \in Pieces /\ <<>> \in Pieces /\ provider.index \in Nat
  BY ProviderFields DEF Pieces
<1>2. given.calls \in Seq(Pieces) /\ given.signed \in SUBSET Nat /\ given.reasoning \in Pieces
  BY DEF GivenTyped
<1>3. Append(given.calls, Piece) \in Seq(Pieces) /\ Append(given.calls, <<>>) \in Seq(Pieces)
  BY <1>1, <1>2, AppendProperties
<1>4. given.reasoning \o Piece \in Pieces /\ given.signed \cup {provider.index} \in SUBSET Nat
  BY <1>1, <1>2, ConcatProperties DEF Pieces
<1> QED
  BY <1>3, <1>4 DEF GivenTyped

LEMMA PlainTyped ==
  ASSUME ProviderTyped,
         MessageStart \/ MessageDelta \/ MessageStop \/ Breaks \/ ChannelClosed \/ WholeStart \/ WholeEnd
  PROVE  ProviderTyped'
<1>1. provider \in Provider /\ habits \subseteq Habits /\ ConvTyped /\ GivenTyped
  BY DEF ProviderTyped
<1>2. UNCHANGED <<protocol, conv, given, habits>>
  BY DEF MessageStart, MessageDelta, MessageStop, Breaks, ChannelClosed, WholeStart, WholeEnd, Quiet
<1>3. ConvTyped' /\ GivenTyped' /\ habits' \subseteq Habits
  BY <1>1, <1>2 DEF ConvTyped, GivenTyped
<1>4. provider' \in Provider
  <2>1. /\ provider.index \in Nat /\ 0 \in Nat /\ provider.block \in BlockKinds \cup {"none"}
        /\ "none" \in BlockKinds \cup {"none"} /\ {"open", "stopped", "closed", "broken"} \subseteq Phases
    BY <1>1, ProviderFields DEF Phases
  <2>2. CASE ChannelClosed
    <3>1. PICK phase \in {"closed", "broken"} : provider' = [provider EXCEPT !.phase = phase]
      BY <2>2 DEF ChannelClosed
    <3> QED
      BY <1>1, <3>1 DEF Provider
  <2>3. CASE ~ ChannelClosed
    <3>1. \E phase \in Phases, block \in BlockKinds \cup {"none"}, index \in Nat : Sends(phase, block, index, 0)
      BY <2>1, <2>3 DEF MessageStart, MessageDelta, MessageStop, Breaks, WholeStart, WholeEnd
    <3> QED
      BY <1>1, <2>1, <3>1, SendsTyped
  <2> QED
    BY <2>2, <2>3
<1> QED
  BY <1>3, <1>4 DEF ProviderTyped

LEMMA BlockStartTyped == ASSUME ProviderTyped, ContentBlockStart PROVE ProviderTyped'
<1>1. provider \in Provider /\ habits \subseteq Habits /\ ConvTyped /\ GivenTyped /\ provider.index \in Nat /\ 0 \in Nat
  BY ProviderFields DEF ProviderTyped
<1>2. PICK kind \in BlockKinds :
        /\ Sends("open", kind, provider.index, 0)
        /\ conv' = [conv EXCEPT !.blockTypes = With(@, provider.index, kind)]
        /\ given' = IF kind = "tool_use" THEN [given EXCEPT !.calls = Append(@, <<>>)] ELSE given
  BY DEF ContentBlockStart
<1>3. protocol = "anthropic" /\ protocol' = "anthropic" /\ habits' = habits
  BY DEF ContentBlockStart, Ready, Quiet
<1>4. GivenTyped'
  BY <1>1, <1>2, GivenMore
<1>5. provider' \in Provider
  BY <1>1, <1>2, SendsTyped DEF Phases
<1>6. ConvTyped'
  <2>1. conv \in [blockTypes : Partial(BlockKinds), suppressText : SUBSET Nat, blockSignatures : SUBSET Nat]
    BY <1>1, <1>3 DEF ConvTyped
  <2>2. conv.blockTypes \in Partial(BlockKinds)
    BY <2>1
  <2>3. PICK types \in Partial(BlockKinds) : types = With(conv.blockTypes, provider.index, kind)
    BY <1>1, <2>2, PartialWith
  <2>4. conv' = [conv EXCEPT !.blockTypes = types]
    BY <1>2, <2>3
  <2> QED
    BY <1>3, <2>1, <2>3, <2>4 DEF ConvTyped
<1> QED
  BY <1>1, <1>3, <1>4, <1>5, <1>6 DEF ProviderTyped

LEMMA BlockDeltaTyped == ASSUME ProviderTyped, ContentBlockDelta PROVE ProviderTyped'
<1>1. /\ provider \in Provider /\ habits \subseteq Habits /\ ConvTyped /\ GivenTyped
      /\ provider.index \in Nat /\ provider.block \in BlockKinds \cup {"none"} /\ 1 \in Nat
  BY ProviderFields DEF ProviderTyped
<1>2. Sends("open", provider.block, provider.index, 1) /\ protocol = "anthropic" /\ protocol' = "anthropic"
  BY DEF ContentBlockDelta, Ready, Quiet
<1>3. provider' \in Provider
  BY <1>1, <1>2, SendsTyped DEF Phases
<1>4. /\ \/ conv' = conv
         \/ conv' = [conv EXCEPT !.suppressText = @ \cup {provider.index}]
         \/ conv' = [conv EXCEPT !.blockSignatures = @ \cup {provider.index}]
      /\ \/ Gave("text") \/ Gave("reasoning") \/ GaveCall(Len(given.calls)) \/ given' = given
         \/ given' = [given EXCEPT !.signed = @ \cup {provider.index}]
      /\ habits' \in {habits, habits \cup {"status_in_text"}, habits \cup {"server_input"}}
  <2>1. PICK type \in DeltaTypes(provider.block) :
          /\ conv' = CASE type = "status" -> [conv EXCEPT !.suppressText = @ \cup {provider.index}]
                       [] type = "signature_delta" /\ conv.blockTypes[provider.index] # "thinking"
                            -> [conv EXCEPT !.blockSignatures = @ \cup {provider.index}]
                       [] OTHER -> conv
          /\ CASE type = "text_delta" -> Gave("text")
               [] type = "thinking_delta" -> Gave("reasoning")
               [] type = "input_json_delta" /\ conv.blockTypes[provider.index] = "tool_use" -> GaveCall(Len(given.calls))
               [] type = "signature_delta" -> given' = [given EXCEPT !.signed = @ \cup {provider.index}]
               [] OTHER -> UNCHANGED given
          /\ habits' = IF \/ type = "status" /\ (provider.index \in DOMAIN contentText /\ contentText[provider.index] # <<>>)
                          \/ type = "text_delta" /\ provider.index \in conv.suppressText
                       THEN habits \cup {"status_in_text"}
                       ELSE IF conv.blockTypes[provider.index] = "server_tool_use" THEN habits \cup {"server_input"} ELSE habits
    BY Zenon DEF ContentBlockDelta
  <2> QED
    BY <2>1
<1>5. ConvTyped'
  <2>1. conv \in [blockTypes : Partial(BlockKinds), suppressText : SUBSET Nat, blockSignatures : SUBSET Nat]
    BY <1>1, <1>2 DEF ConvTyped
  <2> QED
    BY <1>1, <1>2, <1>4, <2>1 DEF ConvTyped
<1>6. GivenTyped'
  <2>1. Len(given.calls) \in Nat
    BY <1>1 DEF GivenTyped
  <2> QED
    BY <1>1, <1>4, <2>1, GaveTo, GaveCallTyped, GivenMore
<1>7. habits' \subseteq Habits
  BY <1>1, <1>4 DEF Habits
<1> QED
  BY <1>3, <1>5, <1>6, <1>7 DEF ProviderTyped

LEMMA BlockStopTyped == ASSUME ProviderTyped, ContentBlockStop PROVE ProviderTyped'
<1>1. provider \in Provider /\ habits \subseteq Habits /\ ConvTyped /\ GivenTyped /\ provider.index \in Nat /\ 0 \in Nat
  BY ProviderFields DEF ProviderTyped
<1>2. /\ Sends("open", "none", provider.index + 1, 0) /\ protocol = "anthropic" /\ protocol' = "anthropic"
      /\ habits' = habits /\ given' = given
      /\ conv' = conv \/ conv' = [conv EXCEPT !.suppressText = @ \ {provider.index}]
  BY DEF ContentBlockStop, Ready, Quiet
<1>3. provider' \in Provider
  <2>1. PICK index \in Nat : index = provider.index + 1
    BY <1>1
  <2> QED
    BY <1>1, <1>2, <2>1, SendsTyped DEF Phases
<1>4. ConvTyped'
  <2>1. conv \in [blockTypes : Partial(BlockKinds), suppressText : SUBSET Nat, blockSignatures : SUBSET Nat]
    BY <1>1, <1>2 DEF ConvTyped
  <2> QED
    BY <1>2, <2>1 DEF ConvTyped
<1>5. GivenTyped'
  BY <1>1, <1>2, GivenMore
<1> QED
  BY <1>1, <1>2, <1>3, <1>4, <1>5 DEF ProviderTyped

LEMMA GoogleTyped == ASSUME ProviderTyped, GoogleChunk PROVE ProviderTyped'
<1>1. provider \in Provider /\ habits \subseteq Habits /\ ConvTyped /\ GivenTyped /\ 0 \in Nat /\ 1 \in Nat
  BY DEF ProviderTyped
<1>2. protocol = "google" /\ protocol' = "google"
  BY DEF GoogleChunk, Ready, Quiet
<1>3. PICK grows \in BOOLEAN, finish \in BOOLEAN :
        LET current == given.text \o (IF grows THEN Piece ELSE <<>>)
        IN /\ conv' = [started |-> TRUE, prevText |-> current]
           /\ given' = [given EXCEPT !.text = current]
           /\ Sends(IF finish THEN "stopped" ELSE "open", "text", 0, IF grows THEN 1 ELSE 0)
           /\ habits' = IF ~grows /\ current # <<>> THEN habits \cup {"same_snapshot"} ELSE habits
  BY DEF GoogleChunk
<1>4. PICK current \in Pieces : current = given.text \o (IF grows THEN Piece ELSE <<>>)
  <2>1. given.text \in Pieces /\ (IF grows THEN Piece ELSE <<>>) \in Pieces
    BY <1>1, ProviderFields DEF GivenTyped, Pieces
  <2> QED
    BY <2>1, ConcatProperties DEF Pieces
<1>5. provider' \in Provider
  <2>1. PICK phase \in Phases, pieces \in Nat : Sends(phase, "text", 0, pieces)
    BY <1>3 DEF Phases
  <2> QED
    BY <1>1, <2>1, SendsTyped DEF BlockKinds
<1>6. conv' = [started |-> TRUE, prevText |-> current] /\ given' = [given EXCEPT !.text = current]
      /\ habits' \in {habits, habits \cup {"same_snapshot"}}
  BY <1>3, <1>4
<1>7. ConvTyped' /\ GivenTyped' /\ habits' \subseteq Habits
  <2>1. ConvTyped'
    BY <1>2, <1>4, <1>6 DEF ConvTyped
  <2>2. GivenTyped'
    BY <1>1, <1>4, <1>6 DEF GivenTyped
  <2> QED
    BY <1>1, <1>6, <2>1, <2>2 DEF Habits
<1> QED
  BY <1>5, <1>7 DEF ProviderTyped

LEMMA WholeTyped == ASSUME ProviderTyped, WholeNextBlock PROVE ProviderTyped'
<1>1. /\ provider \in Provider /\ habits \subseteq Habits /\ ConvTyped /\ GivenTyped
      /\ provider.index \in Nat /\ provider.index + 1 \in Nat /\ 1 \in Nat
  BY ProviderFields DEF ProviderTyped
<1>2. protocol' = protocol /\ conv' = conv /\ protocol \in Whole
  BY DEF WholeNextBlock, ReadyWhole, Quiet
<1>3. PICK kind \in {"reasoning", "tool_use", "text", "empty"} :
        /\ IF protocol = "image" /\ kind = "tool_use"
           THEN /\ habits' = habits \cup {"call_with_image"}
                /\ Sends("open", "none", provider.index, 1)
           ELSE /\ UNCHANGED habits
                /\ Sends("open", "none", provider.index + 1, 1)
        /\ CASE kind = "tool_use" -> given' = [given EXCEPT !.calls = Append(@, Piece)]
             [] kind = "text" -> Gave("text")
             [] kind = "reasoning" -> given' = [given EXCEPT !.reasoning = @ \o Piece,
                                                             !.signed = @ \cup {provider.index}]
             [] OTHER -> UNCHANGED given
  BY DEF WholeNextBlock
<1>4. habits' \subseteq Habits /\ \E index \in Nat : Sends("open", "none", index, 1)
  BY <1>1, <1>3 DEF Habits
<1>5. provider' \in Provider
  BY <1>1, <1>4, SendsTyped DEF Phases
<1>6. \/ Gave("text") \/ given' = given
      \/ given' = [given EXCEPT !.calls = Append(@, Piece)]
      \/ given' = [given EXCEPT !.reasoning = @ \o Piece, !.signed = @ \cup {provider.index}]
  BY <1>3
<1>7. GivenTyped'
  BY <1>1, <1>6, GaveTo, GivenMore
<1>8. ConvTyped'
  BY <1>1, <1>2 DEF ConvTyped
<1> QED
  BY <1>4, <1>5, <1>7, <1>8 DEF ProviderTyped

\* A step of a Chat Completions provider by the chunk it sends.
LEMMA ChatStepTyped ==
  ASSUME ProviderTyped, protocol = "chat", NEW chunk, NEW kind \in BlockKinds \cup {"none"}, NEW pieces \in Nat,
         NEW phase \in Phases, ChatReceives(chunk, kind, pieces, phase), ChatConvert(chunk).st \in ChatState,
         GivenTyped', habits' \subseteq Habits
  PROVE  ProviderTyped'
<1>1. provider \in Provider
  BY DEF ProviderTyped
<1>2. provider' \in Provider
  BY <1>1, ReceivesTyped
<1>3. ConvTyped'
  BY <1>1, ReceivesTo DEF ConvTyped
<1> QED
  BY <1>2, <1>3 DEF ProviderTyped

LEMMA RoleStepTyped == ASSUME ProviderTyped, ChatRole, NEW fits, Can(fits) PROVE ProviderTyped'
<1>1. /\ provider \in Provider /\ habits' \subseteq Habits /\ ConvTyped /\ GivenTyped /\ protocol = "chat"
      /\ conv = ChatConv /\ 0 \in Nat /\ 1 \in Nat
  BY DEF ProviderTyped, ChatRole, Ready, Can, StartCan
<1>2. Piece \in Pieces /\ Piece # <<>> /\ <<>> \in Pieces
  BY <1>1, ProviderFields DEF Pieces
<1>3. ASSUME NEW reasoning \in Pieces, NEW content \in Pieces, reasoning = <<>> \/ content = <<>>,
             NEW chunk, chunk = Chunk(TRUE, reasoning, content, 0, "none", <<>>, FALSE)
      PROVE  ChatConvert(chunk).st \in ChatState
  <2>1. RoleConverts(chunk, reasoning, content)
    BY <1>1, <1>3, ConvertsRole
  <2>2. PICK thinks \in BOOLEAN : thinks = (reasoning # <<>>)
    OBVIOUS
  <2>3. ChatConvert(chunk).st = [ChatConv EXCEPT !.started = TRUE, !.hasReasoning = thinks, !.reasonIndex = 0]
    BY <2>1, <2>2 DEF RoleConverts
  <2>4. ChatConv \in ChatState
    <3>1. <<>> \in [{} -> Nat] /\ {} \in SUBSET Nat
      OBVIOUS
    <3>2. <<>> \in Partial(Nat)
      BY <3>1 DEF Partial
    <3> QED
      BY <3>2 DEF ChatConv, ChatState
  <2>5. ChatConvert(chunk).st =
          [started |-> TRUE, blockIndex |-> 0, hasReasoning |-> thinks, reasonIndex |-> 0,
           toolCallIdx |-> 0, callStarted |-> {}, toolCallSlot |-> <<>>]
    BY <2>3 DEF ChatConv
  <2>6. <<>> \in Partial(Nat)
    BY <2>4 DEF ChatConv, ChatState
  <2> QED
    BY <2>5, <2>6 DEF ChatState
<1> DEFINE Role(reasoning, content) == Chunk(TRUE, reasoning, content, 0, "none", <<>>, FALSE)
<1>4. \E reasoning \in Pieces, content \in Pieces, kind \in {"none", "thinking", "text"}, pieces \in Nat :
        /\ reasoning = <<>> \/ content = <<>>
        /\ ChatReceives(Role(reasoning, content), kind, pieces, "open")
        /\ Gave("text") \/ Gave("reasoning") \/ given' = given
  <2>1. \/ ChatReceives(Role(<<>>, <<>>), "none", 0, "open") /\ given' = given
        \/ ChatReceives(Role(Piece, <<>>), "thinking", 1, "open") /\ Gave("reasoning")
        \/ ChatReceives(Role(<<>>, Piece), "text", 1, "open") /\ Gave("text")
    BY DEF ChatRole
  <2> HIDE DEF Role
  <2> QED
    BY <1>1, <1>2, <2>1
<1>4a. PICK reasoning \in Pieces, content \in Pieces, kind \in {"none", "thinking", "text"}, pieces \in Nat :
        /\ reasoning = <<>> \/ content = <<>>
        /\ ChatReceives(Role(reasoning, content), kind, pieces, "open")
        /\ Gave("text") \/ Gave("reasoning") \/ given' = given
  <2> HIDE DEF Role
  <2> QED
    BY <1>4
<1>4b. PICK chunk : chunk = Role(reasoning, content)
  OBVIOUS
<1>4c. ChatConvert(chunk).st \in ChatState
  BY <1>3, <1>4a, <1>4b
<1>5. GivenTyped'
  BY <1>1, <1>4a, GaveTo, GivenMore
<1> HIDE DEF Role
<1> QED
  BY <1>1, <1>4a, <1>4b, <1>4c, <1>5, ChatStepTyped DEF Phases, BlockKinds

LEMMA ReasoningStepTyped == ASSUME ProviderTyped, ChatReasoningChunk, NEW fits, Can(fits) PROVE ProviderTyped'
<1>1. /\ provider \in Provider /\ habits \subseteq Habits /\ ConvTyped /\ GivenTyped
      /\ protocol = "chat" /\ provider.phase = "open" /\ 1 \in Nat
  BY DEF ProviderTyped, ChatReasoningChunk, Ready
<1>2. PICK text, chunk :
        /\ text \in Pieces /\ text # <<>> /\ chunk = Chunk(FALSE, text, <<>>, 0, "none", <<>>, FALSE)
        /\ ChatReceives(chunk, "thinking", 1, "open")
  BY <1>1, ProviderFields DEF ChatReasoningChunk
<1>3. conv \in ChatState /\ conv.started /\ conv.blockIndex \in Nat /\ conv.hasReasoning \in BOOLEAN
  BY <1>1, ChatNow
<1>4. ChatConvert(chunk).st \in ChatState
  <2>1. CASE conv.hasReasoning
    <3>1. ChatConvert(chunk).st = conv
      BY <1>2, <1>3, <2>1, ConvertsReasoning
    <3> QED
      BY <1>3, <3>1
  <2>2. CASE ~ conv.hasReasoning
    <3>1. PICK i \in Nat : i = conv.blockIndex + 1
      BY <1>3
    <3>2. ChatConvert(chunk).st = [conv EXCEPT !.hasReasoning = TRUE, !.reasonIndex = i, !.blockIndex = i]
      BY <1>2, <1>3, <2>2, <3>1, ConvertsReasoning
    <3> QED
      BY <1>3, <3>2 DEF ChatState
  <2> QED
    BY <1>3, <2>1, <2>2
<1>5. GivenTyped' /\ habits' \subseteq Habits
  BY <1>1, GaveTo DEF ChatReasoningChunk, ChatOrder, Habits
<1> QED
  BY <1>1, <1>2, <1>4, <1>5, ChatStepTyped DEF Phases, BlockKinds

LEMMA TextStepTyped == ASSUME ProviderTyped, ChatTextChunk, NEW fits, Can(fits) PROVE ProviderTyped'
<1>1. /\ provider \in Provider /\ habits \subseteq Habits /\ ConvTyped /\ GivenTyped
      /\ protocol = "chat" /\ provider.phase = "open" /\ 1 \in Nat
  BY DEF ProviderTyped, ChatTextChunk, Ready
<1>2. PICK text, chunk :
        /\ text \in Pieces /\ text # <<>> /\ chunk = Chunk(FALSE, <<>>, text, 0, "none", <<>>, FALSE)
        /\ ChatReceives(chunk, "text", 1, "open")
  BY <1>1, ProviderFields DEF ChatTextChunk
<1>3. conv \in ChatState /\ conv.started /\ conv.reasonIndex \in Nat /\ conv.hasReasoning \in BOOLEAN
  BY <1>1, ChatNow
<1>4. ChatConvert(chunk).st \in ChatState
  <2>1. CASE ~ conv.hasReasoning
    <3>1. ChatConvert(chunk).st = conv
      BY <1>2, <1>3, <2>1, ConvertsText
    <3> QED
      BY <1>3, <3>1
  <2>2. CASE conv.hasReasoning
    <3>1. PICK i \in Nat : i = conv.reasonIndex + 1
      BY <1>3
    <3>2. ChatConvert(chunk).st = [conv EXCEPT !.hasReasoning = FALSE, !.blockIndex = i]
      BY <1>2, <1>3, <2>2, <3>1, ConvertsText
    <3> QED
      BY <1>3, <3>2 DEF ChatState
  <2> QED
    BY <1>3, <2>1, <2>2
<1>5. GivenTyped' /\ habits' \subseteq Habits
  BY <1>1, GaveTo DEF ChatTextChunk, ChatOrder, Habits
<1> QED
  BY <1>1, <1>2, <1>4, <1>5, ChatStepTyped DEF Phases, BlockKinds

LEMMA CallStepTyped == ASSUME ProviderTyped, ChatCallChunk, NEW fits, Can(fits) PROVE ProviderTyped'
<1>1. /\ provider \in Provider /\ habits \subseteq Habits /\ ConvTyped /\ GivenTyped
      /\ protocol = "chat" /\ provider.phase = "open" /\ 1 \in Nat
  BY DEF ProviderTyped, ChatCallChunk, Ready
<1>2. Piece \in Pieces /\ Piece # <<>> /\ Len(given.calls) \in Nat
  BY <1>1, ProviderFields DEF GivenTyped
<1>3. conv \in ChatState /\ conv.started
  BY <1>1, ChatNow
<1>4. PICK pos, call, chunk :
        /\ pos \in Nat /\ call \in {"named", "unnamed"}
        /\ chunk = Chunk(FALSE, <<>>, <<>>, pos, call, Piece, FALSE)
        /\ ChatReceives(chunk, "tool_use", 1, "open")
        /\ given' = [given EXCEPT !.calls = Append(@, Piece)] \/ \E n \in Nat : GaveCall(n)
        /\ habits' \subseteq Habits
  <2> DEFINE Called(pos, call) == Chunk(FALSE, <<>>, <<>>, pos, call, Piece, FALSE)
             Gives == given' = [given EXCEPT !.calls = Append(@, Piece)] \/ \E n \in Nat : GaveCall(n)
  <2>1. CASE \E call \in {"named", "unnamed"} :
               /\ Len(given.calls) < MaxBlocks
               /\ ChatReceives(Called(Len(given.calls), call), "tool_use", 1, "open")
               /\ given' = [given EXCEPT !.calls = Append(@, Piece)]
               /\ habits' = IF call = "unnamed" THEN habits \cup {"unnamed_call"} ELSE habits
    <3>1. PICK call \in {"named", "unnamed"} :
            /\ ChatReceives(Called(Len(given.calls), call), "tool_use", 1, "open")
            /\ given' = [given EXCEPT !.calls = Append(@, Piece)]
            /\ habits' \in {habits, habits \cup {"unnamed_call"}}
      BY <2>1
    <3>2. Gives /\ habits' \subseteq Habits
      BY <1>1, <3>1 DEF Habits
    <3>3. PICK chunk : chunk = Called(Len(given.calls), call) /\ ChatReceives(chunk, "tool_use", 1, "open")
      BY <3>1
    <3> QED
      BY <1>2, <3>2, <3>3
  <2>2. CASE \E n \in 1..Len(given.calls) :
               /\ ChatReceives(Called(n - 1, "unnamed"), "tool_use", 1, "open")
               /\ GaveCall(n)
               /\ UNCHANGED habits
    <3>1. PICK n \in 1..Len(given.calls) :
            /\ ChatReceives(Called(n - 1, "unnamed"), "tool_use", 1, "open")
            /\ GaveCall(n)
            /\ UNCHANGED habits
      BY <2>2
    <3>2. n \in Nat /\ n - 1 \in Nat
      BY <1>2
    <3>3. Gives /\ habits' \subseteq Habits
      BY <1>1, <3>1, <3>2
    <3>4. PICK chunk : chunk = Called(n - 1, "unnamed") /\ ChatReceives(chunk, "tool_use", 1, "open")
      BY <3>1
    <3> QED
      BY <3>2, <3>3, <3>4
  <2> QED
    BY <2>1, <2>2 DEF ChatCallChunk
<1>5. ChatConvert(chunk).st \in ChatState
  <2>1. PICK slot \in Nat, st \in ChatState : slot = SlotOf(pos) /\ st = Slotted(pos)
    BY <1>3, <1>4, SlottedTyped
  <2>2. CallConverts(chunk, pos, call, Piece, slot)
    BY <1>2, <1>3, <1>4, <2>1, ConvertsCall
  <2>3. ChatConvert(chunk).st \in {st, [st EXCEPT !.callStarted = @ \cup {slot}]}
    BY <2>1, <2>2 DEF CallConverts
  <2> QED
    BY <2>1, <2>3 DEF ChatState
<1>6. GivenTyped'
  BY <1>1, <1>4, GaveCallTyped, GivenMore
<1> QED
  BY <1>1, <1>4, <1>5, <1>6, ChatStepTyped DEF Phases, BlockKinds

LEMMA FinishStepTyped == ASSUME ProviderTyped, ChatFinishChunk, NEW fits, Can(fits) PROVE ProviderTyped'
<1>1. /\ provider \in Provider /\ habits \subseteq Habits /\ ConvTyped /\ GivenTyped
      /\ protocol = "chat" /\ provider.phase = "open" /\ 0 \in Nat /\ provider.block \in BlockKinds \cup {"none"}
  BY ProviderFields DEF ProviderTyped, ChatFinishChunk, Ready
<1>2. PICK chunk : /\ chunk = Chunk(FALSE, <<>>, <<>>, 0, "none", <<>>, TRUE)
                   /\ ChatReceives(chunk, provider.block, 0, "stopped")
  BY DEF ChatFinishChunk
<1>3. conv \in ChatState /\ conv.started
  BY <1>1, ChatNow
<1>4. ChatConvert(chunk).st \in ChatState
  BY <1>2, <1>3, ConvertsFinish
<1>5. GivenTyped' /\ habits' \subseteq Habits
  BY <1>1, GivenMore DEF ChatFinishChunk
<1> QED
  BY <1>1, <1>2, <1>4, <1>5, ChatStepTyped DEF Phases

-----------------------------------------------------------------------------
(***************************************************************************)
(* The invariant.                                                          *)
(***************************************************************************)

Inv ==
    /\ LoopTyped /\ AllFit(core) /\ Struct /\ Texts /\ Ends
    /\ ProviderTyped
    /\ Can(Expected)

LEMMA ProviderTypedOn == ASSUME ProviderTyped, NEW fits, Can(fits), Provide PROVE ProviderTyped'
<1>1. CASE MessageStart \/ MessageDelta \/ MessageStop \/ Breaks \/ ChannelClosed \/ WholeStart \/ WholeEnd
  BY <1>1, PlainTyped
<1>2. CASE ContentBlockStart \/ ContentBlockDelta \/ ContentBlockStop
  BY <1>2, BlockStartTyped, BlockDeltaTyped, BlockStopTyped
<1>3. CASE ChatRole \/ ChatReasoningChunk \/ ChatTextChunk \/ ChatCallChunk \/ ChatFinishChunk
  BY <1>3, RoleStepTyped, ReasoningStepTyped, TextStepTyped, CallStepTyped, FinishStepTyped
<1>4. CASE GoogleChunk \/ WholeNextBlock
  BY <1>4, GoogleTyped, WholeTyped
<1> QED
  BY <1>1, <1>2, <1>3, <1>4 DEF Provide

LEMMA Emits ==
  ASSUME Provide, ProviderTyped, NEW fits \in SUBSET Pairs, Can(fits), Grants(fits), NEW queue, core' = queue
  PROVE  Sound(fits, queue) /\ Can(Comes(fits, queue))'
<1>0. provider \in Provider /\ ConvTyped /\ GivenTyped
  BY DEF ProviderTyped
<1>1. CASE MessageStart \/ MessageDelta \/ MessageStop \/ Breaks \/ ChannelClosed \/ WholeStart \/ WholeEnd
  BY <1>0, <1>1, PlainEmits
<1>2. CASE ContentBlockStart
  BY <1>0, <1>2, BlockStartEmits
<1>3. CASE ContentBlockDelta
  BY <1>0, <1>3, BlockDeltaEmits
<1>4. CASE ContentBlockStop
  BY <1>0, <1>4, BlockStopEmits
<1>5. CASE ChatRole
  BY <1>0, <1>5, RoleStepEmits
<1>6. CASE ChatReasoningChunk
  BY <1>0, <1>6, ReasoningStepEmits
<1>7. CASE ChatTextChunk
  BY <1>0, <1>7, TextStepEmits
<1>8. CASE ChatCallChunk
  BY <1>0, <1>8, CallStepEmits
<1>9. CASE ChatFinishChunk
  BY <1>0, <1>9, FinishStepEmits
<1>10. CASE GoogleChunk
  BY <1>0, <1>10, GoogleChunkEmits
<1>11. CASE WholeNextBlock
  BY <1>0, <1>11, WholeNextEmits
<1> QED
  BY <1>1, <1>2, <1>3, <1>4, <1>5, <1>6, <1>7, <1>8, <1>9, <1>10, <1>11 DEF Provide

LEMMA ProvideKeeps == ASSUME Inv, Provide PROVE Inv'
<1>1. PICK fits, queue : fits = Fitting' /\ queue = core'
  OBVIOUS
<1>2. PICK expected : expected = Expected /\ Can(expected)
  BY DEF Inv
<1>3. fits \in SUBSET Pairs /\ expected \subseteq fits /\ Grants(fits)
  BY <1>1, <1>2, FitsBefore
<1>4. Can(fits)
  BY <1>2, <1>3, CanMore
<1>5. PICK can : can = Comes(fits, queue)
  OBVIOUS
<1>6. Sound(fits, queue) /\ Can(can)'
  <2>1. Sound(fits, queue) /\ Can(Comes(fits, queue))'
    BY <1>1, <1>3, <1>4, Emits DEF Inv
  <2> QED
    BY <1>5, <2>1
<1>7. AllFit(core)' /\ can \subseteq Expected'
  BY <1>1, <1>5, <1>6, Linked
<1>8. PICK expected1 : expected1 = Expected'
  OBVIOUS
<1>9. Can(expected1)'
  <2>1. can \subseteq expected1
    BY <1>7, <1>8
  <2> QED
    BY <1>6, <2>1, CanMoreNext
<1>10. core' \in Seq(CoreEvent)
  BY <1>1, <1>6 DEF Sound
<1>11. LoopTyped' /\ Struct' /\ Texts' /\ Ends'
  BY <1>10, LoopLeftAlone DEF Inv
<1>12. ProviderTyped'
  BY <1>2, ProviderTypedOn DEF Inv
<1> QED
  BY <1>7, <1>8, <1>9, <1>11, <1>12 DEF Inv

LEMMA TranslateKeeps == ASSUME Inv, Translate, UNCHANGED providerVars PROVE Inv'
<1>1. LoopTyped' /\ core # <<>> /\ core' = Tail(core)
  BY LoopTypedOn DEF Inv
<1>2. UNCHANGED <<protocol, provider, conv, given, habits>> /\ (NothingGoesAstray' <=> NothingGoesAstray)
  BY DEF providerVars, NothingGoesAstray
<1>3. FitsOn
  BY <1>2, FitsKept DEF Inv
<1>4. AllFit(core)'
  BY <1>1, <1>3, AllFitOn DEF Inv
<1>5. Struct' /\ Texts'
  BY StructOn, TextsOn DEF Inv
<1>6. Ends'
  <2>1. CASE NothingGoesAstray
    BY <2>1, EndsOn DEF Inv
  <2>2. CASE ~ NothingGoesAstray
    BY <1>2, <2>2 DEF Ends
  <2> QED
    BY <2>1, <2>2
<1>7. ProviderTyped'
  BY <1>2 DEF Inv, ProviderTyped, ConvTyped, GivenTyped
<1>8. Can(Expected)'
  <2>1. PICK less, more : less = Expected /\ more = Expected'
    OBVIOUS
  <2>2. less \subseteq more
    BY <2>1, ExpectedOn DEF Inv
  <2>3. Can(more)
    BY <2>1, <2>2, CanMore DEF Inv
  <2>4. Can(more)'
    BY <1>2, <2>3 DEF Can, StartCan, AnthropicCan, GoogleCan, WholeCan, ChatCan, ChatSlots, NothingGoesAstray
  <2> QED
    BY <2>1, <2>4
<1> QED
  BY <1>1, <1>4, <1>5, <1>6, <1>7, <1>8 DEF Inv

LEMMA StutterKeeps == ASSUME Inv, UNCHANGED vars PROVE Inv'
<1>1. /\ core' = core /\ output' = output /\ sent' = sent /\ contentText' = contentText
      /\ toolCallArgs' = toolCallArgs /\ outputIndexes' = outputIndexes /\ reasonIndexes' = reasonIndexes
      /\ toolCallFinalized' = toolCallFinalized
  BY DEF vars, responseVars, maps
<1>2. UNCHANGED <<protocol, provider, conv, given, habits>> /\ (NothingGoesAstray' <=> NothingGoesAstray)
  BY DEF vars, providerVars, NothingGoesAstray
<1>3. \A deed, i : Fits(deed, i)' <=> Fits(deed, i)
  BY <1>1, <1>2 DEF Fits, IsMessage, Has, Live, Speaks, Idle
<1>4. \A n, deed, i : Allowed(core, n, deed, i)' <=> Allowed(core, n, deed, i)
  BY <1>1, <1>3 DEF Allowed
<1>5. AllFit(core)'
  BY <1>1, <1>4 DEF Inv, AllFit
<1>6. LoopTyped' /\ Struct'
  BY <1>1 DEF Inv, LoopTyped, Struct, IsMessage, Has
<1>7. Texts'
  BY <1>1 DEF Inv, Texts, OpenText, DoneText, IsMessage, Has
<1>8. Ends'
  BY <1>1, <1>2 DEF Inv, Ends, Open, Silent, Speaks, IsMessage, Has, Earlier
<1>9. ProviderTyped'
  BY <1>2 DEF Inv, ProviderTyped, ConvTyped, GivenTyped
<1>10. Can(Expected)'
  <2>1. Expected' = Expected
    BY <1>1, <1>4 DEF Expected, Expect
  <2>2. PICK expected : expected = Expected
    OBVIOUS
  <2>3. Can(expected)'
    BY <1>2, <2>2 DEF Inv, Can, StartCan, AnthropicCan, GoogleCan, WholeCan, ChatCan, ChatSlots,
         NothingGoesAstray
  <2> QED
    BY <2>1, <2>2, <2>3
<1> QED
  BY <1>5, <1>6, <1>7, <1>8, <1>9, <1>10 DEF Inv

LEMMA Begins == ASSUME Init PROVE Inv
<1>1. /\ core = <<>> /\ output = <<>> /\ sent = <<>>
      /\ contentText = <<>> /\ toolCallArgs = <<>> /\ outputIndexes = <<>>
      /\ reasonIndexes = {} /\ toolCallFinalized = {} /\ habits = {}
  BY DEF Init, InitResponse
<1>2. Len(core) = 0 /\ Len(output) = 0 /\ Len(sent) = 0 /\ 1..0 = {} /\ 0..(0 - 1) = {}
  BY <1>1
<1>3. /\ \A S : <<>> \in Seq(S) /\ <<>> \in Partial(S)
      /\ DOMAIN outputIndexes = {} /\ DOMAIN contentText = {}
  <2>1. DOMAIN outputIndexes = {} /\ DOMAIN contentText = {}
    BY <1>1
  <2>2. ASSUME NEW S PROVE <<>> \in Seq(S) /\ <<>> \in Partial(S)
    <3>1. <<>> \in Seq(S)
      OBVIOUS
    <3>2. <<>> \in [1..0 -> S]
      OBVIOUS
    <3>3. 1..0 \in SUBSET Nat
      OBVIOUS
    <3> QED
      BY <3>1, <3>2, <3>3 DEF Partial
  <2> QED
    BY <2>1, <2>2
<1>4. LoopTyped
  BY <1>1, <1>3 DEF LoopTyped
<1>5. AllFit(core)
  BY <1>2 DEF AllFit
<1>6. Struct /\ Texts /\ Ends
  BY <1>1, <1>2, <1>3 DEF Struct, Texts, Ends, SentIn
<1>7. /\ provider = [phase |-> "start", block |-> "none", index |-> 0, chunks |-> 0, pieces |-> 0]
      /\ provider \in Provider
  BY DEF Init, Provider
<1>8. ConvTyped
  BY <1>3 DEF Init, ConvTyped, AnthropicConv, ChatConv, GoogleConv, ChatState, Pieces
<1>9. ProviderTyped
  BY <1>1, <1>3, <1>7, <1>8 DEF Init, ProviderTyped, GivenTyped, Pieces
<1>10. \A j \in Nat : Fresh(Expected, j)
  <2> SUFFICES ASSUME NEW j \in Nat, NEW deed \in {"text", "tool_use", "reasoning", "block_done"}
               PROVE  <<deed, j>> \in Expected
    BY DEF Fresh
  <2>1. Fits(deed, j)
    BY <1>1, <1>3 DEF Fits, IsMessage, Has, Live, Speaks, Idle
  <2> QED
    BY <1>2, <2>1 DEF Expected, Expect, Allowed, Pairs, Deeds
<1>11. Can(Expected)
  <2>1. StartCan(Expected)
    BY <1>7, <1>10 DEF Init, StartCan, GoogleConv
  <2> QED
    BY <1>7, <2>1 DEF Can, AnthropicCan, GoogleCan, WholeCan, ChatCan
<1> QED
  BY <1>4, <1>5, <1>6, <1>9, <1>11 DEF Inv

\* Of every stream: the blocks of the loop and the items of the answer fit each other,
\* every event an adapter has emitted will find its block in a state that it fits, and
\* what the adapter may emit next fits too.
THEOREM InvHolds == Spec => []Inv
<1>1. Init => Inv
  BY Begins
<1>2. Inv /\ [Next]_vars => Inv'
  BY ProvideKeeps, TranslateKeeps, StutterKeeps DEF Next
<1> QED
  BY <1>1, <1>2, PTL DEF Spec

\* The types of TypeOK, and that every output index of a block names an item.
THEOREM Typed == Spec => []TypeOK
<1>1. Inv => TypeOK
  <2> SUFFICES ASSUME Inv PROVE TypeOK
    OBVIOUS
  <2>1. \A f \in {contentText, toolCallArgs} : \A i \in DOMAIN f : f[i] \in Pieces
    BY PartialAt DEF Inv, LoopTyped
  <2> QED
    BY <2>1 DEF Inv, LoopTyped, ProviderTyped, TypeOK, CoreEvent, AnItem
<1> QED
  BY <1>1, InvHolds, PTL

\* The text of a message that is done is what the client was told of it in deltas
\* (TextIsItsDeltas), whatever the provider did.
THEOREM TextsAreTheirDeltas == Spec => []TextIsItsDeltas
<1>1. Inv => TextIsItsDeltas
  BY SaidIs DEF Inv, Texts, DoneText, TextIsItsDeltas
<1> QED
  BY <1>1, InvHolds, PTL

\* Nothing is told of an item after it was told that the item is done
\* (ClosedItemsStayClosed), unless an event went astray.
THEOREM ClosedStayClosed == Spec => []ClosedItemsStayClosed
<1>1. Inv => ClosedItemsStayClosed
  BY DEF Inv, Ends, ClosedItemsStayClosed
<1> QED
  BY <1>1, InvHolds, PTL

\* What is told of an item comes after output_item.added for it, but for a text without
\* a delta (ItemsAreAnnounced), unless an event went astray.
THEOREM AllAreAnnounced == Spec => []ItemsAreAnnounced
<1>1. Inv => ItemsAreAnnounced
  BY DEF Inv, Ends, Silent, SentIn, ItemsAreAnnounced
<1> QED
  BY <1>1, InvHolds, PTL
=============================================================================

------------------------ MODULE Conversation_proofs ------------------------
(***************************************************************************)
(* Proofs about Conversation, of any length. They follow a history on its  *)
(* way through the modules that Conversation composes:                     *)
(*   - InputItems reads it item by item; what is at hand in between is     *)
(*     Tidy, and of the messages only the View counts: the role, the calls *)
(*     and the results (Reading, Paired);                                  *)
(*   - ProviderMessages makes groups of the messages (GroupsPaired), or    *)
(*     one for each (RunsAnswered); ReasoningMemory puts in reasoning,     *)
(*     which moves neither calls nor results (ThinkingPrepended);          *)
(*   - an answer comes back as items after which just its calls wait       *)
(*     (AnswerAsks), until the client has answered them (OutputsSettle);   *)
(*   - CachePlan marks messages (PlanMarks).                               *)
(* The invariant, Inv, is at the end of this part.                         *)
(*                                                                         *)
(* The last part is about InputLoop, where the items are not those of a    *)
(* conversation but any.                                                   *)
(***************************************************************************)
EXTENDS Conversation, InputLoop, SequenceTheorems, FiniteSetTheorems, WellFoundedInduction, TLAPS

-----------------------------------------------------------------------------
(***************************************************************************)
(* Folds. A recursive function is the one that satisfies its equation,     *)
(* once it is known that there is one; what it computes is proved by       *)
(* looking at the least place where it would be wrong.                     *)
(***************************************************************************)

LEMMA Least ==
  ASSUME NEW T \in SUBSET Nat, T # {}
  PROVE  \E n \in T : \A m \in T : n <= m
<1> DEFINE less == {ss \in Nat \X Nat : ss[1] < ss[2]}
<1>1. IsWellFoundedOn(less, Nat)
  BY NatLessThanWellFounded, Zenon DEF OpToRel
<1> HIDE DEF less
<1>2. PICK n \in T : \A m \in T : ~ (<<m, n>> \in less)
  BY <1>1, WFMin
<1>3. ASSUME NEW m \in T PROVE n <= m
  <2>1. ~ (<<m, n>> \in less) /\ m \in Nat /\ n \in Nat
    BY <1>2
  <2>2. ~ (m < n)
    BY <2>1 DEF less
  <2> QED
    BY <2>1, <2>2
<1> QED
  BY <1>3

\* Induction: a set that holds 0, and k with k - 1, holds all up to n.
LEMMA AllUpTo ==
  ASSUME NEW n \in Nat, NEW T, 0 \in T, \A k \in 1..n : k - 1 \in T => k \in T
  PROVE  \A k \in 0..n : k \in T
<1> DEFINE bad == {k \in 0..n : k \notin T}
<1> SUFFICES ASSUME bad # {} PROVE FALSE
  OBVIOUS
<1>1. bad \in SUBSET Nat
  OBVIOUS
<1>2. PICK k \in bad : \A j \in bad : k <= j
  BY <1>1, Least
<1>3. k # 0 /\ k \in 0..n /\ k \notin T
  BY <1>2
<1>4. k \in 1..n /\ k - 1 \in 0..n /\ ~ (k <= k - 1)
  BY <1>3
<1>5. k - 1 \notin bad
  BY <1>2, <1>4
<1> QED
  BY <1>3, <1>4, <1>5

\* What is got from a value by a first step, a second, and so on.
IsFold(f, base, step, n) == f = [k \in 0..n |-> IF k = 0 THEN base ELSE step[k][f[k - 1]]]

LEMMA FoldLonger ==
  ASSUME NEW base, NEW step, NEW k \in Nat \ {0}, NEW f, IsFold(f, base, step, k - 1)
  PROVE  \E g : IsFold(g, base, step, k)
<1> DEFINE g == [j \in 0..k |-> IF j = k THEN step[k][f[k - 1]] ELSE f[j]]
<1>1. k - 1 \in Nat /\ k - 1 \in 0..k /\ k - 1 # k /\ k \in 0..k
  OBVIOUS
<1>2. g[k] = step[k][f[k - 1]] /\ g[k - 1] = f[k - 1]
  BY <1>1
<1>3. ASSUME NEW j \in 0..k PROVE g[j] = IF j = 0 THEN base ELSE step[j][g[j - 1]]
  <2>1. CASE j = k
    BY <1>2, <2>1
  <2>2. CASE j # k
    <3>1. f[j] = IF j = 0 THEN base ELSE step[j][f[j - 1]]
      <4>1. j \in 0..(k - 1)
        BY <2>2
      <4> QED
        BY <4>1 DEF IsFold
    <3>2. g[j] = f[j] /\ (j # 0 => g[j - 1] = f[j - 1])
      BY <2>2
    <3> QED
      BY <3>1, <3>2
  <2> QED
    BY <2>1, <2>2
<1>4. g = [j \in 0..k |-> g[j]]
  OBVIOUS
<1> HIDE DEF g
<1>5. IsFold(g, base, step, k)
  BY <1>3, <1>4 DEF IsFold
<1> QED
  BY <1>5

LEMMA FoldExists ==
  ASSUME NEW D, NEW base \in D, NEW n \in Nat, NEW step \in [1..n -> [D -> D]]
  PROVE  \E f \in [0..n -> D] : IsFold(f, base, step, n)
<1> DEFINE T == {k \in Nat : \E f : IsFold(f, base, step, k)}
<1>1. 0 \in T
  <2>1. IsFold([k \in 0..0 |-> base], base, step, 0)
    BY DEF IsFold
  <2> QED
    BY <2>1
<1>2. ASSUME NEW k \in 1..n, k - 1 \in T PROVE k \in T
  <2>1. k \in Nat \ {0} /\ \E f : IsFold(f, base, step, k - 1)
    BY <1>2
  <2> QED
    BY <2>1, FoldLonger
<1>3. n \in 0..n
  OBVIOUS
<1> HIDE DEF T
<1>4. n \in T
  BY <1>1, <1>2, <1>3, AllUpTo
<1>5. PICK f : IsFold(f, base, step, n)
  BY <1>4 DEF T
<1>6. f = [k \in 0..n |-> f[k]] /\ f[0] = base /\ \A k \in 1..n : f[k] = step[k][f[k - 1]]
  <2>1. 0 \in 0..n /\ \A k \in 1..n : k \in 0..n /\ k # 0
    OBVIOUS
  <2> QED
    BY <1>5, <2>1 DEF IsFold
<1> DEFINE U == {k \in 0..n : f[k] \in D}
<1>7. 0 \in U /\ \A k \in 1..n : k - 1 \in U => k \in U
  <2>1. ASSUME NEW k \in 1..n, k - 1 \in U PROVE k \in U
    <3>1. k \in 0..n /\ f[k - 1] \in D
      BY <2>1
    <3>2. step[k] \in [D -> D]
      OBVIOUS
    <3> QED
      BY <1>6, <3>1, <3>2
  <2>2. 0 \in U
    BY <1>6
  <2> QED
    BY <2>1, <2>2
<1> HIDE DEF U
<1>8. \A k \in 0..n : k \in U
  BY <1>7, AllUpTo
<1>9. \A k \in 0..n : f[k] \in D
  BY <1>8 DEF U
<1>10. f \in [0..n -> D]
  BY <1>6, <1>9
<1> QED
  BY <1>5, <1>10

LEMMA ElementsOf ==
  ASSUME NEW S, NEW s \in Seq(S)
  PROVE  Len(s) \in Nat /\ DOMAIN s = 1..Len(s) /\ \A k \in 1..Len(s) : s[k] \in S
  OBVIOUS

LEMMA JoinedAt ==
  ASSUME NEW S, NEW s \in Seq(S), NEW t \in Seq(S)
  PROVE  /\ s \o t \in Seq(S) /\ Len(s \o t) = Len(s) + Len(t)
         /\ \A k \in 1..Len(s) : (s \o t)[k] = s[k]
         /\ \A k \in 1..Len(t) : (s \o t)[Len(s) + k] = t[k]
  OBVIOUS

-----------------------------------------------------------------------------
(***************************************************************************)
(* The elements at some positions of a list.                               *)
(***************************************************************************)

Filters(f, S, list, positions) ==
    /\ f \in [0..Len(list) -> Seq(S)]
    /\ f[0] = <<>> /\ ElementsAt(list, positions) = f[Len(list)]
    /\ \A k \in 1..Len(list) :
         f[k] = IF k \in positions THEN Append(f[k - 1], list[k]) ELSE f[k - 1]

LEMMA ElementsAtSteps ==
  ASSUME NEW S, NEW list \in Seq(S), NEW positions
  PROVE  \E f : Filters(f, S, list, positions)
<1> DEFINE n == Len(list)
           D == Seq(S)
           step == [k \in 1..n |-> [s \in D |-> IF k \in positions THEN Append(s, list[k]) ELSE s]]
           IsUpTo(f) == f = [k \in 0..n |->
              IF k = 0 THEN <<>>
              ELSE IF k \in positions THEN Append(f[k - 1], list[k]) ELSE f[k - 1]]
           upTo == CHOOSE f : IsUpTo(f)
<1>1. n \in Nat /\ <<>> \in D
  OBVIOUS
<1>2. step \in [1..n -> [D -> D]]
  <2>1. ASSUME NEW k \in 1..n, NEW s \in D
        PROVE  (IF k \in positions THEN Append(s, list[k]) ELSE s) \in D
    OBVIOUS
  <2> QED
    BY <2>1
<1>3. PICK g \in [0..n -> D] : IsFold(g, <<>>, step, n)
  <2> HIDE DEF D, n, step
  <2> QED
    BY <1>1, <1>2, FoldExists
<1>4. IsUpTo(g)
  <2>1. \A k \in 1..n : step[k][g[k - 1]]
              = IF k \in positions THEN Append(g[k - 1], list[k]) ELSE g[k - 1]
    <3>1. \A k \in 1..n : g[k - 1] \in D
      BY <1>1, <1>3
    <3> QED
      BY <3>1
  <2>2. g = [k \in 0..n |-> IF k = 0 THEN <<>> ELSE step[k][g[k - 1]]]
    BY <1>3 DEF IsFold
  <2> HIDE DEF step, n, D
  <2>3. \A k \in 0..n : k # 0 => k \in 1..n
    BY <1>1
  <2>4. [k \in 0..n |-> IF k = 0 THEN <<>> ELSE step[k][g[k - 1]]]
        = [k \in 0..n |->
              IF k = 0 THEN <<>>
              ELSE IF k \in positions THEN Append(g[k - 1], list[k]) ELSE g[k - 1]]
    BY <2>1, <2>3
  <2> QED
    BY <2>2, <2>4
<1>5. IsUpTo(upTo)
  <2> HIDE DEF IsUpTo
  <2> QED
    BY <1>4
<1>6. ElementsAt(list, positions) = upTo[n]
  BY DEF ElementsAt
<1> HIDE DEF upTo
<1>7. /\ upTo = [k \in 0..n |-> upTo[k]] /\ upTo[0] = <<>>
      /\ \A k \in 1..n : upTo[k] = IF k \in positions THEN Append(upTo[k - 1], list[k]) ELSE upTo[k - 1]
  <2>1. 0 \in 0..n /\ \A k \in 1..n : k \in 0..n /\ k # 0
    BY <1>1
  <2> QED
    BY <1>5, <2>1
<1> HIDE DEF IsUpTo, step, D, n
<1> DEFINE U == {k \in 0..n : upTo[k] \in Seq(S)}
<1>8. \A k \in 0..n : k \in U
  <2>1. 0 \in U
    BY <1>1, <1>7
  <2>2. ASSUME NEW k \in 1..n, k - 1 \in U PROVE k \in U
    <3>0. list[k] \in S
      BY ElementsOf DEF n
    <3>1. k \in 0..n /\ upTo[k - 1] \in Seq(S)
      BY <1>1, <2>2
    <3>2. upTo[k] = IF k \in positions THEN Append(upTo[k - 1], list[k]) ELSE upTo[k - 1]
      BY <1>7
    <3>3. Append(upTo[k - 1], list[k]) \in Seq(S)
      BY <3>0, <3>1
    <3> QED
      BY <3>1, <3>2, <3>3
  <2> HIDE DEF U
  <2> QED
    BY <1>1, <2>1, <2>2, AllUpTo
<1>9. upTo \in [0..n -> Seq(S)]
  BY <1>7, <1>8
<1>10. Filters(upTo, S, list, positions)
  BY <1>6, <1>7, <1>9, Zenon DEF Filters, n
<1> QED
  BY <1>10, Zenon

-----------------------------------------------------------------------------
(***************************************************************************)
(* The marks for the cache.                                                *)
(***************************************************************************)

Ascending(s) == \A i, j \in DOMAIN s : i < j => s[i] < s[j]

LEMMA AscendingAppended ==
  ASSUME NEW s \in Seq(Nat), Ascending(s), NEW x \in Nat, \A y \in Range(s) : y < x
  PROVE  Ascending(Append(s, x)) /\ Range(Append(s, x)) = Range(s) \cup {x}
<1> DEFINE t == Append(s, x)
<1>1. /\ DOMAIN t = 1..(Len(s) + 1) /\ DOMAIN s = 1..Len(s) /\ Len(s) \in Nat
      /\ t[Len(s) + 1] = x /\ \A i \in 1..Len(s) : t[i] = s[i] /\ s[i] \in Range(s)
  BY DEF Range
<1> HIDE DEF t
<1>2. Ascending(t)
  BY <1>1 DEF Ascending
<1>3. Range(t) = Range(s) \cup {x}
  <2>1. Range(t) = {t[i] : i \in 1..(Len(s) + 1)} /\ Range(s) = {s[i] : i \in 1..Len(s)}
    BY <1>1 DEF Range
  <2>2. ASSUME NEW y \in Range(t) PROVE y \in Range(s) \cup {x}
    <3>1. PICK i \in 1..(Len(s) + 1) : y = t[i]
      BY <2>1
    <3> QED
      BY <1>1, <3>1
  <2>3. ASSUME NEW y \in Range(s) PROVE y \in Range(t)
    <3>1. PICK i \in 1..Len(s) : y = t[i]
      BY <1>1, <2>1
    <3> QED
      BY <1>1, <2>1, <3>1
  <2>4. x \in Range(t)
    BY <1>1, <2>1
  <2> QED
    BY <2>2, <2>3, <2>4
<1> QED
  BY <1>2, <1>3 DEF t

\* The chosen positions come in their order, each once.
LEMMA PositionsInOrder ==
  ASSUME NEW S, NEW messages \in Seq(S), NEW P \in SUBSET DOMAIN messages
  PROVE  LET s == ElementsAt(Positions(messages), P)
         IN s \in Seq(Nat) /\ Ascending(s) /\ Range(s) = P
<1> DEFINE n == Len(messages)
           list == Positions(messages)
<1>1. n \in Nat /\ DOMAIN messages = 1..n
  OBVIOUS
<1>2. list \in Seq(Nat) /\ Len(list) = n /\ \A k \in 1..n : list[k] = k
  <2>1. list = [k \in 1..n |-> k]
    BY <1>1 DEF Positions
  <2> HIDE DEF list, n
  <2>2. list \in Seq(Nat)
    BY <1>1, <2>1
  <2>3. DOMAIN list = 1..n /\ \A k \in 1..n : list[k] = k
    BY <2>1
  <2>4. Len(list) = n
    BY <1>1, <2>2, <2>3
  <2> QED
    BY <2>2, <2>3, <2>4
<1> HIDE DEF list, n
<1>3. PICK f \in [0..n -> Seq(Nat)] :
        /\ f[0] = <<>> /\ ElementsAt(list, P) = f[n]
        /\ \A k \in 1..n : f[k] = IF k \in P THEN Append(f[k - 1], list[k]) ELSE f[k - 1]
  <2>1. list \in Seq(Nat) /\ Len(list) = n
    BY <1>2
  <2>2. PICK f : Filters(f, Nat, list, P)
    BY <2>1, ElementsAtSteps, Zenon
  <2>3. /\ f \in [0..n -> Seq(Nat)]
        /\ f[0] = <<>> /\ ElementsAt(list, P) = f[n]
        /\ \A k \in 1..n : f[k] = IF k \in P THEN Append(f[k - 1], list[k]) ELSE f[k - 1]
    BY <2>1, <2>2, Zenon DEF Filters
  <2> QED
    BY <2>3, Zenon
<1> DEFINE T == {k \in 0..n : Ascending(f[k]) /\ Range(f[k]) = P \cap 1..k}
<1>4. 0 \in T
  <2>1. Ascending(<<>>) /\ Range(<<>>) = {} /\ 1..0 = {}
    BY DEF Ascending, Range
  <2> QED
    BY <1>1, <1>3, <2>1
<1>5. ASSUME NEW k \in 1..n, k - 1 \in T PROVE k \in T
  <2>1. k - 1 \in 0..n /\ k \in 0..n /\ f[k - 1] \in Seq(Nat)
    BY <1>1
  <2>2. Ascending(f[k - 1]) /\ Range(f[k - 1]) = P \cap 1..(k - 1)
    BY <1>5
  <2>3. 1..k = 1..(k - 1) \cup {k} /\ \A y \in 1..(k - 1) : y < k
    BY <1>1
  <2>4. f[k] = IF k \in P THEN Append(f[k - 1], k) ELSE f[k - 1]
    BY <1>2, <1>3
  <2>5. CASE k \in P
    <3>1. Ascending(Append(f[k - 1], k)) /\ Range(Append(f[k - 1], k)) = Range(f[k - 1]) \cup {k}
      <4>1. k \in Nat /\ \A y \in Range(f[k - 1]) : y < k
        BY <1>1, <2>2, <2>3
      <4> QED
        BY <2>1, <2>2, <4>1, AscendingAppended
    <3> QED
      BY <2>1, <2>2, <2>3, <2>4, <2>5, <3>1
  <2>6. CASE k \notin P
    BY <2>1, <2>2, <2>3, <2>4, <2>6
  <2> QED
    BY <2>5, <2>6
<1>6. n \in T
  <2> HIDE DEF T
  <2>1. n \in 0..n
    BY <1>1
  <2> QED
    BY <1>1, <1>4, <1>5, <2>1, AllUpTo
<1>7. n \in 0..n /\ P \cap 1..n = P
  BY <1>1
<1> QED
  BY <1>3, <1>6, <1>7 DEF list

LEMMA AscendingCounts ==
  ASSUME NEW s \in Seq(Nat), Ascending(s)
  PROVE  IsFiniteSet(Range(s)) /\ Cardinality(Range(s)) = Len(s)
<1>1. Len(s) \in Nat /\ DOMAIN s = 1..Len(s) /\ \A i \in 1..Len(s) : s[i] \in Nat
  OBVIOUS
<1>2. ASSUME NEW i \in 1..Len(s), NEW j \in 1..Len(s), s[i] = s[j] PROVE i = j
  <2>1. ~ (i < j) /\ ~ (j < i)
    BY <1>1, <1>2 DEF Ascending
  <2> QED
    BY <2>1
<1>3. s \in [1..Len(s) -> Range(s)]
  BY <1>1 DEF Range
<1>4. s \in Bijection(1..Len(s), Range(s))
  BY <1>1, <1>2, <1>3 DEF Bijection, Injection, Surjection, Range, IsInjective
<1>5. ExistsBijection(1..Len(s), Range(s))
  BY <1>4 DEF ExistsBijection
<1>6. IsFiniteSet(Range(s))
  BY <1>1, <1>5, FS_NatBijection
<1> QED
  BY <1>1, <1>5, <1>6, FS_CountingElements
\* Which of n positions a slot is for, if there are fewer slots than positions.
Slot(slot, n, limit) == (slot * n + limit - 1) \div limit

LEMMA SlotsAreApart ==
  ASSUME NEW limit \in 1..4, NEW n \in Nat, limit < n
  PROVE  /\ \A i \in 1..limit : Slot(i, n, limit) \in 1..n
         /\ \A i, j \in 1..limit : i < j => Slot(i, n, limit) < Slot(j, n, limit)
         /\ Slot(limit, n, limit) = n
<1>1. CASE limit = 1
  BY <1>1 DEF Slot
<1>2. CASE limit = 2
  BY <1>2 DEF Slot
<1>3. CASE limit = 3
  <2>1. /\ Slot(1, n, 3) \in 1..n /\ Slot(2, n, 3) \in 1..n /\ Slot(3, n, 3) = n
        /\ Slot(1, n, 3) < Slot(2, n, 3) /\ Slot(2, n, 3) < n
    BY <1>3 DEF Slot
  <2>2. \A i \in 1..limit : i = 1 \/ i = 2 \/ i = 3
    BY <1>3
  <2> QED
    BY <1>3, <2>1, <2>2
<1>4. CASE limit = 4
  <2>1. /\ Slot(1, n, 4) \in 1..n /\ Slot(2, n, 4) \in 1..n
        /\ Slot(3, n, 4) \in 1..n /\ Slot(4, n, 4) = n
        /\ Slot(1, n, 4) < Slot(2, n, 4) /\ Slot(2, n, 4) < Slot(3, n, 4) /\ Slot(3, n, 4) < n
    BY <1>4 DEF Slot
  <2>2. \A i \in 1..limit : i = 1 \/ i = 2 \/ i = 3 \/ i = 4
    BY <1>4
  <2> QED
    BY <1>4, <2>1, <2>2
<1> QED
  BY <1>1, <1>2, <1>3, <1>4

\* As many as there is room for, each once, and the last is among them.
LEMMA SpacedPicks ==
  ASSUME NEW s \in Seq(Nat), Ascending(s), NEW limit \in 1..4
  PROVE  LET e == EvenlySpaced(s, limit)
         IN /\ e \in Seq(Nat) /\ Ascending(e) /\ Range(e) \subseteq Range(s)
            /\ Len(e) = IF limit >= Len(s) THEN Len(s) ELSE limit
            /\ limit >= Len(s) => e = s
            /\ Len(s) # 0 => s[Len(s)] \in Range(e)
<1>1. Len(s) \in Nat /\ DOMAIN s = 1..Len(s) /\ \A i \in 1..Len(s) : s[i] \in Nat
  OBVIOUS
<1>2. CASE limit >= Len(s)
  BY <1>1, <1>2 DEF EvenlySpaced, Range
<1>3. CASE limit < Len(s)
  <2> DEFINE n == Len(s)
             e == [slot \in 1..limit |-> s[Slot(slot, n, limit)]]
  <2>1. EvenlySpaced(s, limit) = e
    BY <1>1, <1>3 DEF EvenlySpaced, Slot
  <2>2. /\ \A i \in 1..limit : Slot(i, n, limit) \in 1..n
        /\ \A i, j \in 1..limit : i < j => Slot(i, n, limit) < Slot(j, n, limit)
        /\ Slot(limit, n, limit) = n
    <3> HIDE DEF n
    <3> QED
      BY <1>1, <1>3, SlotsAreApart DEF n
  <2>3. DOMAIN e = 1..limit /\ \A i \in 1..limit : e[i] = s[Slot(i, n, limit)] /\ e[i] \in Nat
    BY <1>1, <2>2
  <2>4. e \in Seq(Nat) /\ Len(e) = limit
    BY <1>1, <2>2
  <2> HIDE DEF e, n
  <2>5. Ascending(e)
    <3>1. ASSUME NEW i \in 1..limit, NEW j \in 1..limit, i < j PROVE e[i] < e[j]
      <4>1. Slot(i, n, limit) < Slot(j, n, limit)
            /\ Slot(i, n, limit) \in 1..n /\ Slot(j, n, limit) \in 1..n
        BY <2>2, <3>1
      <4>2. s[Slot(i, n, limit)] < s[Slot(j, n, limit)]
        BY <1>1, <4>1 DEF Ascending, n
      <4> QED
        BY <2>3, <4>2
    <3> QED
      BY <2>3, <3>1 DEF Ascending
  <2>6. Range(e) \subseteq Range(s)
    <3>1. ASSUME NEW y \in Range(e) PROVE y \in Range(s)
      <4>1. PICK i \in 1..limit : y = e[i]
        BY <2>3 DEF Range
      <4>2. Slot(i, n, limit) \in DOMAIN s /\ y = s[Slot(i, n, limit)]
        BY <1>1, <2>2, <2>3, <4>1 DEF n
      <4> QED
        BY <4>2 DEF Range
    <3> QED
      BY <3>1
  <2>7. s[n] \in Range(e)
    <3>1. limit \in DOMAIN e /\ e[limit] = s[n]
      BY <2>2, <2>3
    <3> QED
      BY <3>1 DEF Range
  <2>8. limit < n /\ n \in Nat
    BY <1>1, <1>3 DEF n
  <2>9. (limit >= n) = FALSE
    BY <2>8
  <2>10. /\ e \in Seq(Nat) /\ Ascending(e) /\ Range(e) \subseteq Range(s)
         /\ Len(e) = IF limit >= n THEN n ELSE limit
         /\ limit >= n => e = s
         /\ n # 0 => s[n] \in Range(e)
    BY <2>4, <2>5, <2>6, <2>7, <2>8, <2>9, Zenon
  <2> QED
    BY <2>1, <2>10, Zenon DEF n
<1> QED
  BY <1>1, <1>2, <1>3

\* The last of an ascending list is the greatest.
LEMMA LastIsGreatest ==
  ASSUME NEW s \in Seq(Nat), Ascending(s), Len(s) # 0
  PROVE  Max(Range(s)) = s[Len(s)]
<1> DEFINE n == Len(s)
<1>1. n \in Nat /\ n # 0 /\ DOMAIN s = 1..n /\ \A i \in 1..n : s[i] \in Nat
  OBVIOUS
<1> HIDE DEF n
<1>2. s[n] \in Range(s)
  BY <1>1 DEF Range
<1>3. ASSUME NEW y \in Range(s) PROVE s[n] >= y /\ y \in Nat
  <2>1. PICK i \in 1..n : y = s[i]
    BY <1>1 DEF Range
  <2>2. CASE i = n
    BY <1>1, <2>1, <2>2
  <2>3. CASE i < n
    <3>1. s[i] < s[n]
      BY <1>1, <2>3 DEF Ascending
    <3> QED
      BY <1>1, <2>1, <3>1
  <2> QED
    BY <1>1, <2>2, <2>3
<1>4. \A x \in Range(s) : (\A y \in Range(s) : x >= y) => x = s[n]
  BY <1>2, <1>3
<1> QED
  BY <1>2, <1>3, <1>4 DEF Max, n
LEMMA RangeJoined ==
  ASSUME NEW S, NEW s \in Seq(S), NEW t \in Seq(S)
  PROVE  Range(s \o t) = Range(s) \cup Range(t)
<1> DEFINE u == s \o t
           a == Len(s)
           b == Len(t)
<1>1. /\ a \in Nat /\ b \in Nat /\ DOMAIN s = 1..a /\ DOMAIN t = 1..b /\ DOMAIN u = 1..(a + b)
      /\ \A k \in 1..a : u[k] = s[k]
      /\ \A k \in 1..b : u[a + k] = t[k]
  OBVIOUS
<1> HIDE DEF u, a, b
<1>2. ASSUME NEW y \in Range(u) PROVE y \in Range(s) \cup Range(t)
  <2>1. PICK k \in 1..(a + b) : y = u[k]
    BY <1>1 DEF Range
  <2>2. CASE k <= a
    BY <1>1, <2>1, <2>2 DEF Range
  <2>3. CASE k > a
    <3>0. a \in Nat /\ b \in Nat
      BY <1>1
    <3>1. k - a \in 1..b /\ a + (k - a) = k
      BY <2>1, <2>3, <3>0
    <3> QED
      BY <1>1, <2>1, <3>1 DEF Range
  <2> QED
    BY <1>1, <2>2, <2>3
<1>3. ASSUME NEW k \in 1..a PROVE s[k] \in Range(u)
  <2>1. k \in 1..(a + b)
    BY <1>1
  <2> QED
    BY <1>1, <2>1 DEF Range
<1>4. ASSUME NEW k \in 1..b PROVE t[k] \in Range(u)
  <2>1. a + k \in 1..(a + b)
    BY <1>1
  <2> QED
    BY <1>1, <2>1 DEF Range
<1>5. Range(s) \subseteq Range(u) /\ Range(t) \subseteq Range(u)
  BY <1>1, <1>3, <1>4 DEF Range
<1>6. Range(u) = Range(s) \cup Range(t)
  BY <1>2, <1>5
<1> QED
  BY <1>6 DEF u

LEMMA DisjointUnion ==
  ASSUME NEW A, NEW B, IsFiniteSet(A), IsFiniteSet(B), A \cap B = {}
  PROVE  Cardinality(A \cup B) = Cardinality(A) + Cardinality(B)
<1>1. /\ Cardinality(A \cup B) = Cardinality(A) + Cardinality(B) - Cardinality(A \cap B)
      /\ Cardinality(A) \in Nat /\ Cardinality(B) \in Nat
  BY FS_Union, FS_CardinalityType
<1>2. Cardinality(A \cap B) = 0
  BY FS_EmptySet
<1> QED
  BY <1>1, <1>2

\* All messages that can be marked are marked, or as many as there is room for,
\* and the user's last message is among them.
LEMMA SelectedMarks ==
  ASSUME NEW S, NEW messages \in Seq(S), NEW limit \in 1..4,
         \A m \in DOMAIN messages : messages[m].content # <<>>,
         \E m \in DOMAIN messages : messages[m].role = "user"
  PROVE  LET marks == Range(Selected(messages, limit))
             users == {m \in DOMAIN messages : messages[m].role = "user"}
         IN /\ Cardinality(marks) = IF Len(messages) < limit THEN Len(messages) ELSE limit
            /\ Max(users) \in marks
<1> DEFINE n == Len(messages)
           all == DOMAIN messages
           users == {m \in DOMAIN messages : messages[m].role = "user"}
           u == ElementsAt(Positions(messages), users)
           e == EvenlySpaced(u, limit)
           k == Len(u)
<1>1. n \in Nat /\ all = 1..n /\ IsFiniteSet(all) /\ Cardinality(all) = n
  <2>1. n \in Nat /\ all = 1..n
    OBVIOUS
  <2> HIDE DEF n
  <2>2. IsFiniteSet(1..n) /\ Cardinality(1..n) = n
    BY <2>1, FS_Interval
  <2> QED
    BY <2>1, <2>2
<1>2. users \subseteq all /\ OfUsers(messages) = users /\ Candidates(messages) = all /\ users # {}
  BY DEF OfUsers, Candidates
<1> HIDE DEF users, all, n
<1>3. u \in Seq(Nat) /\ Ascending(u) /\ Range(u) = users
  BY <1>2, PositionsInOrder DEF all
<1> HIDE DEF u
<1>4. IsFiniteSet(users) /\ Cardinality(users) = k /\ k \in Nat
  BY <1>3, AscendingCounts
<1>5. k # 0
  BY <1>2, <1>4, FS_EmptySet
<1>6. Max(users) = u[k]
  BY <1>3, <1>5, LastIsGreatest
<1>7. /\ e \in Seq(Nat) /\ Ascending(e) /\ Range(e) \subseteq users
      /\ Len(e) = (IF limit >= k THEN k ELSE limit)
      /\ limit >= k => e = u
      /\ u[k] \in Range(e)
  BY <1>3, <1>5, SpacedPicks
<1>8. k <= n
  BY <1>1, <1>2, <1>4, FS_Subset
<1> HIDE DEF e, k
<1> DEFINE o == ElementsAt(Positions(messages), all \ Range(e))
           marks == Range(Selected(messages, limit))
<1>9. Selected(messages, limit)
        = IF Len(e) >= limit THEN e ELSE e \o EvenlySpaced(o, limit - Len(e))
  BY <1>2 DEF Selected, e, u
<1> HIDE DEF o
<1>10. CASE k >= limit
  <2>1. Len(e) = limit
    BY <1>4, <1>7, <1>10
  <2>2. marks = Range(e)
    BY <1>9, <2>1
  <2>3. Cardinality(marks) = limit
    BY <1>7, <2>1, <2>2, AscendingCounts
  <2>4. ~ (n < limit)
    BY <1>1, <1>4, <1>8, <1>10
  <2> QED
    BY <1>6, <1>7, <2>2, <2>3, <2>4 DEF users, n
<1>11. CASE k < limit
  <2> DEFINE left == limit - k
             r == EvenlySpaced(o, left)
             rest == all \ users
  <2>1. Len(e) = k /\ e = u /\ left \in 1..4 /\ ~ (k >= limit)
    BY <1>4, <1>5, <1>7, <1>11
  <2>2. o \in Seq(Nat) /\ Ascending(o) /\ Range(o) = rest
    <3>1. all \ Range(e) = rest /\ rest \in SUBSET DOMAIN messages
      BY <1>3, <2>1 DEF all
    <3> HIDE DEF rest
    <3> QED
      BY <3>1, PositionsInOrder DEF o
  <2> HIDE DEF left
  <2>3. /\ r \in Seq(Nat) /\ Ascending(r) /\ Range(r) \subseteq rest
        /\ Len(r) = IF left >= Len(o) THEN Len(o) ELSE left
    BY <2>1, <2>2, SpacedPicks
  <2>4. Selected(messages, limit) = e \o r
    BY <1>9, <2>1 DEF left
  <2> HIDE DEF r
  <2>5. marks = users \cup Range(r)
    BY <1>3, <2>1, <2>3, <2>4, RangeJoined
  <2>6. IsFiniteSet(Range(r)) /\ Cardinality(Range(r)) = Len(r) /\ Len(r) \in Nat
    BY <2>3, AscendingCounts
  <2>7. users \cap Range(r) = {} /\ users \cap rest = {} /\ users \cup rest = all
    BY <1>2, <2>3
  <2> HIDE DEF rest, marks
  <2>8. Cardinality(marks) = k + Len(r)
    <3>1. Cardinality(users \cup Range(r)) = Cardinality(users) + Cardinality(Range(r))
      BY <1>4, <2>6, <2>7, DisjointUnion
    <3> QED
      BY <1>4, <2>5, <2>6, <3>1
  <2>9. n = k + Len(o) /\ Len(o) \in Nat
    <3>1. IsFiniteSet(rest) /\ Cardinality(rest) = Len(o) /\ Len(o) \in Nat
      BY <2>2, AscendingCounts
    <3>2. Cardinality(users \cup rest) = Cardinality(users) + Cardinality(rest)
      BY <1>4, <2>7, <3>1, DisjointUnion
    <3> QED
      BY <1>1, <1>4, <2>7, <3>1, <3>2
  <2>10. Cardinality(marks) = IF n < limit THEN n ELSE limit
    <3>1. left = limit - k
      BY DEF left
    <3> QED
      BY <1>1, <1>4, <1>11, <2>3, <2>8, <2>9, <3>1
  <2>11. Max(users) \in marks
    <3>1. u[k] \in users
      BY <1>7
    <3> QED
      BY <1>6, <2>5, <3>1
  <2> QED
    BY <2>10, <2>11, Zenon DEF users, n, marks
<1> QED
  BY <1>4, <1>10, <1>11
LEMMA PartsMarked ==
  ASSUME NEW p, NEW byTools \in BOOLEAN, NEW bySystem \in BOOLEAN,
         p["tools"] = byTools, p["system"] = bySystem
  PROVE  Cardinality({s \in {"tools", "system"} : p[s]})
           = (IF byTools THEN 1 ELSE 0) + (IF bySystem THEN 1 ELSE 0)
<1> DEFINE A == {s \in {"tools", "system"} : p[s]}
<1>1. /\ IsFiniteSet({}) /\ Cardinality({}) = 0
      /\ IsFiniteSet({"tools"}) /\ Cardinality({"tools"}) = 1
      /\ IsFiniteSet({"system"}) /\ Cardinality({"system"}) = 1
  BY FS_EmptySet, FS_Singleton
<1>2. Cardinality({"tools"} \cup {"system"}) = 2
  <2>1. {"tools"} \cap {"system"} = {}
    OBVIOUS
  <2>2. Cardinality({"tools"} \cup {"system"}) = Cardinality({"tools"}) + Cardinality({"system"})
    BY <1>1, <2>1, DisjointUnion
  <2> QED
    BY <1>1, <2>2
<1>3. CASE byTools /\ bySystem
  <2>1. A = {"tools"} \cup {"system"}
    BY <1>3
  <2> QED
    BY <1>2, <1>3, <2>1
<1>4. CASE byTools /\ ~bySystem
  <2>1. A = {"tools"}
    BY <1>4
  <2> QED
    BY <1>1, <1>4, <2>1
<1>5. CASE ~byTools /\ bySystem
  <2>1. A = {"system"}
    BY <1>5
  <2> QED
    BY <1>1, <1>5, <2>1
<1>6. CASE ~byTools /\ ~bySystem
  <2>1. A = {}
    BY <1>6
  <2> QED
    BY <1>1, <1>6, <2>1
<1> QED
  BY <1>3, <1>4, <1>5, <1>6

\* NoMarkIsWasted and MarksReachTheNewest, of one plan.
WellMarked(messages, p) ==
  LET others == Cardinality({s \in {"tools", "system"} : p[s]})
      room == MaxBreakpoints - others
      users == {m \in DOMAIN messages : messages[m].role = "user"}
  IN /\ Cardinality(p.messages) = IF Len(messages) < room THEN Len(messages) ELSE room
     /\ Max(users) \in p.messages

LEMMA PlanMarks ==
  ASSUME NEW S, NEW messages \in Seq(S),
         \A m \in DOMAIN messages : messages[m].content # <<>>,
         \E m \in DOMAIN messages : messages[m].role = "user",
         NEW tools \in Nat, NEW system \in Nat,
         Plan(tools, system, messages) # NotPlanned
  PROVE  WellMarked(messages, Plan(tools, system, messages))
<1> DEFINE p == Plan(tools, system, messages)
           byTools == tools >= MinSize
           bySystem == system > 0 /\ tools + system >= MinSize
           taken == (IF byTools THEN 1 ELSE 0) + (IF bySystem THEN 1 ELSE 0)
           room == MaxBreakpoints - (IF byTools THEN 1 ELSE 0) - (IF bySystem THEN 1 ELSE 0)
<1>1. p = [tools |-> byTools, system |-> bySystem, messages |-> Range(Selected(messages, room))]
  BY DEF Plan, Breakpoints
<1>2. byTools \in BOOLEAN /\ bySystem \in BOOLEAN
  OBVIOUS
<1>3. room \in 1..4 /\ room = MaxBreakpoints - taken
  BY DEF MaxBreakpoints
<1> HIDE DEF p, byTools, bySystem
<1>4. p["tools"] = byTools /\ p["system"] = bySystem /\ p.messages = Range(Selected(messages, room))
  BY <1>1
<1>5. Cardinality({s \in {"tools", "system"} : p[s]}) = taken
  BY <1>2, <1>4, PartsMarked
<1> HIDE DEF room, taken
<1> DEFINE users == {m \in DOMAIN messages : messages[m].role = "user"}
<1>6. /\ Cardinality(p.messages) = IF Len(messages) < room THEN Len(messages) ELSE room
      /\ Max(users) \in p.messages
  BY <1>3, <1>4, SelectedMarks
<1> QED
  BY <1>3, <1>5, <1>6 DEF WellMarked, p
-----------------------------------------------------------------------------
(***************************************************************************)
(* Blocks, and the tags of those of one type.                              *)
(***************************************************************************)

ABlock == [type : BlockTypes, tag : Nat]
Roles == {"user", "assistant", "tool"}
AMessage == [role : Roles, content : Content]

OnlyOf(types, content) == \A k \in DOMAIN content : content[k].type \in types
Plain(content) == OnlyOf({"text", "reasoning"}, content)
Tagged(content, type) == {content[k].tag : k \in {j \in DOMAIN content : content[j].type = type}}

LEMMA BlocksTyped ==
  ASSUME NEW type \in BlockTypes, NEW tags \in Seq(Nat)
  PROVE  Blocks(type, tags) \in Content /\ OnlyOf({type}, Blocks(type, tags))
<1>1. \A k \in 1..Len(tags) : Block(type, tags[k]) \in ABlock
  BY DEF Block, ABlock
<1>2. Blocks(type, tags) = [k \in 1..Len(tags) |-> Block(type, tags[k])] /\ Len(tags) \in Nat
  BY DEF Blocks
<1>3. Blocks(type, tags) \in Content
  BY <1>1, <1>2 DEF Content, ABlock
<1> QED
  BY <1>2, <1>3 DEF OnlyOf, Block

LEMMA OnlyOfAppended ==
  ASSUME NEW s \in Content, NEW t \in Content, NEW types, OnlyOf(types, s), OnlyOf(types, t)
  PROVE  s \o t \in Content /\ OnlyOf(types, s \o t)
  BY DEF Content, OnlyOf, ABlock

LEMMA TaggedTyped ==
  ASSUME NEW content \in Content, NEW type PROVE Tagged(content, type) \in SUBSET Nat
<1>1. ASSUME NEW k \in DOMAIN content PROVE content[k].tag \in Nat
  <2>1. content[k] \in ABlock
    BY ElementsOf DEF Content, ABlock
  <2> QED
    BY <2>1 DEF ABlock
<1> QED
  BY <1>1 DEF Tagged

LEMMA TaggedJoined ==
  ASSUME NEW S, NEW s \in Seq(S), NEW t \in Seq(S), NEW type
  PROVE  Tagged(s \o t, type) = Tagged(s, type) \cup Tagged(t, type)
<1> DEFINE u == s \o t
           a == Len(s)
           b == Len(t)
<1>1. /\ a \in Nat /\ b \in Nat /\ DOMAIN s = 1..a /\ DOMAIN t = 1..b /\ DOMAIN u = 1..(a + b)
      /\ \A k \in 1..a : u[k] = s[k]
      /\ \A k \in 1..b : u[a + k] = t[k]
  OBVIOUS
<1> HIDE DEF u, a, b
<1>2. ASSUME NEW y \in Tagged(u, type) PROVE y \in Tagged(s, type) \cup Tagged(t, type)
  <2>1. PICK k \in 1..(a + b) : y = u[k].tag /\ u[k].type = type
    BY <1>1 DEF Tagged
  <2>2. CASE k <= a
    <3>1. k \in 1..a
      BY <1>1, <2>1, <2>2
    <3>2. k \in DOMAIN s /\ y = s[k].tag /\ s[k].type = type
      BY <1>1, <2>1, <3>1, Zenon
    <3>3. y \in Tagged(s, type)
      BY <3>2, Zenon DEF Tagged
    <3> QED
      BY <3>3
  <2>3. CASE k > a
    <3>0. a \in Nat /\ b \in Nat
      BY <1>1
    <3>1. k - a \in 1..b /\ a + (k - a) = k
      BY <2>1, <2>3, <3>0
    <3> QED
      BY <1>1, <2>1, <3>1 DEF Tagged
  <2> QED
    BY <1>1, <2>2, <2>3
<1>3. ASSUME NEW k \in 1..a, s[k].type = type PROVE s[k].tag \in Tagged(u, type)
  <2>1. k \in 1..(a + b)
    BY <1>1
  <2> QED
    BY <1>1, <1>3, <2>1 DEF Tagged
<1>4. ASSUME NEW k \in 1..b, t[k].type = type PROVE t[k].tag \in Tagged(u, type)
  <2>1. a + k \in 1..(a + b)
    BY <1>1
  <2> QED
    BY <1>1, <1>4, <2>1 DEF Tagged
<1>5. Tagged(s, type) \subseteq Tagged(u, type) /\ Tagged(t, type) \subseteq Tagged(u, type)
  BY <1>1, <1>3, <1>4 DEF Tagged
<1>6. Tagged(u, type) = Tagged(s, type) \cup Tagged(t, type)
  BY <1>2, <1>5
<1> QED
  BY <1>6 DEF u

LEMMA TaggedOther ==
  ASSUME NEW types, NEW content, OnlyOf(types, content), NEW type, type \notin types
  PROVE  Tagged(content, type) = {}
  BY DEF OnlyOf, Tagged

LEMMA TaggedBlocks ==
  ASSUME NEW type, NEW tags \in Seq(Nat)
  PROVE  Tagged(Blocks(type, tags), type) = Range(tags)
<1> DEFINE blocks == Blocks(type, tags)
<1>1. DOMAIN blocks = DOMAIN tags
      /\ \A k \in DOMAIN tags : blocks[k].type = type /\ blocks[k].tag = tags[k]
  BY DEF Blocks, Block
<1> HIDE DEF blocks
<1>2. ASSUME NEW y \in Tagged(blocks, type) PROVE y \in Range(tags)
  BY <1>1 DEF Tagged, Range
<1>3. ASSUME NEW y \in Range(tags) PROVE y \in Tagged(blocks, type)
  <2>1. PICK k \in DOMAIN tags : y = tags[k]
    BY DEF Range
  <2> QED
    BY <1>1, <2>1 DEF Tagged
<1>4. Tagged(blocks, type) = Range(tags)
  BY <1>2, <1>3
<1> QED
  BY <1>4 DEF blocks

\* The reasoning that leads the calls, up to the first block of another type.
LEMMA LeadingReasoningEnds ==
  ASSUME NEW calls \in Content
  PROVE  /\ LeadingReasoning(calls) \in 0..Len(calls)
         /\ \A k \in 1..LeadingReasoning(calls) : calls[k].type = "reasoning"
         /\ LeadingReasoning(calls) < Len(calls)
            => calls[LeadingReasoning(calls) + 1].type # "reasoning"
<1> DEFINE others == {k \in 1..Len(calls) : calls[k].type # "reasoning"}
<1> DEFINE ends(n) == /\ \A k \in 1..n : calls[k].type = "reasoning"
                      /\ n < Len(calls) => calls[n + 1].type # "reasoning"
<1>0. Len(calls) \in Nat
  BY DEF Content, ABlock
<1>1. \E n \in 0..Len(calls) : ends(n)
  <2>1. CASE others = {}
    BY <1>0, <2>1
  <2>2. CASE others # {}
    <3>1. PICK first \in others : \A k \in others : first <= k
      <4> DEFINE less == {ss \in Nat \X Nat : ss[1] < ss[2]}
      <4>1. IsWellFoundedOn(less, Nat)
        BY NatLessThanWellFounded, Zenon DEF OpToRel
      <4>2. others \subseteq Nat
        BY <1>0
      <4> HIDE DEF others, less
      <4>3. PICK first \in others : \A k \in others : ~ (<<k, first>> \in less)
        BY <2>2, <4>1, <4>2, WFMin
      <4>4. ASSUME NEW k \in others PROVE first <= k
        <5>1. ~ (<<k, first>> \in less) /\ k \in Nat /\ first \in Nat
          BY <4>2, <4>3
        <5>2. ~ (k < first)
          BY <5>1 DEF less
        <5> QED
          BY <5>1, <5>2
      <4> QED
        BY <4>3, <4>4
    <3>2. first - 1 \in 0..Len(calls) /\ ends(first - 1)
      BY <3>1, <1>0
    <3> QED
      BY <3>2
  <2> QED
    BY <2>1, <2>2
<1>2. LeadingReasoning(calls) = CHOOSE n \in 0..Len(calls) : ends(n)
  BY DEF LeadingReasoning
<1> HIDE DEF ends
<1>3. LeadingReasoning(calls) \in 0..Len(calls) /\ ends(LeadingReasoning(calls))
  BY <1>1, <1>2
<1> QED
  BY <1>3 DEF ends

LEMMA Cut ==
  ASSUME NEW S, NEW s \in Seq(S), NEW n \in 0..Len(s)
  PROVE  /\ SubSeq(s, 1, n) \in Seq(S) /\ DOMAIN SubSeq(s, 1, n) = 1..n
         /\ \A k \in 1..n : SubSeq(s, 1, n)[k] = s[k]
         /\ SubSeq(s, n + 1, Len(s)) \in Seq(S)
         /\ DOMAIN SubSeq(s, n + 1, Len(s)) = 1..(Len(s) - n)
         /\ \A k \in 1..(Len(s) - n) : SubSeq(s, n + 1, Len(s))[k] = s[n + k]
  OBVIOUS

LEMMA Rejoined ==
  ASSUME NEW S, NEW s \in Seq(S), NEW n \in 0..Len(s)
  PROVE  s = SubSeq(s, 1, n) \o SubSeq(s, n + 1, Len(s))
<1> DEFINE head == SubSeq(s, 1, n)
           rest == SubSeq(s, n + 1, Len(s))
           size == Len(s)
<1>1. size \in Nat /\ DOMAIN s = 1..size
  OBVIOUS
<1>2. /\ head \in Seq(S) /\ Len(head) = n /\ \A k \in 1..n : head[k] = s[k]
      /\ rest \in Seq(S) /\ Len(rest) = size - n /\ \A k \in 1..(size - n) : rest[k] = s[n + k]
  OBVIOUS
<1> HIDE DEF head, rest, size
<1>3. /\ head \o rest \in Seq(S) /\ Len(head \o rest) = n + (size - n)
      /\ \A k \in 1..n : (head \o rest)[k] = head[k]
      /\ \A k \in 1..(size - n) : (head \o rest)[n + k] = rest[k]
  <2>1. /\ head \o rest \in Seq(S) /\ Len(head \o rest) = Len(head) + Len(rest)
        /\ \A k \in 1..Len(head) : (head \o rest)[k] = head[k]
        /\ \A k \in 1..Len(rest) : (head \o rest)[Len(head) + k] = rest[k]
    <3>1. head \in Seq(S) /\ rest \in Seq(S)
      BY <1>2
    <3> QED
      BY <3>1, JoinedAt
  <2>2. Len(head) = n /\ Len(rest) = size - n
    BY <1>2
  <2>3. ASSUME NEW k \in 1..(size - n) PROVE (head \o rest)[n + k] = rest[k]
    BY <2>1, <2>2
  <2> QED
    BY <2>1, <2>2, <2>3
<1> DEFINE t == head \o rest
<1> HIDE DEF t
<1>4. n \in 0..size /\ n + (size - n) = size
  BY <1>1 DEF size
<1>5. t \in Seq(S) /\ Len(t) = size /\ \A k \in 1..size : t[k] = s[k]
  <2>1. ASSUME NEW k \in 1..size PROVE t[k] = s[k]
    <3>1. CASE k \in 1..n
      BY <1>2, <1>3, <3>1 DEF t
    <3>2. CASE k \notin 1..n
      <4>1. k - n \in 1..(size - n) /\ n + (k - n) = k
        BY <1>1, <1>4, <3>2
      <4> QED
        BY <1>2, <1>3, <4>1 DEF t
    <3> QED
      BY <3>1, <3>2
  <2> QED
    BY <1>3, <1>4, <2>1 DEF t
<1>6. Len(s) = size
  BY DEF size
<1>7. s = t
  BY <1>5, <1>6
<1> QED
  BY <1>7 DEF t, head, rest

\* Reasoning that is put among the calls leaves the calls as they are.
LEMMA CallsMerged ==
  ASSUME NEW calls \in Content, NEW blocks \in Content, calls # <<>>,
         OnlyOf({"reasoning", "tool_use"}, calls), OnlyOf({"reasoning"}, blocks)
  PROVE  LET merged == MergeReasoningBeforeToolUse(calls, blocks)
         IN /\ merged \in Content /\ merged # <<>>
            /\ OnlyOf({"reasoning", "tool_use"}, merged)
            /\ Tagged(merged, "tool_use") = Tagged(calls, "tool_use")
<1> DEFINE n == LeadingReasoning(calls)
           head == SubSeq(calls, 1, n)
           rest == SubSeq(calls, n + 1, Len(calls))
           merged == MergeReasoningBeforeToolUse(calls, blocks)
<1>0. Len(calls) \in Nat /\ DOMAIN calls = 1..Len(calls) /\ Len(calls) # 0
  BY DEF Content, ABlock
<1>1. n \in 0..Len(calls)
  BY LeadingReasoningEnds
<1>2. merged = (head \o blocks) \o rest
  BY DEF MergeReasoningBeforeToolUse
<1> HIDE DEF n
<1>3. /\ head \in Content /\ DOMAIN head = 1..n
      /\ \A k \in 1..n : head[k] = calls[k]
  BY <1>1, Cut DEF Content, ABlock
<1>4. /\ rest \in Content /\ DOMAIN rest = 1..(Len(calls) - n)
      /\ \A k \in 1..(Len(calls) - n) : rest[k] = calls[n + k]
  BY <1>1, Cut DEF Content, ABlock
<1>5. calls = head \o rest
  BY <1>1, Rejoined DEF Content, ABlock
<1> HIDE DEF head, rest, merged
<1>6. OnlyOf({"reasoning", "tool_use"}, head)
  BY <1>0, <1>1, <1>3 DEF OnlyOf
<1>7. OnlyOf({"reasoning", "tool_use"}, rest)
  BY <1>0, <1>1, <1>4 DEF OnlyOf
<1>8. OnlyOf({"reasoning", "tool_use"}, blocks)
  BY DEF OnlyOf
<1>9. head \o blocks \in Content /\ OnlyOf({"reasoning", "tool_use"}, head \o blocks)
  BY <1>3, <1>6, <1>8, OnlyOfAppended
<1>10. merged \in Content /\ OnlyOf({"reasoning", "tool_use"}, merged)
  BY <1>2, <1>4, <1>7, <1>9, OnlyOfAppended
<1>11. Tagged(merged, "tool_use") = Tagged(calls, "tool_use")
  <2>1. Tagged(blocks, "tool_use") = {}
    BY TaggedOther
  <2>2. Tagged(head \o blocks, "tool_use")
          = Tagged(head, "tool_use") \cup Tagged(blocks, "tool_use")
    BY <1>3, TaggedJoined DEF Content, ABlock
  <2>3. Tagged((head \o blocks) \o rest, "tool_use")
          = Tagged(head \o blocks, "tool_use") \cup Tagged(rest, "tool_use")
    <3> DEFINE front == head \o blocks
    <3>1. front \in Seq(ABlock) /\ rest \in Seq(ABlock)
      BY <1>4, <1>9 DEF Content, ABlock
    <3> HIDE DEF front
    <3>2. Tagged(front \o rest, "tool_use") = Tagged(front, "tool_use") \cup Tagged(rest, "tool_use")
      BY <3>1, TaggedJoined
    <3> QED
      BY <3>2 DEF front
  <2>4. Tagged(head \o rest, "tool_use") = Tagged(head, "tool_use") \cup Tagged(rest, "tool_use")
    BY <1>3, <1>4, TaggedJoined DEF Content, ABlock
  <2> QED
    BY <1>2, <1>5, <2>1, <2>2, <2>3, <2>4
<1>12. merged # <<>>
  <2>1. Len(head \o rest) = Len(head) + Len(rest) /\ Len(head) \in Nat /\ Len(rest) \in Nat
    BY <1>3, <1>4, JoinedAt, ElementsOf DEF Content, ABlock
  <2>2. Len(head \o blocks) = Len(head) + Len(blocks) /\ Len(blocks) \in Nat
    BY <1>3, JoinedAt, ElementsOf DEF Content, ABlock
  <2>3. Len((head \o blocks) \o rest) = Len(head \o blocks) + Len(rest)
    BY <1>4, <1>9, JoinedAt DEF Content, ABlock
  <2>4. Len(merged) # 0
    BY <1>0, <1>2, <1>5, <2>1, <2>2, <2>3
  <2> QED
    BY <2>4
<1> QED
  BY <1>10, <1>11, <1>12 DEF merged
-----------------------------------------------------------------------------
(***************************************************************************)
(* Messages seen from their calls and results, and what convertInput has   *)
(* at hand.                                                                *)
(***************************************************************************)

AView == [role : Roles, calls : SUBSET Nat, results : SUBSET Nat]
View(m) ==
    [role |-> m.role,
     calls |-> Tagged(m.content, "tool_use"), results |-> Tagged(m.content, "tool_result")]
Views(messages) == [k \in DOMAIN messages |-> View(messages[k])]

\* Neither calls nor results.
Quiet(v) == v \in AView /\ v.role # "tool" /\ v.calls = {} /\ v.results = {}

TypesOf(role) ==
    CASE role = "user" -> {"text"}
      [] role = "tool" -> {"tool_result"}
      [] role = "assistant" -> {"text", "reasoning", "tool_use"}
Shaped(m) == m.content # <<>> /\ OnlyOf(TypesOf(m.role), m.content)

\* Calls are the assistant's, and results a tool's.
Fit(v) ==
    /\ v \in AView
    /\ v.calls # {} => v.role = "assistant"
    /\ v.results # {} <=> v.role = "tool"

LEMMA ShapedFits ==
  ASSUME NEW m \in AMessage, Shaped(m)
  PROVE  Fit(View(m)) /\ View(m).role = m.role
<1> DEFINE v == View(m)
<1>1. m.role \in Roles /\ m.content \in Content
  BY DEF AMessage
<1>2. v.role = m.role /\ v.calls = Tagged(m.content, "tool_use")
      /\ v.results = Tagged(m.content, "tool_result")
  BY DEF View
<1>3. v \in AView
  BY <1>1, TaggedTyped DEF View, AView
<1>4. v.calls # {} => v.role = "assistant"
  <2>1. CASE m.role = "user"
    BY <1>2, <2>1, TaggedOther DEF Shaped, TypesOf
  <2>2. CASE m.role = "tool"
    BY <1>2, <2>2, TaggedOther DEF Shaped, TypesOf
  <2> QED
    BY <1>1, <1>2, <2>1, <2>2 DEF Roles
<1>5. v.results # {} <=> v.role = "tool"
  <2>1. CASE m.role = "user"
    BY <1>2, <2>1, TaggedOther DEF Shaped, TypesOf
  <2>2. CASE m.role = "tool"
    <3>1. OnlyOf({"tool_result"}, m.content) /\ 1 \in DOMAIN m.content
      BY <1>1, <2>2 DEF Shaped, TypesOf, Content, ABlock
    <3>2. m.content[1].tag \in Tagged(m.content, "tool_result")
      BY <3>1 DEF OnlyOf, Tagged
    <3> QED
      BY <1>2, <2>2, <3>2
  <2>3. CASE m.role = "assistant"
    BY <1>2, <2>3, TaggedOther DEF Shaped, TypesOf
  <2> QED
    BY <1>1, <2>1, <2>2, <2>3 DEF Roles
<1> HIDE DEF v
<1>6. Fit(v) /\ v.role = m.role
  BY <1>2, <1>3, <1>4, <1>5 DEF Fit
<1> QED
  BY <1>6 DEF v

LEMMA ViewsOf ==
  ASSUME NEW messages \in Seq(AMessage)
  PROVE  /\ Views(messages) \in Seq(AView) /\ Len(Views(messages)) = Len(messages)
         /\ \A k \in 1..Len(messages) : Views(messages)[k] = View(messages[k])
<1> DEFINE n == Len(messages)
<1>1. n \in Nat /\ DOMAIN messages = 1..n /\ \A k \in 1..n : messages[k] \in AMessage
  BY ElementsOf
<1>2. ASSUME NEW m \in AMessage PROVE View(m) \in AView
  <2>1. m.role \in Roles /\ m.content \in Content
    BY DEF AMessage
  <2> QED
    BY <2>1, TaggedTyped DEF View, AView
<1>3. Views(messages) = [k \in 1..n |-> View(messages[k])]
  BY <1>1 DEF Views
<1> HIDE DEF n
<1>4. \A k \in 1..n : View(messages[k]) \in AView
  BY <1>1, <1>2
<1>5. Views(messages) \in Seq(AView)
  BY <1>1, <1>3, <1>4
<1>6. Len(Views(messages)) = n
  BY <1>1, <1>3
<1> QED
  BY <1>3, <1>5, <1>6 DEF n

LEMMA ViewsAppended ==
  ASSUME NEW messages \in Seq(AMessage), NEW m \in AMessage
  PROVE  /\ Append(messages, m) \in Seq(AMessage)
         /\ Views(Append(messages, m)) = Append(Views(messages), View(m))
<1> DEFINE n == Len(messages)
           longer == Append(messages, m)
<1>1. n \in Nat /\ longer \in Seq(AMessage) /\ Len(longer) = n + 1
      /\ longer[n + 1] = m /\ \A k \in 1..n : longer[k] = messages[k]
  OBVIOUS
<1> HIDE DEF longer
<1>2. /\ Views(messages) \in Seq(AView) /\ Len(Views(messages)) = n
      /\ \A k \in 1..n : Views(messages)[k] = View(messages[k])
  BY ViewsOf
<1>3. /\ Views(longer) \in Seq(AView) /\ Len(Views(longer)) = n + 1
      /\ \A k \in 1..(n + 1) : Views(longer)[k] = View(longer[k])
  BY <1>1, ViewsOf
<1> HIDE DEF n
<1> DEFINE v == View(m)
<1>4. Views(longer)[n + 1] = v
  BY <1>1, <1>3
<1>5. ASSUME NEW k \in 1..n PROVE Views(longer)[k] = Views(messages)[k]
  BY <1>1, <1>2, <1>3
<1>6. v \in AView
  BY <1>1, <1>3, <1>4
<1> HIDE DEF v
<1> DEFINE a == Views(messages)
           b == Views(longer)
<1>7. a \in Seq(AView) /\ Len(a) = n /\ b \in Seq(AView) /\ Len(b) = n + 1
      /\ b[n + 1] = v /\ \A k \in 1..n : b[k] = a[k]
  BY <1>2, <1>3, <1>4, <1>5
<1> HIDE DEF a, b
<1>8. b = Append(a, v)
  BY <1>1, <1>6, <1>7
<1> QED
  BY <1>1, <1>8 DEF longer, a, b, v

Conv ==
    [messages : Seq(AMessage), system : Content, reasoning : Content, calls : Content,
     room : Nat, sharers : SUBSET Nat]

(***************************************************************************)
(* What every item leaves behind: reasoning and calls do not wait side by  *)
(* side, every message has a content that fits its role, and a message     *)
(* that lies in the array of the waiting reasoning has no calls to lose.   *)
(***************************************************************************)
Tidy(c) ==
    /\ c \in Conv
    /\ OnlyOf({"reasoning"}, c.reasoning)
    /\ OnlyOf({"reasoning", "tool_use"}, c.calls)
    /\ c.reasoning = <<>> \/ c.calls = <<>>
    /\ c.sharers \subseteq DOMAIN c.messages
    /\ \A m \in DOMAIN c.messages : Shaped(c.messages[m])
    /\ \A m \in c.sharers : c.messages[m].role = "assistant" /\ Plain(c.messages[m].content)

Seen(c) == Views(c.messages)

LEMMA NoItemsTidy == Tidy(NoItems) /\ Seen(NoItems) = <<>> /\ NoItems.calls = <<>>
<1>1. NoItems \in Conv
  <2>1. <<>> \in Content /\ <<>> \in Seq(AMessage)
    BY DEF Content, ABlock
  <2> QED
    BY <2>1 DEF NoItems, Conv
<1>2. /\ NoItems.messages = <<>> /\ NoItems.reasoning = <<>> /\ NoItems.calls = <<>>
      /\ NoItems.sharers = {}
  BY DEF NoItems
<1>3. Tidy(NoItems)
  BY <1>1, <1>2 DEF Tidy, OnlyOf
<1>4. Views(<<>>) = <<>>
  <2>1. <<>> \in Seq(AMessage)
    OBVIOUS
  <2>2. Views(<<>>) \in Seq(AView) /\ Len(Views(<<>>)) = 0
    BY <2>1, ViewsOf
  <2> QED
    BY <2>2
<1> QED
  BY <1>2, <1>3, <1>4 DEF Seen

LEMMA AddMessageTidy ==
  ASSUME NEW c, Tidy(c), NEW role \in Roles, NEW content \in Content,
         Shaped(Message(role, content))
  PROVE  LET d == AddMessage(c, role, content)
         IN /\ Tidy(d) /\ d.reasoning = c.reasoning /\ d.calls = c.calls
            /\ Seen(d) = Append(Seen(c), View(Message(role, content)))
<1> DEFINE d == AddMessage(c, role, content)
           m == Message(role, content)
<1>1. m \in AMessage
  BY DEF Message, AMessage
<1>2. c.messages \in Seq(AMessage)
  BY DEF Tidy, Conv
<1> HIDE DEF m
<1>3. d.messages = Append(c.messages, m) /\ d.messages \in Seq(AMessage)
  BY <1>1, <1>2 DEF AddMessage, Tidy, Conv, m
<1>4. d = [c EXCEPT !.messages = d.messages] /\ d \in Conv
  BY <1>3 DEF AddMessage, Tidy, Conv, m
<1>5. /\ d.system = c.system /\ d.reasoning = c.reasoning /\ d.calls = c.calls
      /\ d.room = c.room /\ d.sharers = c.sharers
  BY <1>4 DEF Tidy, Conv
<1>6. \A k \in DOMAIN d.messages :
        \/ k \in DOMAIN c.messages /\ d.messages[k] = c.messages[k]
        \/ d.messages[k] = m
  BY <1>2, <1>3
<1>7. DOMAIN c.messages \subseteq DOMAIN d.messages
  BY <1>2, <1>3
<1>8. \A k \in DOMAIN c.messages : d.messages[k] = c.messages[k]
  BY <1>2, <1>3
<1>9. Seen(d) = Append(Seen(c), View(m))
  BY <1>1, <1>2, <1>3, ViewsAppended DEF Seen
<1>10. Shaped(m)
  BY DEF m
<1> HIDE DEF d
<1>11. Tidy(d)
  BY <1>4, <1>5, <1>6, <1>7, <1>8, <1>10 DEF Tidy
<1> QED
  BY <1>5, <1>9, <1>11 DEF d, m

LEMMA FlushCallsTidy ==
  ASSUME NEW c, Tidy(c)
  PROVE  LET d == FlushCalls(c)
         IN /\ Tidy(d) /\ d.calls = <<>> /\ d.reasoning = c.reasoning
            /\ c.calls = <<>> => d = c
            /\ c.calls # <<>> =>
                 Seen(d) = Append(Seen(c), View(Message("assistant", c.calls)))
<1> DEFINE d == AddMessage(c, "assistant", c.calls)
           e == FlushCalls(c)
<1>1. CASE c.calls = <<>>
  BY <1>1 DEF FlushCalls
<1>2. CASE c.calls # <<>>
  <2>0. Shaped(Message("assistant", c.calls)) /\ c.calls \in Content /\ "assistant" \in Roles
    BY <1>2 DEF Tidy, Conv, Shaped, OnlyOf, TypesOf, Message, Roles
  <2>1. /\ Tidy(d) /\ d.reasoning = c.reasoning
        /\ Seen(d) = Append(Seen(c), View(Message("assistant", c.calls)))
    BY <2>0, AddMessageTidy
  <2>2. e = [d EXCEPT !.calls = <<>>]
    BY <1>2 DEF FlushCalls
  <2> HIDE DEF d, e
  <2>3. d \in Conv /\ <<>> \in Content
    BY <2>1 DEF Tidy, Content, ABlock
  <2>4. /\ e \in Conv /\ e.calls = <<>> /\ e.reasoning = d.reasoning
        /\ e.messages = d.messages /\ e.sharers = d.sharers
    BY <2>2, <2>3 DEF Conv
  <2>5. OnlyOf({"reasoning", "tool_use"}, <<>>)
    BY DEF OnlyOf
  <2>6. Tidy(e) /\ Seen(e) = Seen(d)
    BY <2>1, <2>4, <2>5 DEF Tidy, Seen
  <2> QED
    BY <1>2, <2>1, <2>4, <2>6 DEF e
<1> QED
  BY <1>1, <1>2

LEMMA FlushReasoningTidy ==
  ASSUME NEW c, Tidy(c)
  PROVE  LET d == FlushReasoning(c)
         IN /\ Tidy(d) /\ d.reasoning = <<>> /\ d.calls = c.calls
            /\ c.reasoning = <<>> => d = c
            /\ c.reasoning # <<>> =>
                 \E v : v.role = "assistant" /\ Quiet(v) /\ Seen(d) = Append(Seen(c), v)
<1> DEFINE d == AddMessage(c, "assistant", c.reasoning)
           e == FlushReasoning(c)
<1>1. CASE c.reasoning = <<>>
  BY <1>1 DEF FlushReasoning
<1>2. CASE c.reasoning # <<>>
  <2> DEFINE m == Message("assistant", c.reasoning)
             v == View(m)
  <2>0. Shaped(m) /\ c.reasoning \in Content /\ "assistant" \in Roles
    BY <1>2 DEF Tidy, Conv, Shaped, OnlyOf, TypesOf, Message, Roles
  <2>1. /\ Tidy(d) /\ d.calls = c.calls
        /\ Seen(d) = Append(Seen(c), v)
    BY <2>0, AddMessageTidy
  <2>2. e = [d EXCEPT !.reasoning = <<>>]
    BY <1>2 DEF FlushReasoning
  <2> HIDE DEF d, e
  <2>3. d \in Conv /\ <<>> \in Content
    BY <2>1 DEF Tidy, Content, ABlock
  <2>4. /\ e \in Conv /\ e.reasoning = <<>> /\ e.calls = d.calls
        /\ e.messages = d.messages /\ e.sharers = d.sharers
    BY <2>2, <2>3 DEF Conv
  <2>5. OnlyOf({"reasoning"}, <<>>)
    BY DEF OnlyOf
  <2>6. Tidy(e) /\ Seen(e) = Seen(d)
    BY <2>1, <2>4, <2>5 DEF Tidy, Seen
  <2>7. v.role = "assistant" /\ Quiet(v)
    <3>1. m \in AMessage
      BY <2>0 DEF Message, AMessage
    <3>2. v \in AView /\ v.role = "assistant"
      BY <2>0, <3>1, ShapedFits DEF Fit, Message
    <3>3. Tagged(c.reasoning, "tool_use") = {} /\ Tagged(c.reasoning, "tool_result") = {}
      BY TaggedOther DEF Tidy
    <3> QED
      BY <3>2, <3>3 DEF Quiet, View, Message
  <2> HIDE DEF v
  <2> QED
    BY <1>2, <2>1, <2>4, <2>6, <2>7 DEF e
<1> QED
  BY <1>1, <1>2

\* What is written over a message that has no calls is reasoning or text.
LEMMA OverwrittenTidy ==
  ASSUME NEW c, Tidy(c), NEW n \in Nat, NEW blocks \in Content, Plain(blocks)
  PROVE  LET over == Overwritten(c, n, blocks)
         IN /\ over \in Seq(AMessage) /\ DOMAIN over = DOMAIN c.messages
            /\ \A m \in DOMAIN c.messages : Shaped(over[m])
            /\ \A m \in c.sharers : over[m].role = "assistant" /\ Plain(over[m].content)
            /\ Views(over) = Views(c.messages)
<1> DEFINE written(content) ==
      [k \in DOMAIN content |-> IF k - n \in DOMAIN blocks THEN blocks[k - n] ELSE content[k]]
<1> DEFINE over == Overwritten(c, n, blocks)
<1>1. c.messages \in Seq(AMessage)
  BY DEF Tidy, Conv
<1>2. ASSUME NEW content \in Content, Plain(content)
      PROVE  /\ written(content) \in Content /\ Plain(written(content))
             /\ content # <<>> => written(content) # <<>>
  <2>1. /\ content \in Seq(ABlock) /\ blocks \in Seq(ABlock)
    BY DEF Content, ABlock
  <2>2. \A k \in 1..Len(content) : written(content)[k] \in ABlock
    BY <2>1
  <2>3. written(content) \in Content
    <3> DEFINE w == written(content)
    <3>1. w = [k \in 1..Len(content) |-> w[k]] /\ Len(content) \in Nat
      BY <2>1
    <3>2. \A k \in 1..Len(content) : w[k] \in ABlock
      BY <2>2
    <3> HIDE DEF w
    <3>3. w \in Seq(ABlock)
      BY <3>1, <3>2
    <3> QED
      BY <3>3 DEF w, Content, ABlock
  <2>4. content # <<>> => written(content) # <<>>
    <3>1. DOMAIN written(content) = DOMAIN content
      OBVIOUS
    <3> QED
      BY <2>1, <3>1
  <2> QED
    BY <1>2, <2>3, <2>4 DEF Plain, OnlyOf
<1> HIDE DEF written
<1>3. over = [m \in DOMAIN c.messages |->
                 IF m \in c.sharers
                 THEN [c.messages[m] EXCEPT !.content = written(c.messages[m].content)]
                 ELSE c.messages[m]]
  BY DEF Overwritten, written
<1>4. \A m \in DOMAIN c.messages : c.messages[m] \in AMessage
  BY <1>1
<1>5. ASSUME NEW m \in c.sharers
      PROVE  /\ m \in DOMAIN c.messages
             /\ over[m] \in AMessage
             /\ over[m].role = "assistant" /\ Plain(over[m].content) /\ Shaped(over[m])
             /\ View(over[m]) = View(c.messages[m])
  <2>1. /\ m \in DOMAIN c.messages /\ Plain(c.messages[m].content)
        /\ c.messages[m].role = "assistant" /\ c.messages[m].content # <<>>
    BY DEF Tidy, Shaped
  <2>2. c.messages[m] \in AMessage /\ c.messages[m].content \in Content
    BY <1>4, <2>1 DEF AMessage
  <2>3. /\ written(c.messages[m].content) \in Content
        /\ Plain(written(c.messages[m].content))
        /\ written(c.messages[m].content) # <<>>
    BY <1>2, <2>1, <2>2
  <2>4. /\ over[m] \in AMessage /\ over[m].role = "assistant"
        /\ over[m].content = written(c.messages[m].content)
    BY <1>3, <2>1, <2>2, <2>3 DEF AMessage
  <2>5. Shaped(over[m])
    BY <2>3, <2>4 DEF Shaped, TypesOf, Plain, OnlyOf
  <2>6. View(over[m]) = View(c.messages[m])
    <3>1. ASSUME NEW content, Plain(content)
          PROVE  Tagged(content, "tool_use") = {} /\ Tagged(content, "tool_result") = {}
      BY <3>1, TaggedOther DEF Plain
    <3> QED
      BY <2>1, <2>3, <2>4, <3>1 DEF View
  <2> QED
    BY <2>1, <2>3, <2>4, <2>5, <2>6
<1>6. \A m \in DOMAIN c.messages : over[m] \in AMessage
  BY <1>3, <1>4, <1>5
<1>7. DOMAIN c.messages = 1..Len(c.messages) /\ Len(c.messages) \in Nat
  BY <1>1
<1>8. over \in Seq(AMessage) /\ DOMAIN over = DOMAIN c.messages
  BY <1>3, <1>6, <1>7
<1>9. \A m \in DOMAIN c.messages : Shaped(over[m]) /\ View(over[m]) = View(c.messages[m])
  <2> SUFFICES ASSUME NEW m \in DOMAIN c.messages
               PROVE  Shaped(over[m]) /\ View(over[m]) = View(c.messages[m])
    OBVIOUS
  <2>1. CASE m \in c.sharers
    BY <1>5, <2>1
  <2>2. CASE m \notin c.sharers
    BY <1>3, <2>2 DEF Tidy
  <2> QED
    BY <2>1, <2>2
<1> HIDE DEF over
<1>10. Views(over) = Views(c.messages)
  BY <1>8, <1>9 DEF Views
<1> QED
  BY <1>5, <1>8, <1>9, <1>10 DEF over

LEMMA AppendReasoningTidy ==
  ASSUME NEW c, Tidy(c), c.calls = <<>>, NEW blocks \in Content, OnlyOf({"reasoning"}, blocks)
  PROVE  LET d == AppendReasoning(c, blocks)
         IN Tidy(d) /\ d.calls = <<>> /\ Seen(d) = Seen(c)
<1> DEFINE d == AppendReasoning(c, blocks)
<1>0. c \in Conv /\ c.reasoning \in Content /\ Len(c.reasoning) \in Nat /\ Len(blocks) \in Nat
  BY DEF Tidy, Conv, Content, ABlock
<1>1. c.reasoning \o blocks \in Content /\ OnlyOf({"reasoning"}, c.reasoning \o blocks)
  BY <1>0, OnlyOfAppended DEF Tidy
<1>2. CASE Fits(c, blocks)
  <2> DEFINE over == Overwritten(c, Len(c.reasoning), blocks)
  <2>1. Plain(blocks)
    BY DEF Plain, OnlyOf
  <2>2. /\ over \in Seq(AMessage) /\ DOMAIN over = DOMAIN c.messages
        /\ \A m \in DOMAIN c.messages : Shaped(over[m])
        /\ \A m \in c.sharers : over[m].role = "assistant" /\ Plain(over[m].content)
        /\ Views(over) = Views(c.messages)
    BY <1>0, <2>1, OverwrittenTidy
  <2> HIDE DEF over
  <2>3. d = [c EXCEPT !.messages = over, !.reasoning = @ \o blocks]
    BY <1>2 DEF AppendReasoning, over
  <2> HIDE DEF d
  <2>4. /\ d \in Conv /\ d.messages = over /\ d.reasoning = c.reasoning \o blocks
        /\ d.calls = c.calls /\ d.sharers = c.sharers
    BY <1>0, <1>1, <2>2, <2>3 DEF Conv
  <2>5. Tidy(d)
    BY <1>1, <2>2, <2>4 DEF Tidy
  <2> QED
    BY <2>2, <2>4, <2>5 DEF Seen, d
<1>3. CASE ~ Fits(c, blocks)
  <2> DEFINE room == Grown(c.room, Len(c.reasoning) + Len(blocks))
  <2>1. room \in Nat
    BY <1>0 DEF Grown, Conv
  <2>2. d = [c EXCEPT !.reasoning = @ \o blocks, !.room = room, !.sharers = {}]
    BY <1>3 DEF AppendReasoning
  <2> HIDE DEF room, d
  <2>3. /\ d \in Conv /\ d.messages = c.messages /\ d.reasoning = c.reasoning \o blocks
        /\ d.calls = c.calls /\ d.sharers = {}
    BY <1>0, <1>1, <2>1, <2>2 DEF Conv
  <2>4. Tidy(d)
    BY <1>1, <2>3 DEF Tidy
  <2> QED
    BY <2>3, <2>4 DEF Seen, d
<1> QED
  BY <1>2, <1>3

\* The items of a conversation: no system prompt, nothing empty, a call by itself.
HistoryKinds == {"message", "reasoning", "function_call", "output"}
AnItem ==
    {i \in [kind : HistoryKinds, role : {"user", "assistant", "none"}, tags : Seq(Nat)] :
        i.tags # <<>>}
IsCall(item) == item.kind = "function_call"

LEMMA ItemParts ==
  ASSUME NEW item \in AnItem
  PROVE  /\ item.kind \in HistoryKinds /\ item.role \in {"user", "assistant", "none"}
         /\ item.tags \in Seq(Nat) /\ item.tags # <<>>
  BY DEF AnItem

LEMMA TakeReasoningTidy ==
  ASSUME NEW c, Tidy(c), NEW item \in AnItem
  PROVE  LET d == TakeReasoning(c, item)
         IN /\ Tidy(d) /\ Seen(d) = Seen(c) /\ (d.calls = <<>> <=> c.calls = <<>>)
            /\ Tagged(d.calls, "tool_use") = Tagged(c.calls, "tool_use")
<1> DEFINE blocks == Blocks("reasoning", item.tags)
           d == TakeReasoning(c, item)
<1>1. blocks \in Content /\ OnlyOf({"reasoning"}, blocks)
  BY ItemParts, BlocksTyped DEF BlockTypes
<1> HIDE DEF blocks
<1>2. CASE c.calls = <<>>
  <2>1. d = AppendReasoning(c, blocks)
    BY <1>2 DEF TakeReasoning, blocks
  <2> QED
    BY <1>1, <1>2, <2>1, AppendReasoningTidy
<1>3. CASE c.calls # <<>>
  <2> DEFINE merged == MergeReasoningBeforeToolUse(c.calls, blocks)
  <2>1. c \in Conv /\ c.calls \in Content /\ OnlyOf({"reasoning", "tool_use"}, c.calls)
    BY DEF Tidy, Conv
  <2>2. /\ merged \in Content /\ merged # <<>> /\ OnlyOf({"reasoning", "tool_use"}, merged)
        /\ Tagged(merged, "tool_use") = Tagged(c.calls, "tool_use")
    BY <1>1, <1>3, <2>1, CallsMerged
  <2>3. d = [c EXCEPT !.calls = merged]
    BY <1>3 DEF TakeReasoning, blocks
  <2> HIDE DEF merged, d
  <2>4. /\ d \in Conv /\ d.calls = merged /\ d.messages = c.messages
        /\ d.reasoning = c.reasoning /\ d.sharers = c.sharers
    BY <2>1, <2>2, <2>3 DEF Conv
  <2>5. Tidy(d)
    BY <1>3, <2>2, <2>4 DEF Tidy
  <2> QED
    BY <1>3, <2>2, <2>4, <2>5 DEF Seen, d
<1> QED
  BY <1>2, <1>3

LEMMA TakeCallTidy ==
  ASSUME NEW c, Tidy(c), NEW item \in AnItem
  PROVE  LET d == TakeCall(c, item, FALSE)
         IN /\ Tidy(d) /\ Seen(d) = Seen(c)
            /\ Tagged(d.calls, "tool_use") = Tagged(c.calls, "tool_use") \cup Range(item.tags)
<1> DEFINE uses == Blocks("tool_use", item.tags)
           before == c.calls \o c.reasoning
           calls == before \o uses
           d == TakeCall(c, item, FALSE)
<1>0. /\ c \in Conv /\ c.calls \in Content /\ c.reasoning \in Content
      /\ OnlyOf({"reasoning"}, c.reasoning) /\ OnlyOf({"reasoning", "tool_use"}, c.calls)
  BY DEF Tidy, Conv
<1>1. uses \in Content /\ OnlyOf({"tool_use"}, uses) /\ Tagged(uses, "tool_use") = Range(item.tags)
  BY ItemParts, BlocksTyped, TaggedBlocks DEF BlockTypes
<1>2. WithReasoning(c, item, FALSE) = c
  BY DEF WithReasoning
<1>3. d = [c EXCEPT !.calls = calls, !.reasoning = <<>>]
  BY <1>2 DEF TakeCall
<1> HIDE DEF uses, d
<1>4. before \in Content /\ OnlyOf({"reasoning", "tool_use"}, before)
  <2>1. OnlyOf({"reasoning", "tool_use"}, c.reasoning)
    BY <1>0 DEF OnlyOf
  <2> QED
    BY <1>0, <2>1, OnlyOfAppended
<1>5. Tagged(before, "tool_use") = Tagged(c.calls, "tool_use")
  <2>1. Tagged(c.reasoning, "tool_use") = {}
    BY <1>0, TaggedOther
  <2>2. Tagged(before, "tool_use")
          = Tagged(c.calls, "tool_use") \cup Tagged(c.reasoning, "tool_use")
    BY <1>0, TaggedJoined DEF Content, ABlock
  <2> QED
    BY <2>1, <2>2
<1> HIDE DEF before
<1>6. calls \in Content /\ OnlyOf({"reasoning", "tool_use"}, calls)
  <2>1. OnlyOf({"reasoning", "tool_use"}, uses)
    BY <1>1 DEF OnlyOf
  <2> QED
    BY <1>1, <1>4, <2>1, OnlyOfAppended
<1>7. Tagged(calls, "tool_use") = Tagged(before, "tool_use") \cup Tagged(uses, "tool_use")
  BY <1>1, <1>4, TaggedJoined DEF Content, ABlock
<1> HIDE DEF calls
<1>8. <<>> \in Content /\ OnlyOf({"reasoning"}, <<>>)
  BY DEF Content, OnlyOf, ABlock
<1>9. /\ d \in Conv /\ d.calls = calls /\ d.reasoning = <<>>
      /\ d.messages = c.messages /\ d.sharers = c.sharers
  BY <1>0, <1>3, <1>6, <1>8 DEF Conv
<1>10. Tidy(d)
  BY <1>6, <1>8, <1>9 DEF Tidy
<1> QED
  BY <1>1, <1>5, <1>7, <1>9, <1>10 DEF Seen, d

\* The view of an output, and of the calls that wait.
Result(tags) == [role |-> "tool", calls |-> {}, results |-> Range(tags)]
Waiting(c) == [role |-> "assistant", calls |-> Tagged(c.calls, "tool_use"), results |-> {}]

LEMMA TakeOutputTidy ==
  ASSUME NEW c, Tidy(c), NEW item \in AnItem
  PROVE  LET d == TakeOutput(c, item)
         IN /\ Tidy(d) /\ d.calls = <<>> /\ d.reasoning = <<>>
            /\ c.calls = <<>> /\ c.reasoning = <<>> =>
                 Seen(d) = Append(Seen(c), Result(item.tags))
            /\ c.calls # <<>> =>
                 Seen(d) = Append(Append(Seen(c), Waiting(c)), Result(item.tags))
<1> DEFINE results == Blocks("tool_result", item.tags)
           m == Message("tool", results)
           e == FlushCalls(c)
           f == FlushReasoning(e)
           d == TakeOutput(c, item)
<1>1. /\ results \in Content /\ OnlyOf({"tool_result"}, results)
      /\ Tagged(results, "tool_result") = Range(item.tags)
  BY ItemParts, BlocksTyped, TaggedBlocks DEF BlockTypes
<1>2. results # <<>>
  <2>1. DOMAIN results = DOMAIN item.tags /\ item.tags \in Seq(Nat) /\ item.tags # <<>>
    BY ItemParts DEF Blocks
  <2> QED
    BY <2>1
<1> HIDE DEF results
<1>3. Shaped(m) /\ "tool" \in Roles
  BY <1>1, <1>2 DEF Shaped, TypesOf, Message, Roles
<1>4. View(m) = Result(item.tags)
  <2>1. Tagged(results, "tool_use") = {}
    BY <1>1, TaggedOther
  <2> QED
    BY <1>1, <2>1 DEF View, Message, Result
<1>5. d = AddMessage(f, "tool", results)
  <2>1. ~ (c.calls # <<>> /\ c.reasoning # <<>>)
    BY DEF Tidy
  <2> QED
    BY <2>1, Zenon DEF TakeOutput, results
<1>6. /\ Tidy(e) /\ e.calls = <<>> /\ e.reasoning = c.reasoning
      /\ c.calls = <<>> => e = c
      /\ c.calls # <<>> => Seen(e) = Append(Seen(c), View(Message("assistant", c.calls)))
  BY FlushCallsTidy
<1>7. View(Message("assistant", c.calls)) = Waiting(c)
  <2>1. Tagged(c.calls, "tool_result") = {}
    BY TaggedOther DEF Tidy
  <2> QED
    BY <2>1 DEF View, Message, Waiting
<1> HIDE DEF e
<1>8. /\ Tidy(f) /\ f.reasoning = <<>> /\ f.calls = <<>>
      /\ c.reasoning = <<>> => f = e
  BY <1>6, FlushReasoningTidy
<1> HIDE DEF f, d, m
<1>9. /\ Tidy(d) /\ d.calls = <<>> /\ d.reasoning = <<>>
      /\ Seen(d) = Append(Seen(f), Result(item.tags))
  BY <1>1, <1>3, <1>4, <1>5, <1>8, AddMessageTidy DEF m
<1>10. c.calls # <<>> => c.reasoning = <<>>
  BY DEF Tidy
<1> QED
  BY <1>6, <1>7, <1>8, <1>9, <1>10 DEF d

LEMMA TakeUserTidy ==
  ASSUME NEW c, Tidy(c), NEW item \in AnItem
  PROVE  LET d == TakeUser(c, item)
         IN /\ Tidy(d) /\ d.calls = c.calls
            /\ \E v : v.role = "user" /\ Quiet(v) /\ Seen(d) = Append(Seen(c), v)
<1> DEFINE texts == Blocks("text", item.tags)
           m == Message("user", texts)
           v == View(m)
           d == TakeUser(c, item)
<1>1. texts \in Content /\ OnlyOf({"text"}, texts)
  BY ItemParts, BlocksTyped DEF BlockTypes
<1>2. texts # <<>> /\ item.tags # <<>>
  <2>1. DOMAIN texts = DOMAIN item.tags /\ item.tags \in Seq(Nat) /\ item.tags # <<>>
    BY ItemParts DEF Blocks
  <2> QED
    BY <2>1
<1>3. d = AddMessage(c, "user", texts)
  BY <1>2 DEF TakeUser
<1> HIDE DEF texts, d
<1>4. Shaped(m) /\ "user" \in Roles /\ m \in AMessage /\ m.role = "user" /\ m.content = texts
  BY <1>1, <1>2 DEF Shaped, TypesOf, Message, Roles, AMessage
<1>5. v.role = "user" /\ Quiet(v)
  <2>1. v \in AView /\ v.role = "user"
    BY <1>4, ShapedFits DEF Fit
  <2>2. Tagged(texts, "tool_use") = {} /\ Tagged(texts, "tool_result") = {}
    BY <1>1, TaggedOther
  <2> QED
    BY <1>4, <2>1, <2>2 DEF Quiet, View
<1>6. Tidy(d) /\ d.calls = c.calls /\ Seen(d) = Append(Seen(c), v)
  BY <1>1, <1>3, <1>4, AddMessageTidy
<1> HIDE DEF v
<1> QED
  BY <1>5, <1>6 DEF d

\* The answer becomes a message without calls, in the array of the reasoning or not.
LEMMA TakeAnswerTidy ==
  ASSUME NEW c, Tidy(c), NEW item \in AnItem
  PROVE  LET d == TakeAnswer(c, item)
         IN /\ Tidy(d) /\ d.calls = c.calls
            /\ \E v : v.role = "assistant" /\ Quiet(v) /\ Seen(d) = Append(Seen(c), v)
<1> DEFINE texts == Blocks("text", item.tags)
           content == c.reasoning \o texts
           inPlace == c.reasoning # <<>> /\ Fits(c, texts)
           over == Overwritten(c, Len(c.reasoning), texts)
           before == IF inPlace THEN over ELSE c.messages
           sharers == IF inPlace THEN c.sharers \cup {Len(c.messages) + 1} ELSE c.sharers
           m == Message("assistant", content)
           v == View(m)
           after == Append(before, m)
           e == TakeAnswer(c, item)
<1>0. /\ c \in Conv /\ c.reasoning \in Content /\ c.messages \in Seq(AMessage)
      /\ Len(c.reasoning) \in Nat /\ c.sharers \subseteq DOMAIN c.messages
  BY DEF Tidy, Conv, Content, ABlock
<1>1. /\ texts \in Content /\ Plain(texts) /\ texts # <<>>
  <2>1. texts \in Content /\ OnlyOf({"text"}, texts)
    BY ItemParts, BlocksTyped DEF BlockTypes
  <2>2. DOMAIN texts = DOMAIN item.tags /\ item.tags \in Seq(Nat) /\ item.tags # <<>>
    BY ItemParts DEF Blocks
  <2>3. texts # <<>>
    BY <2>2
  <2> QED
    BY <2>1, <2>3 DEF Plain, OnlyOf
<1> HIDE DEF texts
<1>2. content \in Content /\ Plain(content)
  <2>1. Plain(c.reasoning)
    BY DEF Tidy, Plain, OnlyOf
  <2> QED
    BY <1>0, <1>1, <2>1, OnlyOfAppended DEF Plain
<1>3. content # <<>>
  <2>1. Len(content) = Len(c.reasoning) + Len(texts) /\ Len(texts) \in Nat /\ Len(texts) # 0
    BY <1>0, <1>1 DEF Content, ABlock
  <2> QED
    BY <1>0, <2>1
<1>4. /\ before \in Seq(AMessage) /\ DOMAIN before = DOMAIN c.messages
      /\ \A k \in DOMAIN c.messages : Shaped(before[k])
      /\ \A k \in c.sharers : before[k].role = "assistant" /\ Plain(before[k].content)
      /\ Views(before) = Views(c.messages)
  <2>1. /\ over \in Seq(AMessage) /\ DOMAIN over = DOMAIN c.messages
        /\ \A k \in DOMAIN c.messages : Shaped(over[k])
        /\ \A k \in c.sharers : over[k].role = "assistant" /\ Plain(over[k].content)
        /\ Views(over) = Views(c.messages)
    BY <1>0, <1>1, OverwrittenTidy
  <2> HIDE DEF over
  <2> QED
    BY <1>0, <2>1 DEF Tidy
<1>5. e = [c EXCEPT !.messages = after, !.sharers = sharers, !.reasoning = <<>>]
  BY <1>0, <1>3 DEF TakeAnswer, AddMessage, Conv, texts
<1> HIDE DEF content, over, before, inPlace, e
<1>6. m \in AMessage /\ m.role = "assistant" /\ m.content = content /\ Shaped(m)
  BY <1>2, <1>3 DEF Message, AMessage, Roles, Shaped, TypesOf, Plain, OnlyOf
<1>7. v.role = "assistant" /\ Quiet(v)
  <2>1. v \in AView /\ v.role = "assistant"
    BY <1>6, ShapedFits DEF Fit
  <2>2. Tagged(content, "tool_use") = {} /\ Tagged(content, "tool_result") = {}
    BY <1>2, TaggedOther DEF Plain
  <2> QED
    BY <1>6, <2>1, <2>2 DEF Quiet, View
<1> HIDE DEF m
<1>8. after \in Seq(AMessage) /\ Views(after) = Append(Views(c.messages), v)
  BY <1>4, <1>6, ViewsAppended
<1> DEFINE n == Len(c.messages)
<1>9. n \in Nat /\ DOMAIN c.messages = 1..n /\ Len(before) = n
  BY <1>0, <1>4
<1>10. /\ DOMAIN after = 1..(n + 1) /\ after[n + 1] = m
       /\ \A k \in DOMAIN c.messages : after[k] = before[k]
  BY <1>4, <1>6, <1>9
<1> HIDE DEF after, v
<1>11. sharers \subseteq DOMAIN after /\ sharers \subseteq c.sharers \cup {n + 1}
  BY <1>0, <1>9, <1>10
<1> HIDE DEF n, sharers
<1>12. \A k \in DOMAIN after : Shaped(after[k])
  <2> SUFFICES ASSUME NEW k \in DOMAIN after PROVE Shaped(after[k])
    OBVIOUS
  <2>1. k \in DOMAIN c.messages \/ k = n + 1
    BY <1>9, <1>10
  <2> QED
    BY <1>4, <1>6, <1>10, <2>1
<1>13. \A k \in sharers : after[k].role = "assistant" /\ Plain(after[k].content)
  <2> SUFFICES ASSUME NEW k \in sharers
               PROVE  after[k].role = "assistant" /\ Plain(after[k].content)
    OBVIOUS
  <2>1. k \in c.sharers \/ k = n + 1
    BY <1>11
  <2>2. CASE k \in c.sharers
    BY <1>0, <1>4, <1>10, <2>2
  <2>3. CASE k = n + 1
    BY <1>2, <1>6, <1>10, <2>3
  <2> QED
    BY <2>1, <2>2, <2>3
<1>14. sharers \in SUBSET Nat /\ <<>> \in Content /\ OnlyOf({"reasoning"}, <<>>)
  <2>1. \A k \in 1..(n + 1) : k \in Nat
    BY <1>9
  <2> QED
    BY <1>10, <1>11, <2>1 DEF Content, OnlyOf, ABlock
<1>15. /\ e \in Conv /\ e.messages = after /\ e.reasoning = <<>>
       /\ e.calls = c.calls /\ e.sharers = sharers
  BY <1>0, <1>5, <1>8, <1>14 DEF Conv
<1>16. Tidy(e)
  BY <1>11, <1>12, <1>13, <1>14, <1>15 DEF Tidy
<1> QED
  BY <1>7, <1>8, <1>15, <1>16 DEF Seen, e

LEMMA TakeMessageTidy ==
  ASSUME NEW c, Tidy(c), NEW item \in AnItem
  PROVE  LET d == TakeMessage(c, item)
         IN /\ Tidy(d) /\ d.calls = c.calls
            /\ \E v : /\ Quiet(v) /\ Seen(d) = Append(Seen(c), v)
                      /\ item.role = "user" => v.role = "user"
<1>1. CASE item.role = "assistant"
  <2>1. TakeMessage(c, item) = TakeAnswer(c, item)
    BY <1>1 DEF TakeMessage
  <2> QED
    BY <1>1, <2>1, TakeAnswerTidy
<1>2. CASE item.role # "assistant"
  <2>1. TakeMessage(c, item) = TakeUser(c, item)
    <3>1. item.role # "system"
      BY ItemParts
    <3> QED
      BY <1>2, <3>1 DEF TakeMessage
  <2> QED
    BY <2>1, TakeUserTidy
<1> QED
  BY <1>1, <1>2

LEMMA TakeIs ==
  ASSUME NEW c, NEW item \in AnItem
  PROVE  /\ item.kind = "output" => Take(c, item, FALSE) = TakeOutput(c, item)
         /\ item.kind = "reasoning" => Take(c, item, FALSE) = TakeReasoning(c, item)
         /\ item.kind = "function_call" => Take(c, item, FALSE) = TakeCall(c, item, FALSE)
         /\ item.kind = "message" => Take(c, item, FALSE) = TakeMessage(FlushCalls(c), item)
  BY DEF Take, CallKinds

LEMMA TakeTidy ==
  ASSUME NEW c, Tidy(c), NEW item \in AnItem
  PROVE  Tidy(Take(c, item, FALSE))
<1>1. item.kind \in HistoryKinds
  BY ItemParts
<1>2. CASE item.kind = "output"
  BY <1>2, TakeIs, TakeOutputTidy
<1>3. CASE item.kind = "reasoning"
  BY <1>3, TakeIs, TakeReasoningTidy
<1>4. CASE item.kind = "function_call"
  BY <1>4, TakeIs, TakeCallTidy
<1>5. CASE item.kind = "message"
  <2>1. Take(c, item, FALSE) = TakeMessage(FlushCalls(c), item)
    BY <1>5, TakeIs
  <2>2. Tidy(FlushCalls(c))
    BY FlushCallsTidy
  <2> QED
    BY <2>1, <2>2, TakeMessageTidy
<1> QED
  BY <1>1, <1>2, <1>3, <1>4, <1>5 DEF HistoryKinds
-----------------------------------------------------------------------------
(***************************************************************************)
(* Reading a history.                                                      *)
(***************************************************************************)

TidyConvs == {c \in Conv : Tidy(c)}

\* ReadItems, of any history.
Reading(h) ==
    LET upTo[n \in 0..Len(h)] ==
            IF n = 0 THEN NoItems ELSE Take(upTo[n - 1], h[n], FALSE)
    IN upTo[Len(h)]

LEMMA ReadingSteps ==
  ASSUME NEW h \in Seq(AnItem)
  PROVE  \E f \in [0..Len(h) -> TidyConvs] :
           /\ f[0] = NoItems /\ Reading(h) = f[Len(h)]
           /\ \A k \in 1..Len(h) : f[k] = Take(f[k - 1], h[k], FALSE)
<1> DEFINE n == Len(h)
           D == TidyConvs
           step == [k \in 1..n |-> [c \in D |-> Take(c, h[k], FALSE)]]
           IsUpTo(f) == f = [k \in 0..n |->
              IF k = 0 THEN NoItems ELSE Take(f[k - 1], h[k], FALSE)]
           upTo == CHOOSE f : IsUpTo(f)
<1>1. n \in Nat /\ NoItems \in D
  BY NoItemsTidy DEF Tidy, TidyConvs
<1>2. ASSUME NEW k \in 1..n, NEW c \in D PROVE Take(c, h[k], FALSE) \in D
  <2>1. h[k] \in AnItem
    BY ElementsOf
  <2>2. Tidy(Take(c, h[k], FALSE))
    BY <2>1, TakeTidy DEF TidyConvs
  <2> QED
    BY <2>2 DEF TidyConvs, Tidy
<1>3. step \in [1..n -> [D -> D]]
  <2> HIDE DEF D
  <2> QED
    BY <1>2
<1>4. PICK g \in [0..n -> D] : IsFold(g, NoItems, step, n)
  <2> HIDE DEF D, n, step
  <2> QED
    BY <1>1, <1>3, FoldExists
<1>5. IsUpTo(g)
  <2>1. \A k \in 1..n : step[k][g[k - 1]] = Take(g[k - 1], h[k], FALSE)
    <3>1. \A k \in 1..n : g[k - 1] \in D
      BY <1>1, <1>4
    <3> HIDE DEF D
    <3> QED
      BY <3>1
  <2>2. g = [k \in 0..n |-> IF k = 0 THEN NoItems ELSE step[k][g[k - 1]]]
    BY <1>4 DEF IsFold
  <2> HIDE DEF step, n, D
  <2>3. \A k \in 0..n : k # 0 => k \in 1..n
    BY <1>1
  <2>4. [k \in 0..n |-> IF k = 0 THEN NoItems ELSE step[k][g[k - 1]]]
        = [k \in 0..n |-> IF k = 0 THEN NoItems ELSE Take(g[k - 1], h[k], FALSE)]
    BY <2>1, <2>3
  <2> QED
    BY <2>2, <2>4
<1>6. IsUpTo(upTo)
  <2> HIDE DEF IsUpTo
  <2> QED
    BY <1>5
<1>7. Reading(h) = upTo[n]
  BY DEF Reading
<1> HIDE DEF upTo
<1>8. /\ upTo = [k \in 0..n |-> upTo[k]] /\ upTo[0] = NoItems
      /\ \A k \in 1..n : upTo[k] = Take(upTo[k - 1], h[k], FALSE)
  <2>1. 0 \in 0..n /\ \A k \in 1..n : k \in 0..n /\ k # 0
    BY <1>1
  <2> QED
    BY <1>6, <2>1
<1> HIDE DEF IsUpTo, step, D, n
<1> DEFINE U == {k \in 0..n : upTo[k] \in D}
<1>9. \A k \in 0..n : k \in U
  <2>1. 0 \in U
    BY <1>1, <1>8
  <2>2. ASSUME NEW k \in 1..n, k - 1 \in U PROVE k \in U
    <3>1. upTo[k - 1] \in D /\ h[k] \in AnItem
      BY <1>1, <2>2
    <3>2. k \in 0..n
      BY <1>1
    <3>3. Take(upTo[k - 1], h[k], FALSE) \in D
      BY <1>2, <3>1, Zenon
    <3>4. upTo[k] \in D
      BY <1>8, <3>3, Zenon
    <3> QED
      BY <3>2, <3>4
  <2> HIDE DEF U
  <2> QED
    BY <1>1, <2>1, <2>2, AllUpTo
<1>10. upTo \in [0..n -> D]
  BY <1>8, <1>9
<1> QED
  BY <1>7, <1>8, <1>10 DEF n, D

LEMMA ReadingTidy == ASSUME NEW h \in Seq(AnItem) PROVE Reading(h) \in TidyConvs
<1>1. PICK f \in [0..Len(h) -> TidyConvs] : Reading(h) = f[Len(h)]
  BY ReadingSteps
<1>2. Len(h) \in 0..Len(h)
  OBVIOUS
<1> QED
  BY <1>1, <1>2

\* Two folds of the same steps are the same as far as both go.
LEMMA ReadingAppended ==
  ASSUME NEW h \in Seq(AnItem), NEW item \in AnItem
  PROVE  /\ Reading(h) \in TidyConvs
         /\ Reading(Append(h, item)) = Take(Reading(h), item, FALSE)
<1> DEFINE n == Len(h)
           longer == Append(h, item)
<1>1. /\ n \in Nat /\ longer \in Seq(AnItem) /\ Len(longer) = n + 1
      /\ longer[n + 1] = item /\ \A k \in 1..n : longer[k] = h[k]
  OBVIOUS
<1>2. PICK f \in [0..n -> TidyConvs] :
        /\ f[0] = NoItems /\ Reading(h) = f[n]
        /\ \A k \in 1..n : f[k] = Take(f[k - 1], h[k], FALSE)
  BY ReadingSteps
<1>3. PICK g \in [0..(n + 1) -> TidyConvs] :
        /\ g[0] = NoItems /\ Reading(longer) = g[n + 1]
        /\ \A k \in 1..(n + 1) : g[k] = Take(g[k - 1], longer[k], FALSE)
  <2> HIDE DEF longer
  <2>1. \E g \in [0..Len(longer) -> TidyConvs] :
          /\ g[0] = NoItems /\ Reading(longer) = g[Len(longer)]
          /\ \A k \in 1..Len(longer) : g[k] = Take(g[k - 1], longer[k], FALSE)
    BY <1>1, ReadingSteps
  <2> QED
    BY <1>1, <2>1
<1> HIDE DEF longer, n
<1> DEFINE T == {k \in 0..n : g[k] = f[k]}
<1>4. n \in T
  <2>1. 0 \in T
    BY <1>1, <1>2, <1>3
  <2>2. ASSUME NEW k \in 1..n, k - 1 \in T PROVE k \in T
    <3>1. k \in 1..(n + 1) /\ k \in 0..n /\ longer[k] = h[k] /\ g[k - 1] = f[k - 1]
      BY <1>1, <2>2
    <3> QED
      BY <1>2, <1>3, <3>1
  <2>3. n \in 0..n
    BY <1>1
  <2> HIDE DEF T
  <2> QED
    BY <1>1, <2>1, <2>2, <2>3, AllUpTo
<1>5. n + 1 \in 1..(n + 1) /\ n \in 0..n /\ (n + 1) - 1 = n
  BY <1>1
<1>6. Reading(longer) = Take(g[n], item, FALSE)
  BY <1>1, <1>3, <1>5
<1> QED
  BY <1>2, <1>4, <1>5, <1>6 DEF longer

LEMMA ReadingNothing == Reading(<<>>) = NoItems
<1>1. <<>> \in Seq(AnItem) /\ Len(<<>>) = 0
  OBVIOUS
<1>2. \E f \in [0..Len(<<>>) -> TidyConvs] :
        /\ f[0] = NoItems /\ Reading(<<>>) = f[Len(<<>>)]
        /\ \A k \in 1..Len(<<>>) : f[k] = Take(f[k - 1], <<>>[k], FALSE)
  BY <1>1, ReadingSteps
<1> QED
  BY <1>1, <1>2

LEMMA JoinedAppended ==
  ASSUME NEW S, NEW h \in Seq(S), NEW s \in Seq(S), NEW x \in S
  PROVE  h \o Append(s, x) = Append(h \o s, x)
<1> DEFINE a == Len(h)
           b == Len(s)
           t == Append(s, x)
           u == h \o s
           v == h \o t
           w == Append(u, x)
<1>1. /\ a \in Nat /\ b \in Nat /\ t \in Seq(S) /\ Len(t) = b + 1
      /\ t[b + 1] = x /\ \A k \in 1..b : t[k] = s[k]
  OBVIOUS
<1> HIDE DEF t
<1>2. /\ u \in Seq(S) /\ Len(u) = a + b
      /\ \A k \in 1..a : u[k] = h[k]
      /\ \A k \in 1..b : u[a + k] = s[k]
  BY JoinedAt
<1>3. /\ v \in Seq(S) /\ Len(v) = a + (b + 1)
      /\ \A k \in 1..a : v[k] = h[k]
      /\ \A k \in 1..(b + 1) : v[a + k] = t[k]
  <2>1. t \in Seq(S)
    BY <1>1
  <2>2. /\ v \in Seq(S) /\ Len(v) = Len(h) + Len(t)
        /\ \A k \in 1..Len(h) : v[k] = h[k]
        /\ \A k \in 1..Len(t) : v[Len(h) + k] = t[k]
    BY <2>1, JoinedAt
  <2> HIDE DEF v
  <2>3. Len(h) = a /\ Len(t) = b + 1
    BY <1>1
  <2> QED
    BY <2>2, <2>3, Zenon
<1> HIDE DEF u, v
<1>4. /\ w \in Seq(S) /\ Len(w) = (a + b) + 1
      /\ w[(a + b) + 1] = x /\ \A k \in 1..(a + b) : w[k] = u[k]
  BY <1>2
<1> HIDE DEF w, a, b
<1>5. Len(v) = Len(w)
  BY <1>1, <1>3, <1>4
<1>6. ASSUME NEW k \in 1..Len(w) PROVE v[k] = w[k]
  <2>1. k \in 1..((a + b) + 1)
    BY <1>4
  <2>2. CASE k \in 1..a
    <3>1. k \in 1..(a + b)
      BY <1>1, <2>2
    <3> QED
      BY <1>2, <1>3, <1>4, <2>2, <3>1
  <2>3. CASE k = (a + b) + 1
    <3>1. b + 1 \in 1..(b + 1) /\ a + (b + 1) = k
      BY <1>1, <2>3
    <3> QED
      BY <1>1, <1>3, <1>4, <2>3, <3>1
  <2>4. CASE k \notin 1..a /\ k # (a + b) + 1
    <3>1. k - a \in 1..b /\ k - a \in 1..(b + 1) /\ a + (k - a) = k /\ k \in 1..(a + b)
      BY <1>1, <2>1, <2>4
    <3> QED
      BY <1>1, <1>2, <1>3, <1>4, <3>1
  <2> QED
    BY <2>2, <2>3, <2>4
<1>7. v = w
  BY <1>3, <1>4, <1>5, <1>6
<1> QED
  BY <1>7 DEF u, v, w, t

\* The items that come after a history are read one by one.
LEMMA ReadingJoined ==
  ASSUME NEW h \in Seq(AnItem), NEW items \in Seq(AnItem)
  PROVE  \E f \in [0..Len(items) -> TidyConvs] :
           /\ f[0] = Reading(h) /\ Reading(h \o items) = f[Len(items)]
           /\ h \o items \in Seq(AnItem)
           /\ \A k \in 1..Len(items) : f[k] = Take(f[k - 1], items[k], FALSE)
<1> DEFINE n == Len(items)
           front(k) == h \o SubSeq(items, 1, k)
           f == [k \in 0..n |-> Reading(front(k))]
<1>1. n \in Nat /\ \A k \in 1..n : items[k] \in AnItem
  BY ElementsOf
<1>2. \A k \in 0..n : front(k) \in Seq(AnItem)
  <2> SUFFICES ASSUME NEW k \in 0..n PROVE front(k) \in Seq(AnItem)
    OBVIOUS
  <2>1. SubSeq(items, 1, k) \in Seq(AnItem)
    BY Cut
  <2> QED
    BY <2>1, JoinedAt
<1>3. front(0) = h /\ front(n) = h \o items
  OBVIOUS
<1>4. ASSUME NEW k \in 1..n PROVE front(k) = Append(front(k - 1), items[k])
  <2> DEFINE s == SubSeq(items, 1, k - 1)
             x == items[k]
  <2>1. SubSeq(items, 1, k) = Append(s, x)
    OBVIOUS
  <2>2. s \in Seq(AnItem) /\ x \in AnItem
    BY <1>1
  <2> HIDE DEF s, x
  <2>3. h \o Append(s, x) = Append(h \o s, x)
    <3>1. \A S : \A g, r \in Seq(S) : \A y \in S : g \o Append(r, y) = Append(g \o r, y)
      BY JoinedAppended
    <3>2. \A r \in Seq(AnItem) : \A y \in AnItem : h \o Append(r, y) = Append(h \o r, y)
      BY <3>1
    <3> QED
      BY <2>2, <3>2
  <2> QED
    BY <2>1, <2>3 DEF s, x
<1> HIDE DEF front, n
<1>5. ASSUME NEW k \in 0..n PROVE f[k] \in TidyConvs
  BY <1>2, ReadingTidy
<1>6. ASSUME NEW k \in 1..n PROVE f[k] = Take(f[k - 1], items[k], FALSE)
  <2>1. k \in 0..n /\ k - 1 \in 0..n
    BY <1>1
  <2>2. Reading(Append(front(k - 1), items[k])) = Take(Reading(front(k - 1)), items[k], FALSE)
    BY <1>1, <1>2, <2>1, ReadingAppended
  <2> QED
    BY <1>4, <2>1, <2>2
<1>7. 0 \in 0..n /\ n \in 0..n
  BY <1>1
<1>8. f \in [0..n -> TidyConvs] /\ f[0] = Reading(h) /\ f[n] = Reading(h \o items)
  BY <1>3, <1>5, <1>7
<1>9. h \o items \in Seq(AnItem)
  BY <1>2, <1>3, <1>7
<1> HIDE DEF f
<1> QED
  BY <1>6, <1>8, <1>9 DEF n
-----------------------------------------------------------------------------
(***************************************************************************)
(* Calls and their results. The results of a message's calls are in the    *)
(* tool's messages right behind it.                                        *)
(***************************************************************************)

Run(V, n) == {k \in (n + 1)..Len(V) : \A j \in (n + 1)..k : V[j].role = "tool"}
ResultsOf(V, n) == UNION {V[k].results : k \in Run(V, n)}

\* No call is without its result, and no result without its call.
Paired(V) ==
    /\ V \in Seq(AView)
    /\ \A n \in 1..Len(V) : Fit(V[n])
    /\ \A n \in 1..Len(V) : V[n].calls # {} => ResultsOf(V, n) = V[n].calls
    /\ \A n \in 1..Len(V) : V[n].role = "tool" =>
         \E p \in 1..(n - 1) : V[p].calls # {} /\ n \in Run(V, p)

LEMMA PairedNothing == Paired(<<>>)
  BY DEF Paired

LEMMA QuietFits == ASSUME NEW v, Quiet(v) PROVE Fit(v)
  BY DEF Quiet, Fit

\* A run ends before what is not the tool's.
LEMMA RunKept ==
  ASSUME NEW L \in Nat, NEW V, NEW W, Len(V) = L, Len(W) \in Nat, L <= Len(W),
         \A k \in 1..L : W[k] = V[k],
         L < Len(W) => W[L + 1].role # "tool",
         NEW n \in 1..L
  PROVE  Run(W, n) = Run(V, n) /\ ResultsOf(W, n) = ResultsOf(V, n)
<1>1. ASSUME NEW k \in Run(V, n) PROVE k \in Run(W, n)
  <2>1. k \in (n + 1)..L /\ \A j \in (n + 1)..k : V[j].role = "tool"
    BY DEF Run
  <2>2. k \in (n + 1)..Len(W) /\ \A j \in (n + 1)..k : W[j] = V[j]
    BY <2>1
  <2> QED
    BY <2>1, <2>2 DEF Run
<1>2. ASSUME NEW k \in Run(W, n) PROVE k \in Run(V, n)
  <2>1. k \in (n + 1)..Len(W) /\ \A j \in (n + 1)..k : W[j].role = "tool"
    BY DEF Run
  <2>2. k <= L
    <3> SUFFICES ASSUME k > L PROVE FALSE
      BY <2>1
    <3>1. L + 1 \in (n + 1)..k /\ L < Len(W)
      BY <2>1
    <3> QED
      BY <2>1, <3>1
  <2>3. k \in (n + 1)..L /\ \A j \in (n + 1)..k : W[j] = V[j]
    BY <2>1, <2>2
  <2> QED
    BY <2>1, <2>3 DEF Run
<1>3. Run(W, n) = Run(V, n)
  BY <1>1, <1>2
<1>4. \A k \in Run(V, n) : W[k] = V[k]
  BY DEF Run
<1>5. {W[k].results : k \in Run(W, n)} = {V[k].results : k \in Run(V, n)}
  BY <1>3, <1>4
<1> QED
  BY <1>3, <1>5 DEF ResultsOf

LEMMA PairedQuiet ==
  ASSUME NEW V, Paired(V), NEW v, Quiet(v)
  PROVE  Paired(Append(V, v))
<1> DEFINE L == Len(V)
           W == Append(V, v)
<1>1. v \in AView /\ V \in Seq(AView) /\ L \in Nat
  BY DEF Quiet, Paired
<1>2. /\ W \in Seq(AView) /\ Len(W) = L + 1 /\ W[L + 1] = v
      /\ \A k \in 1..L : W[k] = V[k]
  BY <1>1
<1>3. v.role # "tool" /\ v.calls = {}
  BY DEF Quiet
<1> HIDE DEF W
<1>4. ASSUME NEW n \in 1..L PROVE Run(W, n) = Run(V, n) /\ ResultsOf(W, n) = ResultsOf(V, n)
  <2>1. Len(W) \in Nat /\ L <= Len(W) /\ W[L + 1].role # "tool"
    BY <1>1, <1>2, <1>3
  <2> QED
    BY <1>1, <1>2, <2>1, RunKept
<1> HIDE DEF L
<1>5. \A n \in 1..Len(W) : Fit(W[n])
  <2> SUFFICES ASSUME NEW n \in 1..Len(W) PROVE Fit(W[n])
    OBVIOUS
  <2>1. CASE n = L + 1
    BY <1>2, <2>1, QuietFits
  <2>2. CASE n # L + 1
    BY <1>1, <1>2, <2>2 DEF Paired, L
  <2> QED
    BY <2>1, <2>2
<1>6. \A n \in 1..Len(W) : W[n].calls # {} => ResultsOf(W, n) = W[n].calls
  <2> SUFFICES ASSUME NEW n \in 1..Len(W), W[n].calls # {}
               PROVE  ResultsOf(W, n) = W[n].calls
    OBVIOUS
  <2>1. n \in 1..L /\ W[n] = V[n]
    BY <1>1, <1>2, <1>3
  <2>2. V[n].calls # {} /\ ResultsOf(V, n) = V[n].calls
    BY <2>1 DEF Paired, L
  <2> QED
    BY <1>4, <2>1, <2>2
<1>7. \A n \in 1..Len(W) : W[n].role = "tool" =>
         \E p \in 1..(n - 1) : W[p].calls # {} /\ n \in Run(W, p)
  <2> SUFFICES ASSUME NEW n \in 1..Len(W), W[n].role = "tool"
               PROVE  \E p \in 1..(n - 1) : W[p].calls # {} /\ n \in Run(W, p)
    OBVIOUS
  <2>1. n \in 1..L /\ W[n] = V[n]
    BY <1>1, <1>2, <1>3
  <2>2. PICK p \in 1..(n - 1) : V[p].calls # {} /\ n \in Run(V, p)
    BY <2>1 DEF Paired, L
  <2>3. p \in 1..L
    BY <1>1, <2>1
  <2> QED
    BY <1>2, <1>4, <2>2, <2>3
<1> QED
  BY <1>2, <1>5, <1>6, <1>7 DEF Paired, W

\* Calls, and then just their results.
LEMMA PairedResults ==
  ASSUME NEW V, Paired(V), NEW m \in Nat \ {0}, NEW W \in Seq(AView),
         Len(W) = Len(V) + 1 + m, \A k \in 1..Len(V) : W[k] = V[k],
         W[Len(V) + 1].role = "assistant", W[Len(V) + 1].results = {},
         \A k \in (Len(V) + 2)..Len(W) : Fit(W[k]) /\ W[k].role = "tool",
         UNION {W[k].results : k \in (Len(V) + 2)..Len(W)} = W[Len(V) + 1].calls
  PROVE  Paired(W)
<1> DEFINE L == Len(V)
<1>1. V \in Seq(AView) /\ L \in Nat /\ Len(W) = L + 1 + m
  BY DEF Paired
<1>3. /\ \A k \in 1..L : W[k] = V[k]
      /\ W[L + 1].role = "assistant" /\ W[L + 1].results = {} /\ W[L + 1] \in AView
      /\ \A k \in (L + 2)..Len(W) : Fit(W[k]) /\ W[k].role = "tool"
      /\ UNION {W[k].results : k \in (L + 2)..Len(W)} = W[L + 1].calls
  <2>1. L + 1 \in 1..Len(W)
    BY <1>1
  <2> QED
    BY <2>1
<1>0. Len(V) = L
  OBVIOUS
<1> HIDE DEF L
<1>2. ASSUME NEW n \in 1..L PROVE Run(W, n) = Run(V, n) /\ ResultsOf(W, n) = ResultsOf(V, n)
  <2>1. Len(W) \in Nat /\ L <= Len(W) /\ W[L + 1].role # "tool"
    BY <1>1, <1>3
  <2> QED
    BY <1>0, <1>1, <1>3, <2>1, RunKept
<1>4. Run(W, L + 1) = (L + 2)..Len(W)
  <2>1. (L + 1) + 1 = L + 2
    BY <1>1
  <2>2. \A k \in (L + 2)..Len(W) : \A j \in (L + 2)..k : j \in (L + 2)..Len(W)
    BY <1>1
  <2> QED
    BY <1>3, <2>1, <2>2 DEF Run
<1>5. ResultsOf(W, L + 1) = W[L + 1].calls
  BY <1>3, <1>4 DEF ResultsOf
<1>6. \A n \in 1..Len(W) : Fit(W[n])
  <2> SUFFICES ASSUME NEW n \in 1..Len(W) PROVE Fit(W[n])
    OBVIOUS
  <2>1. n \in 1..L \/ n = L + 1 \/ n \in (L + 2)..Len(W)
    BY <1>1
  <2>2. CASE n \in 1..L
    BY <1>3, <2>2 DEF Paired, L
  <2>3. CASE n = L + 1
    BY <1>3, <2>3 DEF Fit
  <2> QED
    BY <1>3, <2>1, <2>2, <2>3
<1>7. \A n \in 1..Len(W) : W[n].calls # {} => ResultsOf(W, n) = W[n].calls
  <2> SUFFICES ASSUME NEW n \in 1..Len(W), W[n].calls # {}
               PROVE  ResultsOf(W, n) = W[n].calls
    OBVIOUS
  <2>1. n \in 1..L \/ n = L + 1 \/ n \in (L + 2)..Len(W)
    BY <1>1
  <2>2. CASE n \in 1..L
    <3>1. W[n] = V[n] /\ ResultsOf(V, n) = V[n].calls
      BY <1>3, <2>2 DEF Paired, L
    <3> QED
      BY <1>2, <2>2, <3>1 DEF L
  <2>3. CASE n \in (L + 2)..Len(W)
    BY <1>3, <2>3 DEF Fit
  <2> QED
    BY <1>5, <2>1, <2>2, <2>3
<1>8. \A n \in 1..Len(W) : W[n].role = "tool" =>
         \E p \in 1..(n - 1) : W[p].calls # {} /\ n \in Run(W, p)
  <2> SUFFICES ASSUME NEW n \in 1..Len(W), W[n].role = "tool"
               PROVE  \E p \in 1..(n - 1) : W[p].calls # {} /\ n \in Run(W, p)
    OBVIOUS
  <2>1. n \in 1..L \/ n \in (L + 2)..Len(W)
    BY <1>1, <1>3
  <2>2. CASE n \in 1..L
    <3>1. V[n].role = "tool"
      BY <1>3, <2>2
    <3>2. PICK p \in 1..(n - 1) : V[p].calls # {} /\ n \in Run(V, p)
      BY <2>2, <3>1 DEF Paired, L
    <3>3. p \in 1..L
      BY <1>1, <2>2
    <3> QED
      BY <1>2, <1>3, <3>2, <3>3 DEF L
  <2>3. CASE n \in (L + 2)..Len(W)
    <3>1. Fit(W[n]) /\ W[n].results # {}
      BY <1>3, <2>3 DEF Fit
    <3>2. W[L + 1].calls # {}
      <4>1. PICK r : r \in W[n].results
        BY <3>1
      <4>2. r \in UNION {W[k].results : k \in (L + 2)..Len(W)}
        BY <2>3, <4>1
      <4> QED
        BY <1>3, <4>2
    <3>3. L + 1 \in 1..(n - 1)
      BY <1>1, <2>3
    <3> QED
      BY <1>4, <2>3, <3>2, <3>3
  <2> QED
    BY <2>1, <2>2, <2>3
<1> QED
  BY <1>6, <1>7, <1>8 DEF Paired

\* A message of the user, put in before a message that is not the tool's.
LEMMA PairedInserted ==
  ASSUME NEW V, Paired(V), NEW u \in 1..Len(V), V[u].role # "tool",
         NEW W \in Seq(AView), Len(W) = Len(V) + 1, Quiet(W[u]),
         \A k \in 1..(u - 1) : W[k] = V[k], \A k \in u..Len(V) : W[k + 1] = V[k]
  PROVE  Paired(W)
<1> DEFINE L == Len(V)
           to(k) == IF k < u THEN k ELSE k + 1
<1>1. V \in Seq(AView) /\ L \in Nat /\ Len(W) = L + 1 /\ u \in 1..L /\ u \in Nat
  BY DEF Paired
<1> HIDE DEF L
<1>2. \A k \in 1..L : to(k) \in 1..(L + 1) /\ to(k) # u /\ W[to(k)] = V[k]
  BY <1>1 DEF L
<1>3. \A k \in 1..(L + 1) : k = u \/ \E j \in 1..L : k = to(j)
  <2> SUFFICES ASSUME NEW k \in 1..(L + 1), k # u PROVE \E j \in 1..L : k = to(j)
    OBVIOUS
  <2>1. CASE k < u
    BY <1>1, <2>1
  <2>2. CASE k > u
    <3>1. k - 1 \in 1..L /\ k = to(k - 1)
      BY <1>1, <2>2
    <3> QED
      BY <3>1
  <2> QED
    BY <1>1, <2>1, <2>2
<1>4. ASSUME NEW n \in 1..L, NEW k \in 1..L PROVE k \in Run(V, n) <=> to(k) \in Run(W, to(n))
  <2>1. ASSUME k \in Run(V, n) PROVE to(k) \in Run(W, to(n))
    <3>1. k \in (n + 1)..L /\ \A j \in (n + 1)..k : V[j].role = "tool"
      BY <2>1 DEF Run, L
    <3>2. ~ (n + 1 <= u /\ u <= k)
      BY <1>1, <3>1
    <3>3. CASE k < u
      <4>1. to(k) = k /\ to(n) = n /\ \A j \in (n + 1)..k : W[j] = V[j]
        BY <1>1, <1>2, <3>1, <3>3
      <4> QED
        BY <1>1, <3>1, <4>1 DEF Run
    <3>4. CASE u <= n
      <4>1. to(k) = k + 1 /\ to(n) = n + 1
        BY <1>1, <3>1, <3>4
      <4>2. ASSUME NEW j \in (n + 2)..(k + 1) PROVE W[j].role = "tool"
        <5>1. j - 1 \in (n + 1)..k /\ to(j - 1) = j /\ j - 1 \in 1..L
          BY <1>1, <3>1, <3>4
        <5> QED
          BY <1>2, <3>1, <5>1
      <4>3. (n + 1) + 1 = n + 2 /\ k + 1 \in (n + 2)..Len(W)
        BY <1>1, <3>1
      <4> QED
        BY <4>1, <4>2, <4>3 DEF Run
    <3> QED
      BY <1>1, <3>1, <3>2, <3>3, <3>4
  <2>2. ASSUME to(k) \in Run(W, to(n)) PROVE k \in Run(V, n)
    <3>1. to(k) \in (to(n) + 1)..(L + 1) /\ \A j \in (to(n) + 1)..to(k) : W[j].role = "tool"
      BY <1>1, <2>2 DEF Run
    <3>2. n < k
      BY <1>1, <3>1
    <3>3. W[u].role # "tool"
      BY DEF Quiet
    <3>4. ~ (to(n) + 1 <= u /\ u <= to(k))
      BY <1>1, <3>1, <3>3
    <3>5. ASSUME NEW j \in (n + 1)..k PROVE V[j].role = "tool"
      <4>1. j \in 1..L /\ to(j) \in (to(n) + 1)..to(k)
        BY <1>1, <3>4
      <4> QED
        BY <1>2, <3>1, <4>1
    <3> QED
      BY <1>1, <3>2, <3>5 DEF Run, L
  <2> QED
    BY <2>1, <2>2
<1>5. ASSUME NEW n \in 1..L PROVE ResultsOf(W, to(n)) = ResultsOf(V, n)
  <2>1. ASSUME NEW r \in ResultsOf(V, n) PROVE r \in ResultsOf(W, to(n))
    <3>1. PICK k \in Run(V, n) : r \in V[k].results
      BY DEF ResultsOf
    <3>2. k \in 1..L
      BY <1>1 DEF Run, L
    <3> QED
      BY <1>2, <1>4, <3>1, <3>2 DEF ResultsOf
  <2>2. ASSUME NEW r \in ResultsOf(W, to(n)) PROVE r \in ResultsOf(V, n)
    <3>1. PICK k \in Run(W, to(n)) : r \in W[k].results
      BY DEF ResultsOf
    <3>2. k \in 1..(L + 1) /\ k # u
      <4>1. k \in (to(n) + 1)..(L + 1) /\ \A j \in (to(n) + 1)..k : W[j].role = "tool"
        BY <1>1 DEF Run
      <4>2. W[u].role # "tool"
        BY DEF Quiet
      <4>3. to(n) \in 1..(L + 1)
        BY <1>2
      <4> QED
        BY <1>1, <4>1, <4>2, <4>3
    <3>3. PICK j \in 1..L : k = to(j)
      BY <1>3, <3>2
    <3> QED
      BY <1>2, <1>4, <3>1, <3>3 DEF ResultsOf
  <2> QED
    BY <2>1, <2>2
<1> HIDE DEF to
<1>6. \A n \in 1..Len(W) : Fit(W[n])
  <2> SUFFICES ASSUME NEW n \in 1..(L + 1) PROVE Fit(W[n])
    BY <1>1
  <2>1. CASE n = u
    BY <2>1, QuietFits
  <2>2. CASE n # u
    <3>1. PICK j \in 1..L : n = to(j)
      BY <1>3, <2>2
    <3> QED
      BY <1>2, <3>1 DEF Paired, L
  <2> QED
    BY <2>1, <2>2
<1>7. \A n \in 1..Len(W) : W[n].calls # {} => ResultsOf(W, n) = W[n].calls
  <2> SUFFICES ASSUME NEW n \in 1..(L + 1), W[n].calls # {}
               PROVE  ResultsOf(W, n) = W[n].calls
    BY <1>1
  <2>1. n # u
    BY DEF Quiet
  <2>2. PICK j \in 1..L : n = to(j)
    BY <1>3, <2>1
  <2>3. W[n] = V[j] /\ ResultsOf(V, j) = V[j].calls
    BY <1>2, <2>2 DEF Paired, L
  <2> QED
    BY <1>5, <2>2, <2>3
<1>8. \A n \in 1..Len(W) : W[n].role = "tool" =>
         \E p \in 1..(n - 1) : W[p].calls # {} /\ n \in Run(W, p)
  <2> SUFFICES ASSUME NEW n \in 1..(L + 1), W[n].role = "tool"
               PROVE  \E p \in 1..(n - 1) : W[p].calls # {} /\ n \in Run(W, p)
    BY <1>1
  <2>1. n # u
    BY DEF Quiet
  <2>2. PICK j \in 1..L : n = to(j)
    BY <1>3, <2>1
  <2>3. V[j].role = "tool"
    BY <1>2, <2>2
  <2>4. PICK p \in 1..(j - 1) : V[p].calls # {} /\ j \in Run(V, p)
    BY <2>3 DEF Paired, L
  <2>5. p \in 1..L
    BY <1>1
  <2>6. W[to(p)].calls # {} /\ n \in Run(W, to(p))
    BY <1>2, <1>4, <2>2, <2>4, <2>5
  <2>7. to(p) \in 1..(n - 1)
    <3>1. to(p) \in 1..(L + 1) /\ n \in (to(p) + 1)..(L + 1)
      BY <1>1, <1>2, <2>5, <2>6 DEF Run
    <3> QED
      BY <1>1, <3>1
  <2> QED
    BY <2>6, <2>7
<1> QED
  BY <1>6, <1>7, <1>8 DEF Paired

(***************************************************************************)
(* A provider's messages are the core messages in groups, one after the    *)
(* other: message k is in group g[k].                                      *)
(***************************************************************************)

InOrder(g, n, groups) ==
    /\ g \in [1..n -> 1..groups]
    /\ \A i \in 1..n : i > 1 => g[i] = g[i - 1] \/ g[i] = g[i - 1] + 1
    /\ \A i, j \in 1..n : i <= j => g[i] <= g[j]

\* Groups of views, with their calls and their results: results that follow each
\* other are in one group, and no group has both sides' messages.
ViewsGrouped(V, N, g, calls, results) ==
    /\ N \in Nat /\ InOrder(g, Len(V), N)
    /\ \A i, j \in 1..Len(V) :
         g[i] = g[j] => (V[i].role = "assistant" <=> V[j].role = "assistant")
    /\ \A i \in 1..Len(V) :
         i > 1 /\ V[i - 1].role = "tool" /\ V[i].role = "tool" => g[i] = g[i - 1]
    /\ calls \in [1..N -> SUBSET Nat] /\ results \in [1..N -> SUBSET Nat]
    /\ \A j \in 1..N : \A x \in Nat :
         /\ x \in calls[j] <=> \E i \in 1..Len(V) : g[i] = j /\ x \in V[i].calls
         /\ x \in results[j] <=> \E i \in 1..Len(V) : g[i] = j /\ x \in V[i].results

\* A group's calls are followed by the group of just their results.
Answered(N, calls, results) ==
    /\ \A j \in 1..N : calls[j] # {} => j < N /\ results[j + 1] = calls[j]
    /\ \A j \in 1..N : \A r \in results[j] :
         \E k \in 1..(j - 1) : r \in calls[k] /\ k < N /\ r \in results[k + 1]

LEMMA GroupsPaired ==
  ASSUME NEW V, Paired(V), NEW N, NEW g, NEW calls, NEW results,
         ViewsGrouped(V, N, g, calls, results)
  PROVE  Answered(N, calls, results)
<1>a. N \in Nat /\ InOrder(g, Len(V), N)
  BY Zenon DEF ViewsGrouped
<1>b. \A i, j \in 1..Len(V) :
        g[i] = g[j] => (V[i].role = "assistant" <=> V[j].role = "assistant")
  BY Zenon DEF ViewsGrouped
<1>c. \A i \in 1..Len(V) :
        i > 1 /\ V[i - 1].role = "tool" /\ V[i].role = "tool" => g[i] = g[i - 1]
  BY Zenon DEF ViewsGrouped
<1>d. calls \in [1..N -> SUBSET Nat] /\ results \in [1..N -> SUBSET Nat]
  BY Zenon DEF ViewsGrouped
<1>e. \A j \in 1..N : \A x \in Nat :
        /\ x \in calls[j] <=> \E i \in 1..Len(V) : g[i] = j /\ x \in V[i].calls
        /\ x \in results[j] <=> \E i \in 1..Len(V) : g[i] = j /\ x \in V[i].results
  BY Zenon DEF ViewsGrouped
<1> USE <1>a, <1>b, <1>c, <1>d, <1>e
<1> DEFINE L == Len(V)
<1>1. L \in Nat /\ \A n \in 1..L : V[n] \in AView /\ Fit(V[n])
  BY DEF Paired
<1>2. \A n \in 1..L : V[n].calls \in SUBSET Nat /\ V[n].results \in SUBSET Nat
  BY <1>1 DEF AView
<1> HIDE DEF L
\* What has calls is followed by a result, in the next group.
<1>3. ASSUME NEW p \in 1..L, V[p].calls # {}
      PROVE  /\ V[p].role = "assistant"
             /\ p + 1 \in 1..L /\ p + 1 \in Run(V, p) /\ g[p + 1] = g[p] + 1
  <2>1. V[p].role = "assistant"
    BY <1>1, <1>3 DEF Fit
  <2>2. ResultsOf(V, p) # {}
    BY <1>3 DEF Paired, L
  <2>3. PICK k \in Run(V, p) : TRUE
    BY <2>2 DEF ResultsOf
  <2>4. k \in (p + 1)..L /\ \A j \in (p + 1)..k : V[j].role = "tool"
    BY DEF Run, L
  <2>5. p + 1 \in 1..L /\ p + 1 \in (p + 1)..k /\ p + 1 > 1 /\ (p + 1) - 1 = p
    BY <1>1, <2>4
  <2>6. V[p + 1].role = "tool"
    BY <2>4, <2>5
  <2>7. p + 1 \in Run(V, p)
    <3>1. p + 1 \in (p + 1)..L /\ \A j \in (p + 1)..(p + 1) : j = p + 1
      BY <1>1, <2>5
    <3> QED
      BY <2>6, <3>1 DEF Run, L
  <2>8. g[p + 1] # g[p]
    BY <2>1, <2>5, <2>6 DEF L
  <2>9. g[p + 1] = g[p] \/ g[p + 1] = g[p] + 1
    BY <2>5 DEF InOrder, L
  <2> QED
    BY <2>1, <2>5, <2>7, <2>8, <2>9
<1>4. ASSUME NEW p \in 1..L, V[p].calls # {}, NEW i \in Run(V, p) PROVE g[i] = g[p] + 1
  <2>1. i \in (p + 1)..L /\ \A j \in (p + 1)..i : V[j].role = "tool"
    BY DEF Run, L
  <2> DEFINE T == {m \in 0..(i - (p + 1)) : g[p + 1 + m] = g[p] + 1}
  <2>2. i - (p + 1) \in Nat /\ p + 1 + (i - (p + 1)) = i
    BY <1>1, <2>1
  <2>3. 0 \in T
    <3>1. g[p + 1] = g[p] + 1
      BY <1>3, <1>4, Zenon
    <3>2. p + 1 + 0 = p + 1 /\ 0 \in 0..(i - (p + 1))
      BY <1>1, <2>2
    <3> QED
      BY <3>1, <3>2
  <2>4. ASSUME NEW m \in 1..(i - (p + 1)), m - 1 \in T PROVE m \in T
    <3>1. /\ p + 1 + m \in 1..L /\ p + 1 + m > 1 /\ (p + 1 + m) - 1 = p + 1 + (m - 1)
          /\ p + 1 + m \in (p + 1)..i /\ p + 1 + (m - 1) \in (p + 1)..i
      BY <1>1, <2>1, <2>4
    <3>2. g[p + 1 + m] = g[p + 1 + (m - 1)]
      BY <2>1, <3>1 DEF L
    <3> QED
      BY <2>4, <3>2
  <2>5. i - (p + 1) \in 0..(i - (p + 1))
    BY <2>2
  <2> HIDE DEF T
  <2>6. i - (p + 1) \in T
    BY <2>2, <2>3, <2>4, <2>5, AllUpTo
  <2> QED
    BY <2>2, <2>6 DEF T
<1>5. ASSUME NEW p \in 1..L, NEW q \in 1..L, V[p].calls # {}, V[q].calls # {}, g[p] = g[q]
      PROVE  p = q
  <2>1. \A n \in 1..L : g[n] \in Nat
    BY DEF InOrder, L
  <2>2. ASSUME NEW a \in 1..L, NEW b \in 1..L, V[a].calls # {}, g[a] = g[b] PROVE ~ (a < b)
    <3>1. g[a + 1] = g[a] + 1 /\ a + 1 \in 1..L
      BY <1>3, <2>2
    <3>2. a < b => g[a + 1] <= g[b]
      BY <3>1 DEF InOrder, L
    <3> QED
      BY <2>1, <2>2, <3>1, <3>2
  <2>3. ~ (p < q) /\ ~ (q < p)
    BY <1>5, <2>2
  <2> QED
    BY <1>1, <2>3
\* Each result is in the group behind that of its call.
<1>6. ASSUME NEW i \in 1..L, NEW x \in V[i].results
      PROVE  \E p \in 1..L : /\ V[p].calls # {} /\ i \in Run(V, p) /\ g[i] = g[p] + 1
                             /\ x \in V[p].calls
  <2>1. V[i].role = "tool"
    BY <1>1 DEF Fit
  <2>2. PICK p \in 1..(i - 1) : V[p].calls # {} /\ i \in Run(V, p)
    BY <2>1 DEF Paired, L
  <2>3. p \in 1..L
    BY <1>1
  <2>4. x \in ResultsOf(V, p)
    BY <2>2 DEF ResultsOf
  <2>5. ResultsOf(V, p) = V[p].calls
    BY <2>2, <2>3 DEF Paired, L
  <2> QED
    BY <1>4, <2>2, <2>3, <2>4, <2>5
<1>7. ASSUME NEW p \in 1..L, V[p].calls # {}
      PROVE  /\ g[p] \in 1..N /\ g[p] + 1 \in 1..N
             /\ calls[g[p]] = V[p].calls /\ results[g[p] + 1] = V[p].calls
  <2>1. p + 1 \in 1..L /\ g[p + 1] = g[p] + 1
    BY <1>3, <1>7
  <2>2. g[p] \in 1..N /\ g[p] + 1 \in 1..N
    BY <2>1 DEF InOrder, L
  <2>3. calls[g[p]] = V[p].calls
    <3>1. calls[g[p]] \in SUBSET Nat
      BY <2>2
    <3>2. ASSUME NEW x \in calls[g[p]] PROVE x \in V[p].calls
      <4>1. x \in Nat
        BY <3>1
      <4>2. PICK i \in 1..L : g[i] = g[p] /\ x \in V[i].calls
        BY <2>2, <4>1 DEF L
      <4>3. i = p
        BY <1>5, <1>7, <4>2
      <4> QED
        BY <4>2, <4>3
    <3>3. ASSUME NEW x \in V[p].calls PROVE x \in calls[g[p]]
      <4>1. x \in Nat
        BY <1>2
      <4> QED
        BY <2>2, <4>1 DEF L
    <3> QED
      BY <3>2, <3>3
  <2>4. results[g[p] + 1] = V[p].calls
    <3>1. results[g[p] + 1] \in SUBSET Nat
      BY <2>2
    <3>2. ASSUME NEW x \in results[g[p] + 1] PROVE x \in V[p].calls
      <4>1. x \in Nat
        BY <3>1
      <4>2. PICK i \in 1..L : g[i] = g[p] + 1 /\ x \in V[i].results
        BY <2>2, <4>1 DEF L
      <4>3. PICK q \in 1..L : V[q].calls # {} /\ g[i] = g[q] + 1 /\ x \in V[q].calls
        BY <1>6, <4>2
      <4>4. g[q] = g[p]
        <5>1. g[p] \in 1..N /\ g[q] \in 1..N
          BY <1>a, Zenon DEF InOrder, L
        <5>2. g[p] \in Nat /\ g[q] \in Nat
          BY <1>a, <5>1
        <5> QED
          BY <4>2, <4>3, <5>2
      <4>5. q = p
        BY <1>5, <1>7, <4>3, <4>4
      <4> QED
        BY <4>3, <4>5
    <3>3. ASSUME NEW x \in V[p].calls PROVE x \in results[g[p] + 1]
      <4>1. x \in Nat
        BY <1>2
      <4>2. ResultsOf(V, p) = V[p].calls
        BY <1>7 DEF Paired, L
      <4>3. PICK i \in Run(V, p) : x \in V[i].results
        BY <4>2 DEF ResultsOf
      <4>4. i \in 1..L
        BY <1>1 DEF Run, L
      <4>5. g[i] = g[p] + 1
        BY <1>4, <1>7
      <4> QED
        BY <2>2, <4>1, <4>3, <4>4, <4>5 DEF L
    <3> QED
      BY <3>2, <3>3
  <2> QED
    BY <2>2, <2>3, <2>4
<1>8. ASSUME NEW j \in 1..N, calls[j] # {} PROVE j < N /\ results[j + 1] = calls[j]
  <2>1. PICK x \in Nat : x \in calls[j]
    BY <1>8
  <2>2. PICK p \in 1..L : g[p] = j /\ x \in V[p].calls
    BY <2>1 DEF L
  <2>3. g[p] + 1 \in 1..N /\ calls[g[p]] = V[p].calls /\ results[g[p] + 1] = V[p].calls
    BY <1>7, <2>2
  <2> QED
    BY <2>2, <2>3
<1>9. ASSUME NEW j \in 1..N, NEW r \in results[j]
      PROVE  \E k \in 1..(j - 1) : r \in calls[k] /\ k < N /\ r \in results[k + 1]
  <2>1. r \in Nat
    OBVIOUS
  <2>2. PICK i \in 1..L : g[i] = j /\ r \in V[i].results
    BY <2>1 DEF L
  <2>3. PICK p \in 1..L : V[p].calls # {} /\ g[i] = g[p] + 1 /\ r \in V[p].calls
    BY <1>6, <2>2
  <2>4. /\ g[p] \in 1..N /\ g[p] + 1 \in 1..N
        /\ calls[g[p]] = V[p].calls /\ results[g[p] + 1] = V[p].calls
    BY <1>7, <2>3
  <2>5. g[p] \in 1..(j - 1) /\ g[p] < N
    BY <2>2, <2>3, <2>4
  <2> QED
    BY <2>3, <2>4, <2>5
<1> QED
  BY <1>8, <1>9 DEF Answered


MessagesOf(roles) == [role : roles, content : Content]

Joined(out, content) == [out EXCEPT ![Len(out)].content = @ \o content]

LEMMA JoinedIs ==
  ASSUME NEW R,
         NEW out \in Seq(MessagesOf(R)), out # <<>>, NEW content \in Content
  PROVE  LET d == Joined(out, content)
             n == Len(out)
         IN /\ d \in Seq(MessagesOf(R)) /\ Len(d) = n /\ n \in Nat \ {0}
            /\ \A j \in 1..(n - 1) : d[j] = out[j]
            /\ d[n].role = out[n].role /\ d[n].content = out[n].content \o content
<1> DEFINE n == Len(out)
           d == Joined(out, content)
           m == [out[n] EXCEPT !.content = @ \o content]
<1>1. n \in Nat \ {0} /\ DOMAIN out = 1..n /\ \A j \in 1..n : out[j] \in MessagesOf(R)
  <2>1. n \in Nat /\ DOMAIN out = 1..n /\ \A j \in 1..n : out[j] \in MessagesOf(R)
    BY ElementsOf
  <2>2. n # 0
    OBVIOUS
  <2> QED
    BY <2>1, <2>2
<1>2. n \in 1..n /\ out[n].role \in R /\ out[n].content \in Content
  BY <1>1 DEF MessagesOf
<1>3. out[n].content \o content \in Content
  BY <1>2, JoinedAt DEF Content, ABlock
<1>4. m \in MessagesOf(R) /\ m.role = out[n].role /\ m.content = out[n].content \o content
  BY <1>1, <1>2, <1>3 DEF MessagesOf
<1>5. d = [out EXCEPT ![n] = m]
  BY <1>1 DEF Joined
<1> HIDE DEF m, d, n
<1>6. d \in Seq(MessagesOf(R)) /\ Len(d) = n /\ d[n] = m /\ \A j \in 1..(n - 1) : d[j] = out[j]
  <2>1. d = [j \in 1..n |-> IF j = n THEN m ELSE out[j]]
    BY <1>1, <1>5
  <2>2. \A j \in 1..n : d[j] \in MessagesOf(R)
    BY <1>1, <1>4, <2>1
  <2>3. d = [j \in 1..n |-> d[j]]
    BY <2>1
  <2>4. d \in Seq(MessagesOf(R)) /\ Len(d) = n
    BY <1>1, <2>2, <2>3
  <2>5. d[n] = m /\ \A j \in 1..(n - 1) : d[j] = out[j]
    BY <1>1, <2>1
  <2> QED
    BY <2>4, <2>5
<1> QED
  BY <1>1, <1>4, <1>6 DEF d, n

\* The groups of the messages that are joined one by one to what there is, or put
\* behind it.
GroupedBy(new, out, g) ==
    /\ InOrder(g, Len(new), Len(out))
    /\ \A i \in 1..Len(new) : out[g[i]].role = new[i].role
    /\ \A j \in 1..Len(out) : out[j].content # <<>>
    /\ \A j \in 1..Len(out) : \A type \in BlockTypes : \A x \in Nat :
         x \in Tagged(out[j].content, type)
           <=> \E i \in 1..Len(new) : g[i] = j /\ x \in Tagged(new[i].content, type)

\* What is known of the groups of the first k messages.
GroupedTo(new, f, k) ==
    /\ k > 0 => f[k] # <<>> /\ (Len(f[k]) = Len(f[k - 1]) \/ Len(f[k]) = Len(f[k - 1]) + 1)
    /\ \A i \in 1..k : Len(f[i]) \in 1..Len(f[k]) /\ f[k][Len(f[i])].role = new[i].role
    /\ \A j \in 1..Len(f[k]) : f[k][j].content # <<>>
    /\ \A j \in 1..Len(f[k]) : \A type \in BlockTypes : \A x \in Nat :
         x \in Tagged(f[k][j].content, type)
           <=> \E i \in 1..k : Len(f[i]) = j /\ x \in Tagged(new[i].content, type)

LEMMA GroupedNext ==
  ASSUME NEW R,
         NEW n \in Nat, NEW new \in [1..n -> MessagesOf(R)], \A k \in 1..n : new[k].content # <<>>,
         NEW f \in [0..n -> Seq(MessagesOf(R))], NEW k \in 1..n, GroupedTo(new, f, k - 1),
         \/ f[k] = Append(f[k - 1], new[k])
         \/ /\ f[k - 1] # <<>> /\ Last(f[k - 1]).role = new[k].role
            /\ f[k] = Joined(f[k - 1], new[k].content)
  PROVE  GroupedTo(new, f, k)
<1> DEFINE a == f[k - 1]
           b == f[k]
           m == new[k]
           q == Len(b)
           p == Len(a)
<1>1. /\ k - 1 \in 0..n /\ k \in 0..n /\ k \in Nat /\ k - 1 \in Nat
      /\ a \in Seq(MessagesOf(R)) /\ b \in Seq(MessagesOf(R)) /\ m \in MessagesOf(R) /\ m.content # <<>>
  <2>1. k - 1 \in 0..n /\ k \in 0..n /\ k \in Nat /\ k - 1 \in Nat
    OBVIOUS
  <2>2. m \in MessagesOf(R) /\ m.content # <<>>
    OBVIOUS
  <2> DEFINE outs == Seq(MessagesOf(R))
  <2> HIDE DEF outs
  <2>3. f \in [0..n -> outs]
    BY DEF outs
  <2>4. a \in outs /\ b \in outs
    BY <2>1, <2>3
  <2> QED
    BY <2>1, <2>2, <2>4 DEF outs
<1>2. p \in Nat /\ q \in Nat /\ m.role \in R /\ m.content \in Content
  BY <1>1 DEF MessagesOf
<1>3. /\ k - 1 > 0 => a # <<>>
      /\ \A i \in 1..(k - 1) : Len(f[i]) \in 1..p /\ a[Len(f[i])].role = new[i].role
      /\ \A j \in 1..p : a[j].content # <<>>
      /\ \A j \in 1..p : \A type \in BlockTypes : \A x \in Nat :
           x \in Tagged(a[j].content, type)
             <=> \E i \in 1..(k - 1) : Len(f[i]) = j /\ x \in Tagged(new[i].content, type)
  BY DEF GroupedTo
<1>4. b = Append(a, m)
      \/ (a # <<>> /\ Last(a).role = m.role /\ b = Joined(a, m.content))
  OBVIOUS
<1>5. /\ \A i \in 1..k : i = k \/ i \in 1..(k - 1)
      /\ \A i \in 1..(k - 1) : i \in 1..k
      /\ k \in 1..k
  BY <1>1
<1>6. Len(f[k]) = q /\ new[k] = m
  OBVIOUS
<1> SUFFICES /\ b # <<>> /\ q \in 1..q /\ b[q].role = m.role
             /\ q = p \/ q = p + 1
             /\ \A i \in 1..(k - 1) : Len(f[i]) \in 1..q /\ b[Len(f[i])].role = new[i].role
             /\ \A j \in 1..q : b[j].content # <<>>
             /\ \A j \in 1..q : \A type \in BlockTypes : \A x \in Nat :
                  x \in Tagged(b[j].content, type)
                    <=> \/ j = q /\ x \in Tagged(m.content, type)
                        \/ \E i \in 1..(k - 1) : Len(f[i]) = j /\ x \in Tagged(new[i].content, type)
  <2> HIDE DEF a, b, m, p, q
  <2>1. \A i \in 1..k : Len(f[i]) \in 1..q /\ b[Len(f[i])].role = new[i].role
    BY <1>5, <1>6
  <2>2. \A j \in 1..q : \A type \in BlockTypes : \A x \in Nat :
         x \in Tagged(b[j].content, type)
           <=> \E i \in 1..k : Len(f[i]) = j /\ x \in Tagged(new[i].content, type)
    <3> SUFFICES ASSUME NEW j \in 1..q, NEW type \in BlockTypes, NEW x \in Nat
                 PROVE  (\/ j = q /\ x \in Tagged(m.content, type)
                         \/ \E i \in 1..(k - 1) : Len(f[i]) = j /\ x \in Tagged(new[i].content, type))
                        <=> \E i \in 1..k : Len(f[i]) = j /\ x \in Tagged(new[i].content, type)
      OBVIOUS
    <3> QED
      BY <1>5, <1>6
  <2>3. f[k] = b /\ Len(f[k]) = q /\ Len(f[k - 1]) = p
    BY DEF b, q, a, p
  <2> QED
    BY <2>1, <2>2, <2>3 DEF GroupedTo
<1> HIDE DEF a, b, m, p, q
<1>7. CASE b = Append(a, m)
  <2>1. q = p + 1 /\ b[q] = m /\ \A j \in 1..p : b[j] = a[j]
    BY <1>1, <1>7 DEF p, q
  <2>2. \A i \in 1..(k - 1) : Len(f[i]) \in 1..p /\ Len(f[i]) # q
    BY <1>2, <1>3, <2>1
  <2>3. \A j \in 1..q : j = q \/ j \in 1..p
    BY <1>2, <2>1
  <2>4. ASSUME NEW i \in 1..(k - 1)
        PROVE  Len(f[i]) \in 1..q /\ b[Len(f[i])].role = new[i].role
    <3>1. Len(f[i]) \in 1..p /\ a[Len(f[i])].role = new[i].role
      BY <1>3
    <3> DEFINE l == Len(f[i])
    <3> HIDE DEF l
    <3>2. l \in 1..p
      BY <3>1 DEF l
    <3>3. b[l] = a[l] /\ l \in 1..q
      BY <1>2, <2>1, <3>2
    <3> QED
      BY <3>1, <3>3 DEF l
  <2>5. \A j \in 1..q : b[j].content # <<>>
    BY <1>1, <1>3, <2>1, <2>3
  <2>6. ASSUME NEW j \in 1..q, NEW type \in BlockTypes, NEW x \in Nat
        PROVE  x \in Tagged(b[j].content, type)
                 <=> \/ j = q /\ x \in Tagged(m.content, type)
                     \/ \E i \in 1..(k - 1) : Len(f[i]) = j /\ x \in Tagged(new[i].content, type)
    <3>1. CASE j = q
      BY <2>1, <2>2, <3>1
    <3>2. CASE j # q
      <4>1. j \in 1..p /\ b[j] = a[j]
        BY <2>1, <2>3, <3>2
      <4> QED
        BY <1>3, <3>2, <4>1
    <3> QED
      BY <3>1, <3>2
  <2>7. q \in 1..q /\ b # <<>>
    BY <1>1, <1>2, <2>1 DEF q
  <2> QED
    BY <2>1, <2>4, <2>5, <2>6, <2>7
<1>8. CASE a # <<>> /\ Last(a).role = m.role /\ b = Joined(a, m.content)
  <2>1. /\ q = p /\ p \in Nat \ {0} /\ \A j \in 1..(p - 1) : b[j] = a[j]
        /\ b[p].role = a[p].role /\ b[p].content = a[p].content \o m.content
    <3>1. /\ b \in Seq(MessagesOf(R)) /\ Len(b) = Len(a) /\ Len(a) \in Nat \ {0}
          /\ \A j \in 1..(Len(a) - 1) : b[j] = a[j]
          /\ b[Len(a)].role = a[Len(a)].role
          /\ b[Len(a)].content = a[Len(a)].content \o m.content
      <4> DEFINE content == m.content
      <4>1. a \in Seq(MessagesOf(R)) /\ a # <<>> /\ content \in Content /\ b = Joined(a, content)
        BY <1>1, <1>2, <1>8
      <4> HIDE DEF content
      <4>2. /\ Joined(a, content) \in Seq(MessagesOf(R)) /\ Len(Joined(a, content)) = Len(a)
            /\ Len(a) \in Nat \ {0}
            /\ \A j \in 1..(Len(a) - 1) : Joined(a, content)[j] = a[j]
            /\ Joined(a, content)[Len(a)].role = a[Len(a)].role
            /\ Joined(a, content)[Len(a)].content = a[Len(a)].content \o content
        BY <4>1, JoinedIs
      <4> QED
        BY <4>1, <4>2 DEF content
    <3> QED
      BY <3>1, Zenon DEF p, q
  <2>2. a[p].role = m.role
    BY <1>8 DEF Last, p
  <2>3. \A j \in 1..p : j = p \/ j \in 1..(p - 1)
    BY <2>1
  <2>4. \A j \in 1..p : b[j].role = a[j].role
    BY <2>1, <2>3
  <2>5. ASSUME NEW i \in 1..(k - 1)
        PROVE  Len(f[i]) \in 1..q /\ b[Len(f[i])].role = new[i].role
    <3> DEFINE j == Len(f[i])
    <3>1. j \in 1..p /\ a[j].role = new[i].role
      BY <1>3
    <3> HIDE DEF j
    <3>2. q = p
      BY <2>1
    <3>3. b[j].role = a[j].role
      BY <2>4, <3>1
    <3>4. j \in 1..q /\ b[j].role = new[i].role
      BY <3>1, <3>2, <3>3
    <3> QED
      BY <3>4 DEF j
  <2>6. a[p].content \in Content /\ p \in 1..p
    <3>1. p \in 1..p
      BY <2>1
    <3>2. a \in Seq(MessagesOf(R))
      BY <1>1
    <3>3. a[p] \in MessagesOf(R)
      BY <3>1, <3>2, ElementsOf DEF p
    <3> QED
      BY <3>1, <3>3 DEF MessagesOf
  <2>7. \A j \in 1..q : b[j].content # <<>>
    <3>1. b[p].content # <<>>
      <4> DEFINE s == a[p].content
                 t == m.content
      <4>1. s \in Content /\ t \in Content /\ t # <<>>
        BY <1>1, <1>2, <2>6
      <4> HIDE DEF s, t
      <4>2. Len(s \o t) = Len(s) + Len(t) /\ Len(s) \in Nat /\ Len(t) \in Nat /\ Len(t) # 0
        BY <4>1 DEF Content, ABlock
      <4>3. s \o t # <<>>
        BY <4>2
      <4> QED
        BY <2>1, <4>3 DEF s, t
    <3> QED
      BY <1>3, <2>1, <2>3, <3>1
  <2>8. ASSUME NEW j \in 1..q, NEW type \in BlockTypes, NEW x \in Nat
        PROVE  x \in Tagged(b[j].content, type)
                 <=> \/ j = q /\ x \in Tagged(m.content, type)
                     \/ \E i \in 1..(k - 1) : Len(f[i]) = j /\ x \in Tagged(new[i].content, type)
    <3>1. CASE j = q
      <4>1. Tagged(a[p].content \o m.content, type)
              = Tagged(a[p].content, type) \cup Tagged(m.content, type)
        BY <1>2, <2>6, TaggedJoined DEF Content, ABlock
      <4>2. Tagged(b[j].content, type) = Tagged(a[j].content, type) \cup Tagged(m.content, type)
        BY <2>1, <3>1, <4>1
      <4>3. j \in 1..p
        BY <2>1
      <4> QED
        BY <1>3, <3>1, <4>2, <4>3
    <3>2. CASE j # q
      <4>1. j \in 1..p /\ b[j] = a[j]
        BY <2>1, <2>3, <3>2
      <4> QED
        BY <1>3, <3>2, <4>1
    <3> QED
      BY <3>1, <3>2
  <2>9. q \in 1..q /\ b # <<>>
    BY <1>1, <2>1 DEF q
  <2> QED
    BY <2>1, <2>2, <2>5, <2>7, <2>8, <2>9
<1> QED
  BY <1>4, <1>7, <1>8

\* The steps of a grouping, and what they come to.
Building(R, n, new, f) ==
    /\ n \in Nat /\ new \in [1..n -> MessagesOf(R)] /\ Len(new) = n
    /\ \A k \in 1..n : new[k].content # <<>>
    /\ f \in [0..n -> Seq(MessagesOf(R))] /\ f[0] = <<>>
    /\ \A k \in 1..n :
         \/ f[k] = Append(f[k - 1], new[k])
         \/ /\ f[k - 1] # <<>> /\ Last(f[k - 1]).role = new[k].role
            /\ f[k] = Joined(f[k - 1], new[k].content)
Gathered(n, new, f) ==
    /\ GroupedBy(new, f[n], [k \in 1..n |-> Len(f[k])])
    /\ \A k \in 1..n : f[k] # <<>> /\ Last(f[k]).role = new[k].role

LEMMA Grouped ==
  ASSUME NEW R, NEW n, NEW new, NEW f, Building(R, n, new, f)
  PROVE  Gathered(n, new, f)
<1>a. n \in Nat /\ new \in [1..n -> MessagesOf(R)] /\ Len(new) = n
  BY Zenon DEF Building
<1>b. f \in [0..n -> Seq(MessagesOf(R))] /\ f[0] = <<>>
  BY Zenon DEF Building
<1>c. \A k \in 1..n : new[k].content # <<>>
  BY Zenon DEF Building
<1>d. \A k \in 1..n :
         \/ f[k] = Append(f[k - 1], new[k])
         \/ /\ f[k - 1] # <<>> /\ Last(f[k - 1]).role = new[k].role
            /\ f[k] = Joined(f[k - 1], new[k].content)
  BY Zenon DEF Building
<1> USE <1>a, <1>b, <1>c, <1>d
<1> DEFINE T == {k \in 0..n : GroupedTo(new, f, k)}
           g == [k \in 1..n |-> Len(f[k])]
<1>1. 0 \in T
  <2>1. GroupedTo(new, f, 0)
    BY DEF GroupedTo
  <2> QED
    BY <2>1
<1>0. ASSUME NEW k \in 1..n, GroupedTo(new, f, k - 1) PROVE GroupedTo(new, f, k)
  <2>1. \/ f[k] = Append(f[k - 1], new[k])
        \/ /\ f[k - 1] # <<>> /\ Last(f[k - 1]).role = new[k].role
           /\ f[k] = Joined(f[k - 1], new[k].content)
    OBVIOUS
  <2> QED
    BY <1>0, <2>1, GroupedNext
<1>2. ASSUME NEW k \in 1..n, k - 1 \in T PROVE k \in T
  BY <1>0, <1>2
<1> HIDE DEF T
<1>3. \A k \in 0..n : k \in T
  BY <1>1, <1>2, AllUpTo
<1>4. \A k \in 0..n : GroupedTo(new, f, k)
  BY <1>3 DEF T
<1>5. ASSUME NEW k \in 1..n PROVE Len(f[k]) = Len(f[k - 1]) \/ Len(f[k]) = Len(f[k - 1]) + 1
  <2>0. k \in 0..n /\ k > 0
    OBVIOUS
  <2>1. GroupedTo(new, f, k)
    BY <1>4, <2>0, Zenon
  <2> QED
    BY <2>0, <2>1 DEF GroupedTo
<1>6. \A k \in 1..n : g[k] = Len(f[k])
  OBVIOUS
<1>7. InOrder(g, n, Len(f[n]))
  <2>1. n \in 0..n
    OBVIOUS
  <2>2. \A i \in 1..n : Len(f[i]) \in 1..Len(f[n])
    BY <1>4, <2>1 DEF GroupedTo
  <2>3. g \in [1..n -> 1..Len(f[n])]
    BY <2>2
  <2>4. ASSUME NEW i \in 1..n, NEW j \in 1..n, i <= j PROVE g[i] <= g[j]
    <3>1. GroupedTo(new, f, j) /\ i \in 1..j
      BY <1>4, <2>4
    <3>2. Len(f[i]) \in 1..Len(f[j])
      BY <3>1 DEF GroupedTo
    <3> QED
      BY <3>2
  <2>5. ASSUME NEW i \in 1..n, i > 1 PROVE g[i] = g[i - 1] \/ g[i] = g[i - 1] + 1
    <3>1. i - 1 \in 1..n
      BY <2>5
    <3> QED
      BY <1>5, <1>6, <3>1
  <2> HIDE DEF g
  <2> QED
    BY <2>3, <2>4, <2>5 DEF InOrder
<1>8. GroupedTo(new, f, n) /\ n \in 0..n
  BY <1>4
<1> HIDE DEF g
<1>9. GroupedBy(new, f[n], g)
  <2>1. \A i \in 1..n : f[n][g[i]].role = new[i].role
    BY <1>6, <1>8 DEF GroupedTo
  <2>2. \A j \in 1..Len(f[n]) : \A type \in BlockTypes : \A x \in Nat :
         x \in Tagged(f[n][j].content, type)
           <=> \E i \in 1..n : g[i] = j /\ x \in Tagged(new[i].content, type)
    <3> SUFFICES ASSUME NEW j \in 1..Len(f[n]), NEW type \in BlockTypes, NEW x \in Nat
                 PROVE  x \in Tagged(f[n][j].content, type)
                          <=> \E i \in 1..n : g[i] = j /\ x \in Tagged(new[i].content, type)
      OBVIOUS
    <3>1. x \in Tagged(f[n][j].content, type)
            <=> \E i \in 1..n : Len(f[i]) = j /\ x \in Tagged(new[i].content, type)
      BY <1>8 DEF GroupedTo
    <3> QED
      BY <1>6, <3>1
  <2>3. \A j \in 1..Len(f[n]) : f[n][j].content # <<>>
    BY <1>8 DEF GroupedTo
  <2> QED
    BY <1>7, <2>1, <2>2, <2>3 DEF GroupedBy
<1>10. ASSUME NEW k \in 1..n PROVE f[k] # <<>> /\ Last(f[k]).role = new[k].role
  <2>0. k \in 0..n /\ k \in 1..k /\ k > 0
    OBVIOUS
  <2>1. GroupedTo(new, f, k)
    BY <1>4, <2>0, Zenon
  <2> QED
    BY <2>0, <2>1 DEF GroupedTo, Last
<1> QED
  BY <1>9, <1>10, Zenon DEF g, Gathered
-----------------------------------------------------------------------------
(***************************************************************************)
(* The messages for Anthropic and Gemini as groups of the core messages.   *)
(***************************************************************************)

ForAnthropic(m) == Message(AnthropicRole(m.role), m.content)
ForGemini(m) == Message(GeminiRole(m.role), GeminiParts(m.content))
AnthropicMessages == MessagesOf({"user", "assistant"})
GeminiMessages == MessagesOf({"user", "model"})

LEMMA AddToAnthropicIs ==
  ASSUME NEW out \in Seq(AnthropicMessages), NEW m \in AMessage
  PROVE  /\ ForAnthropic(m) \in AnthropicMessages
         /\ AddToAnthropic(out, m) \in Seq(AnthropicMessages)
         /\ AddToAnthropic(out, m)
              = IF /\ out # <<>> /\ AnthropicRole(m.role) = "user" /\ Last(out).role = "user"
                   /\ ResultsOnly(ForAnthropic(m)) /\ ResultsOnly(Last(out))
                THEN Joined(out, m.content) ELSE Append(out, ForAnthropic(m))
<1> DEFINE new == ForAnthropic(m)
           d == AddToAnthropic(out, m)
           joins == /\ out # <<>> /\ AnthropicRole(m.role) = "user" /\ Last(out).role = "user"
                    /\ ResultsOnly(new) /\ ResultsOnly(Last(out))
<1>1. m.role \in Roles /\ m.content \in Content
  BY DEF AMessage
<1>2. /\ new \in AnthropicMessages /\ new.role = AnthropicRole(m.role)
      /\ new.content = m.content
  BY <1>1 DEF ForAnthropic, Message, AnthropicMessages, MessagesOf, AnthropicRole, Roles
<1>3. d = IF joins THEN Joined(out, m.content) ELSE Append(out, new)
  BY <1>2 DEF AddToAnthropic, Joined, ForAnthropic
<1>4. ASSUME joins PROVE Joined(out, m.content) \in Seq(AnthropicMessages)
  <2>1. out # <<>>
    BY <1>4
  <2> QED
    BY <1>1, <2>1, JoinedIs DEF AnthropicMessages
<1>5. Append(out, new) \in Seq(AnthropicMessages)
  BY <1>2
<1> HIDE DEF new, joins, d
<1>6. d \in Seq(AnthropicMessages)
  BY <1>3, <1>4, <1>5
<1> QED
  BY <1>2, <1>3, <1>6 DEF new, joins, d

LEMMA AnthropicSteps ==
  ASSUME NEW messages \in Seq(AMessage)
  PROVE  \E f \in [0..Len(messages) -> Seq(AnthropicMessages)] :
           /\ f[0] = <<>> /\ ToAnthropic(messages) = f[Len(messages)]
           /\ \A k \in 1..Len(messages) : f[k] = AddToAnthropic(f[k - 1], messages[k])
<1> DEFINE n == Len(messages)
           D == Seq(AnthropicMessages)
           step == [k \in 1..n |-> [c \in D |-> AddToAnthropic(c, messages[k])]]
           IsUpTo(f) == f = [k \in 0..n |->
              IF k = 0 THEN <<>> ELSE AddToAnthropic(f[k - 1], messages[k])]
           upTo == CHOOSE f : IsUpTo(f)
<1>1. n \in Nat /\ <<>> \in D
  OBVIOUS
<1>2. ASSUME NEW k \in 1..n, NEW c \in D PROVE AddToAnthropic(c, messages[k]) \in D
  <2>1. messages[k] \in AMessage
    BY ElementsOf
  <2> QED
    BY <2>1, AddToAnthropicIs
<1>3. step \in [1..n -> [D -> D]]
  <2> HIDE DEF D
  <2> QED
    BY <1>2
<1>4. PICK g \in [0..n -> D] : IsFold(g, <<>>, step, n)
  <2> HIDE DEF D, n, step
  <2> QED
    BY <1>1, <1>3, FoldExists
<1>5. IsUpTo(g)
  <2>1. \A k \in 1..n : step[k][g[k - 1]] = AddToAnthropic(g[k - 1], messages[k])
    <3>1. \A k \in 1..n : g[k - 1] \in D
      BY <1>1, <1>4
    <3> HIDE DEF D
    <3> QED
      BY <3>1
  <2>2. g = [k \in 0..n |-> IF k = 0 THEN <<>> ELSE step[k][g[k - 1]]]
    BY <1>4 DEF IsFold
  <2> HIDE DEF step, n, D
  <2>3. \A k \in 0..n : k # 0 => k \in 1..n
    BY <1>1
  <2>4. [k \in 0..n |-> IF k = 0 THEN <<>> ELSE step[k][g[k - 1]]]
        = [k \in 0..n |-> IF k = 0 THEN <<>> ELSE AddToAnthropic(g[k - 1], messages[k])]
    BY <2>1, <2>3
  <2> QED
    BY <2>2, <2>4
<1>6. IsUpTo(upTo)
  <2> HIDE DEF IsUpTo
  <2> QED
    BY <1>5
<1>7. ToAnthropic(messages) = upTo[n]
  BY DEF ToAnthropic
<1> HIDE DEF upTo
<1>8. /\ upTo = [k \in 0..n |-> upTo[k]] /\ upTo[0] = <<>>
      /\ \A k \in 1..n : upTo[k] = AddToAnthropic(upTo[k - 1], messages[k])
  <2>1. 0 \in 0..n /\ \A k \in 1..n : k \in 0..n /\ k # 0
    BY <1>1
  <2> QED
    BY <1>6, <2>1
<1> HIDE DEF IsUpTo, step, D, n
<1> DEFINE U == {k \in 0..n : upTo[k] \in D}
<1>9. \A k \in 0..n : k \in U
  <2>1. 0 \in U
    BY <1>1, <1>8
  <2>2. ASSUME NEW k \in 1..n, k - 1 \in U PROVE k \in U
    <3>1. k \in 0..n
      BY <1>1
    <3>2. upTo[k - 1] \in D
      BY <2>2
    <3>3. AddToAnthropic(upTo[k - 1], messages[k]) \in D
      BY <1>2, <3>2
    <3> QED
      BY <1>8, <3>1, <3>3
  <2> HIDE DEF U
  <2> QED
    BY <1>1, <2>1, <2>2, AllUpTo
<1>10. upTo \in [0..n -> D]
  BY <1>8, <1>9
<1> QED
  BY <1>7, <1>8, <1>10 DEF n, D

\* Gemini's parts have the calls and the results of the content.
LEMMA PartsTyped ==
  ASSUME NEW content \in Content
  PROVE  /\ GeminiParts(content) \in Content
         /\ content # <<>> => GeminiParts(content) # <<>>
         /\ Tagged(GeminiParts(content), "tool_use") = Tagged(content, "tool_use")
         /\ Tagged(GeminiParts(content), "tool_result") = Tagged(content, "tool_result")
<1> DEFINE n == Len(content)
           parts == GeminiParts(content)
<1>1. n \in Nat /\ DOMAIN content = 1..n /\ \A k \in 1..n : content[k] \in ABlock
  BY ElementsOf DEF Content, ABlock
<1>2. parts = [k \in 1..n |->
         IF content[k].type = "reasoning" THEN Block("text", content[k].tag) ELSE content[k]]
  BY <1>1 DEF GeminiParts
<1> HIDE DEF parts, n
<1>3. ASSUME NEW k \in 1..n
      PROVE  /\ parts[k] \in ABlock
             /\ parts[k].tag = content[k].tag
             /\ parts[k].type = "tool_use" <=> content[k].type = "tool_use"
             /\ parts[k].type = "tool_result" <=> content[k].type = "tool_result"
  BY <1>1, <1>2 DEF Block, ABlock, BlockTypes
<1>4. DOMAIN parts = 1..n /\ parts = [k \in 1..n |-> parts[k]]
  BY <1>2
<1>5. parts \in Content
  <2>1. parts \in Seq(ABlock)
    BY <1>1, <1>3, <1>4
  <2> QED
    BY <2>1 DEF Content, ABlock
<1>6. content # <<>> => parts # <<>>
  <2>1. content # <<>> => n # 0
    BY DEF n, Content, ABlock
  <2> QED
    BY <1>1, <1>4, <2>1
<1>7. ASSUME NEW type \in {"tool_use", "tool_result"}
      PROVE  Tagged(parts, type) = Tagged(content, type)
  <2>1. \A k \in 1..n : parts[k].type = type <=> content[k].type = type
    BY <1>3
  <2>2. {j \in 1..n : parts[j].type = type} = {j \in 1..n : content[j].type = type}
    BY <2>1
  <2>3. \A k \in {j \in 1..n : content[j].type = type} : parts[k].tag = content[k].tag
    BY <1>3
  <2> QED
    BY <1>1, <1>4, <2>2, <2>3 DEF Tagged
<1> QED
  BY <1>5, <1>6, <1>7 DEF parts

LEMMA AddToGeminiIs ==
  ASSUME NEW out \in Seq(GeminiMessages), NEW m \in AMessage
  PROVE  /\ ForGemini(m) \in GeminiMessages
         /\ AddToGemini(out, m) \in Seq(GeminiMessages)
         /\ AddToGemini(out, m)
              = IF out # <<>> /\ Last(out).role = GeminiRole(m.role)
                THEN Joined(out, GeminiParts(m.content)) ELSE Append(out, ForGemini(m))
<1> DEFINE new == ForGemini(m)
           parts == GeminiParts(m.content)
           d == AddToGemini(out, m)
           joins == out # <<>> /\ Last(out).role = GeminiRole(m.role)
<1>1. m.role \in Roles /\ m.content \in Content
  BY DEF AMessage
<1>2. parts \in Content
  BY <1>1, PartsTyped
<1>3. /\ new \in GeminiMessages /\ new.role = GeminiRole(m.role)
      /\ new.content = parts
  <2> HIDE DEF parts
  <2>1. new = [role |-> GeminiRole(m.role), content |-> parts]
    BY DEF ForGemini, Message, parts
  <2>2. GeminiRole(m.role) \in {"user", "model"}
    BY DEF GeminiRole
  <2> QED
    BY <1>2, <2>1, <2>2 DEF GeminiMessages, MessagesOf
<1>4. d = IF joins THEN Joined(out, parts) ELSE Append(out, new)
  BY <1>3 DEF AddToGemini, Joined, ForGemini
<1> HIDE DEF parts
<1>5. ASSUME joins PROVE Joined(out, parts) \in Seq(GeminiMessages)
  <2>1. out # <<>>
    BY <1>5
  <2> QED
    BY <1>2, <2>1, JoinedIs DEF GeminiMessages
<1>6. Append(out, new) \in Seq(GeminiMessages)
  BY <1>3
<1> HIDE DEF new, joins, d
<1>7. d \in Seq(GeminiMessages)
  BY <1>4, <1>5, <1>6
<1> QED
  BY <1>3, <1>4, <1>7 DEF new, joins, d, parts

LEMMA GeminiSteps ==
  ASSUME NEW messages \in Seq(AMessage)
  PROVE  \E f \in [0..Len(messages) -> Seq(GeminiMessages)] :
           /\ f[0] = <<>> /\ ToGemini(messages) = f[Len(messages)]
           /\ \A k \in 1..Len(messages) : f[k] = AddToGemini(f[k - 1], messages[k])
<1> DEFINE n == Len(messages)
           D == Seq(GeminiMessages)
           step == [k \in 1..n |-> [c \in D |-> AddToGemini(c, messages[k])]]
           IsUpTo(f) == f = [k \in 0..n |->
              IF k = 0 THEN <<>> ELSE AddToGemini(f[k - 1], messages[k])]
           upTo == CHOOSE f : IsUpTo(f)
<1>1. n \in Nat /\ <<>> \in D
  OBVIOUS
<1>2. ASSUME NEW k \in 1..n, NEW c \in D PROVE AddToGemini(c, messages[k]) \in D
  <2>1. messages[k] \in AMessage
    BY ElementsOf
  <2> QED
    BY <2>1, AddToGeminiIs
<1>3. step \in [1..n -> [D -> D]]
  <2> HIDE DEF D
  <2> QED
    BY <1>2
<1>4. PICK g \in [0..n -> D] : IsFold(g, <<>>, step, n)
  <2> HIDE DEF D, n, step
  <2> QED
    BY <1>1, <1>3, FoldExists
<1>5. IsUpTo(g)
  <2>1. \A k \in 1..n : step[k][g[k - 1]] = AddToGemini(g[k - 1], messages[k])
    <3>1. \A k \in 1..n : g[k - 1] \in D
      BY <1>1, <1>4
    <3> HIDE DEF D
    <3> QED
      BY <3>1
  <2>2. g = [k \in 0..n |-> IF k = 0 THEN <<>> ELSE step[k][g[k - 1]]]
    BY <1>4 DEF IsFold
  <2> HIDE DEF step, n, D
  <2>3. \A k \in 0..n : k # 0 => k \in 1..n
    BY <1>1
  <2>4. [k \in 0..n |-> IF k = 0 THEN <<>> ELSE step[k][g[k - 1]]]
        = [k \in 0..n |-> IF k = 0 THEN <<>> ELSE AddToGemini(g[k - 1], messages[k])]
    BY <2>1, <2>3
  <2> QED
    BY <2>2, <2>4
<1>6. IsUpTo(upTo)
  <2> HIDE DEF IsUpTo
  <2> QED
    BY <1>5
<1>7. ToGemini(messages) = upTo[n]
  BY DEF ToGemini
<1> HIDE DEF upTo
<1>8. /\ upTo = [k \in 0..n |-> upTo[k]] /\ upTo[0] = <<>>
      /\ \A k \in 1..n : upTo[k] = AddToGemini(upTo[k - 1], messages[k])
  <2>1. 0 \in 0..n /\ \A k \in 1..n : k \in 0..n /\ k # 0
    BY <1>1
  <2> QED
    BY <1>6, <2>1
<1> HIDE DEF IsUpTo, step, D, n
<1> DEFINE U == {k \in 0..n : upTo[k] \in D}
<1>9. \A k \in 0..n : k \in U
  <2>1. 0 \in U
    BY <1>1, <1>8
  <2>2. ASSUME NEW k \in 1..n, k - 1 \in U PROVE k \in U
    <3>1. k \in 0..n
      BY <1>1
    <3>2. upTo[k - 1] \in D
      BY <2>2
    <3>3. AddToGemini(upTo[k - 1], messages[k]) \in D
      BY <1>2, <3>2
    <3> QED
      BY <1>8, <3>1, <3>3
  <2> HIDE DEF U
  <2> QED
    BY <1>1, <2>1, <2>2, AllUpTo
<1>10. upTo \in [0..n -> D]
  BY <1>8, <1>9
<1> QED
  BY <1>7, <1>8, <1>10 DEF n, D

\* How a provider's messages are made of the core messages: the tool's messages
\* that follow each other are together, and none of them with the assistant's.
InGroups(messages, out, g) ==
    /\ InOrder(g, Len(messages), Len(out))
    /\ \A i, j \in 1..Len(messages) :
         g[i] = g[j] => (messages[i].role = "assistant" <=> messages[j].role = "assistant")
    /\ \A i \in 1..Len(messages) :
         i > 1 /\ messages[i - 1].role = "tool" /\ messages[i].role = "tool" => g[i] = g[i - 1]
    /\ \A j \in 1..Len(out) : \A type \in {"tool_use", "tool_result"} : \A x \in Nat :
         x \in Tagged(out[j].content, type)
           <=> \E i \in 1..Len(messages) : g[i] = j /\ x \in Tagged(messages[i].content, type)

LEMMA ResultsJoined ==
  ASSUME NEW R, NEW out \in Seq(MessagesOf(R)), out # <<>>, ResultsOnly(Last(out)),
         NEW content \in Content, OnlyOf({"tool_result"}, content)
  PROVE  ResultsOnly(Last(Joined(out, content)))
<1> DEFINE n == Len(out)
           a == out[n].content
           d == Joined(out, content)
<1>1. /\ d \in Seq(MessagesOf(R)) /\ Len(d) = n /\ n \in Nat \ {0}
      /\ d[n].content = a \o content
  BY JoinedIs
<1>2. n \in 1..n /\ a \in Content
  <2>1. n \in 1..n
    BY <1>1
  <2>2. out[n] \in MessagesOf(R)
    BY <2>1, ElementsOf
  <2> QED
    BY <2>1, <2>2 DEF MessagesOf
<1>3. a # <<>> /\ OnlyOf({"tool_result"}, a)
  BY DEF ResultsOnly, Last, OnlyOf
<1>4. Last(d).content = a \o content
  BY <1>1 DEF Last
<1> HIDE DEF a, d
<1>5. a \o content # <<>> /\ OnlyOf({"tool_result"}, a \o content)
  <2>1. OnlyOf({"tool_result"}, a \o content)
    BY <1>2, <1>3, OnlyOfAppended
  <2>2. a \in Seq(ABlock) /\ content \in Seq(ABlock)
    BY <1>2 DEF Content, ABlock
  <2>3. a \o content # <<>>
    BY ONLY <1>3, <2>2
  <2> QED
    BY <2>1, <2>3
<1>6. \A k \in DOMAIN (a \o content) : (a \o content)[k].type = "tool_result"
  BY <1>5 DEF OnlyOf
<1> QED
  BY <1>4, <1>5, <1>6 DEF ResultsOnly, d

LEMMA ToolsResults ==
  ASSUME NEW m \in AMessage, Shaped(m)
  PROVE  /\ m.content \in Content /\ m.content # <<>> /\ m.role \in Roles
         /\ m.role = "tool" => OnlyOf({"tool_result"}, m.content) /\ ResultsOnly(ForAnthropic(m))
         /\ ResultsOnly(ForAnthropic(m)) => m.role = "tool"
<1>1. m.content \in Content /\ m.role \in Roles
  BY DEF AMessage
<1>2. m.content # <<>> /\ OnlyOf(TypesOf(m.role), m.content)
  BY DEF Shaped
<1>3. ForAnthropic(m).content = m.content
  BY DEF ForAnthropic, Message
<1>4. ASSUME m.role = "tool"
      PROVE  OnlyOf({"tool_result"}, m.content) /\ ResultsOnly(ForAnthropic(m))
  BY <1>2, <1>3, <1>4 DEF ResultsOnly, OnlyOf, TypesOf
<1>5. ASSUME ResultsOnly(ForAnthropic(m)) PROVE m.role = "tool"
  <2>1. 1 \in DOMAIN m.content
    BY <1>1, <1>2 DEF Content, ABlock
  <2>2. m.content[1].type = "tool_result" /\ m.content[1].type \in TypesOf(m.role)
    BY <1>2, <1>3, <1>5, <2>1 DEF ResultsOnly, OnlyOf
  <2> QED
    BY <1>1, <2>2 DEF Roles, TypesOf
<1> QED
  BY <1>1, <1>2, <1>4, <1>5

LEMMA AnthropicGroups ==
  ASSUME NEW messages \in Seq(AMessage), \A k \in 1..Len(messages) : Shaped(messages[k])
  PROVE  /\ ToAnthropic(messages) \in Seq(AnthropicMessages)
         /\ \A j \in 1..Len(ToAnthropic(messages)) : ToAnthropic(messages)[j].content # <<>>
         /\ \E g : /\ InGroups(messages, ToAnthropic(messages), g)
                   /\ \A i \in 1..Len(messages) :
                        ToAnthropic(messages)[g[i]].role = AnthropicRole(messages[i].role)
<1> DEFINE n == Len(messages)
           new == [k \in 1..n |-> ForAnthropic(messages[k])]
           out == ToAnthropic(messages)
<1>1. n \in Nat /\ \A k \in 1..n : messages[k] \in AMessage /\ Shaped(messages[k])
  BY ElementsOf
<1>2. PICK f \in [0..n -> Seq(AnthropicMessages)] :
        /\ f[0] = <<>> /\ out = f[n]
        /\ \A k \in 1..n : f[k] = AddToAnthropic(f[k - 1], messages[k])
  BY AnthropicSteps
<1> HIDE DEF out, n
<1>3. ASSUME NEW k \in 1..n
      PROVE  /\ new[k] = ForAnthropic(messages[k]) /\ new[k] \in AnthropicMessages
             /\ new[k].role = AnthropicRole(messages[k].role)
             /\ new[k].content = messages[k].content /\ new[k].content # <<>>
             /\ k - 1 \in 0..n /\ k \in 0..n
  <2>1. messages[k] \in AMessage /\ Shaped(messages[k])
    BY <1>1
  <2>2. k - 1 \in 0..n /\ k \in 0..n
    BY <1>1
  <2>3. <<>> \in Seq(AnthropicMessages)
    OBVIOUS
  <2>4. ForAnthropic(messages[k]) \in AnthropicMessages
    BY <2>1, <2>3, AddToAnthropicIs
  <2> QED
    BY <2>1, <2>2, <2>4 DEF ForAnthropic, Message, Shaped
<1>4. new \in [1..n -> AnthropicMessages] /\ Len(new) = n
  BY <1>1, <1>3
<1> HIDE DEF new
<1> DEFINE joins(k) == /\ f[k - 1] # <<>> /\ new[k].role = "user" /\ Last(f[k - 1]).role = "user"
                       /\ ResultsOnly(new[k]) /\ ResultsOnly(Last(f[k - 1]))
<1>5. ASSUME NEW k \in 1..n
      PROVE  f[k] = IF joins(k) THEN Joined(f[k - 1], new[k].content)
                    ELSE Append(f[k - 1], new[k])
  <2>1. messages[k] \in AMessage
    BY <1>1
  <2>2. f[k - 1] \in Seq(AnthropicMessages)
    BY <1>2, <1>3
  <2>3. f[k] = AddToAnthropic(f[k - 1], messages[k])
    BY <1>2
  <2>4. AddToAnthropic(f[k - 1], messages[k])
          = IF joins(k) THEN Joined(f[k - 1], new[k].content) ELSE Append(f[k - 1], new[k])
    BY <1>3, <2>1, <2>2, AddToAnthropicIs
  <2> QED
    BY <2>3, <2>4
<1>6. \A k \in 1..n :
         \/ f[k] = Append(f[k - 1], new[k])
         \/ /\ f[k - 1] # <<>> /\ Last(f[k - 1]).role = new[k].role
            /\ f[k] = Joined(f[k - 1], new[k].content)
  BY <1>5
<1> DEFINE g == [k \in 1..n |-> Len(f[k])]
<1>7. /\ GroupedBy(new, f[n], g)
      /\ \A k \in 1..n : f[k] # <<>> /\ Last(f[k]).role = new[k].role
  <2> DEFINE R == {"user", "assistant"}
  <2>1. /\ new \in [1..n -> MessagesOf(R)] /\ Len(new) = n
        /\ f \in [0..n -> Seq(MessagesOf(R))]
    BY <1>2, <1>4 DEF AnthropicMessages
  <2>2. \A k \in 1..n : new[k].content # <<>>
    BY <1>3
  <2>3. f[0] = <<>>
    BY <1>2
  <2> HIDE DEF R, joins
  <2>4. Building(R, n, new, f)
    BY <1>1, <1>6, <2>1, <2>2, <2>3, Zenon DEF Building
  <2>5. Gathered(n, new, f)
    BY <2>4, Grouped
  <2> QED
    BY <2>5, Zenon DEF Gathered
<1>8. \A k \in 1..n : g[k] = Len(f[k])
  OBVIOUS
<1> HIDE DEF g
<1>9. /\ InOrder(g, n, Len(out))
      /\ \A i \in 1..n : out[g[i]].role = new[i].role
      /\ \A j \in 1..Len(out) : out[j].content # <<>>
  BY <1>2, <1>4, <1>7 DEF GroupedBy
<1>10. \A j \in 1..Len(out) : \A type \in BlockTypes : \A x \in Nat :
         x \in Tagged(out[j].content, type)
           <=> \E i \in 1..n : g[i] = j /\ x \in Tagged(new[i].content, type)
  BY <1>2, <1>4, <1>7 DEF GroupedBy
<1>11. out \in Seq(AnthropicMessages)
  <2>1. n \in 0..n
    BY <1>1
  <2> QED
    BY <1>2, <2>1
\* After a tool's message the last one is of results only, so that the next joins it.
<1>12. ASSUME NEW k \in 1..n, messages[k].role = "tool" PROVE ResultsOnly(Last(f[k]))
  <2>1. /\ messages[k].content \in Content /\ OnlyOf({"tool_result"}, messages[k].content)
        /\ ResultsOnly(new[k])
    BY <1>1, <1>3, <1>12, ToolsResults
  <2>2. f[k - 1] \in Seq(AnthropicMessages)
    BY <1>2, <1>3
  <2>3. CASE joins(k)
    <3>1. f[k] = Joined(f[k - 1], messages[k].content)
      BY <1>3, <1>5, <2>3
    <3>2. f[k - 1] # <<>> /\ ResultsOnly(Last(f[k - 1]))
      BY <2>3
    <3>3. ResultsOnly(Last(Joined(f[k - 1], messages[k].content)))
      <4> HIDE DEF joins
      <4> QED
        BY <2>1, <2>2, <3>2, ResultsJoined DEF AnthropicMessages
    <3> QED
      BY <3>1, <3>3
  <2>4. CASE ~joins(k)
    <3>1. f[k] = Append(f[k - 1], new[k])
      BY <1>5, <2>4
    <3>2. new[k] \in AnthropicMessages
      BY <1>3
    <3>3. Last(Append(f[k - 1], new[k])) = new[k]
      <4> HIDE DEF joins
      <4> QED
        BY <2>2, <3>2 DEF Last
    <3> QED
      BY <2>1, <3>1, <3>3
  <2> QED
    BY <2>3, <2>4
<1>13. ASSUME NEW i \in 1..n, i > 1, messages[i - 1].role = "tool", messages[i].role = "tool"
       PROVE  g[i] = g[i - 1]
  <2>1. i - 1 \in 1..n
    BY <1>1, <1>13
  <2>2. /\ f[i - 1] # <<>> /\ ResultsOnly(Last(f[i - 1])) /\ ResultsOnly(new[i])
        /\ new[i].role = "user" /\ Last(f[i - 1]).role = "user"
        /\ messages[i].content \in Content
    BY <1>1, <1>3, <1>7, <1>12, <1>13, <2>1, ToolsResults DEF AnthropicRole
  <2>3. f[i] = Joined(f[i - 1], messages[i].content)
    BY <1>3, <1>5, <2>2
  <2>4. f[i - 1] \in Seq(AnthropicMessages)
    BY <1>2, <1>3
  <2>5. Len(Joined(f[i - 1], messages[i].content)) = Len(f[i - 1])
    BY <2>2, <2>4, JoinedIs DEF AnthropicMessages
  <2> QED
    BY <1>8, <2>1, <2>3, <2>5
<1>14. ASSUME NEW i \in 1..n, NEW j \in 1..n, g[i] = g[j]
       PROVE  messages[i].role = "assistant" <=> messages[j].role = "assistant"
  <2>1. new[i].role = new[j].role
    BY <1>9, <1>14
  <2>2. AnthropicRole(messages[i].role) = AnthropicRole(messages[j].role)
    BY <1>3, <2>1
  <2> QED
    BY <2>2 DEF AnthropicRole
<1>15. ASSUME NEW j \in 1..Len(out), NEW type \in {"tool_use", "tool_result"}, NEW x \in Nat
       PROVE  x \in Tagged(out[j].content, type)
                <=> \E i \in 1..n : g[i] = j /\ x \in Tagged(messages[i].content, type)
  <2>1. type \in BlockTypes
    BY DEF BlockTypes
  <2> QED
    BY <1>3, <1>10, <2>1
<1>16. InGroups(messages, out, g)
  <2>1. Len(messages) = n
    BY DEF n
  <2> QED
    <3> HIDE DEF joins
    <3>1. \A i, j \in 1..n :
            g[i] = g[j] => (messages[i].role = "assistant" <=> messages[j].role = "assistant")
      BY <1>14
    <3>2. \A i \in 1..n :
            i > 1 /\ messages[i - 1].role = "tool" /\ messages[i].role = "tool" => g[i] = g[i - 1]
      BY <1>13
    <3>3. \A j \in 1..Len(out) : \A type \in {"tool_use", "tool_result"} : \A x \in Nat :
            x \in Tagged(out[j].content, type)
              <=> \E i \in 1..n : g[i] = j /\ x \in Tagged(messages[i].content, type)
      BY <1>15
    <3> QED
      BY <1>9, <3>1, <3>2, <3>3, Zenon DEF InGroups, n
<1>17. \A i \in 1..n : out[g[i]].role = AnthropicRole(messages[i].role)
  BY <1>3, <1>9
<1> QED
  BY <1>9, <1>11, <1>16, <1>17 DEF out, n

LEMMA GeminiGroups ==
  ASSUME NEW messages \in Seq(AMessage), \A k \in 1..Len(messages) : Shaped(messages[k])
  PROVE  /\ ToGemini(messages) \in Seq(GeminiMessages)
         /\ \E g : InGroups(messages, ToGemini(messages), g)
<1> DEFINE n == Len(messages)
           new == [k \in 1..n |-> ForGemini(messages[k])]
           out == ToGemini(messages)
<1>1. n \in Nat /\ \A k \in 1..n : messages[k] \in AMessage /\ Shaped(messages[k])
  BY ElementsOf
<1>2. PICK f \in [0..n -> Seq(GeminiMessages)] :
        /\ f[0] = <<>> /\ out = f[n]
        /\ \A k \in 1..n : f[k] = AddToGemini(f[k - 1], messages[k])
  BY GeminiSteps
<1> HIDE DEF out, n
<1>3. ASSUME NEW k \in 1..n
      PROVE  /\ new[k] = ForGemini(messages[k]) /\ new[k] \in GeminiMessages
             /\ new[k].role = GeminiRole(messages[k].role)
             /\ new[k].content = GeminiParts(messages[k].content) /\ new[k].content # <<>>
             /\ \A type \in {"tool_use", "tool_result"} :
                  Tagged(new[k].content, type) = Tagged(messages[k].content, type)
             /\ k - 1 \in 0..n /\ k \in 0..n
  <2>1. messages[k] \in AMessage /\ Shaped(messages[k])
    BY <1>1
  <2>2. k - 1 \in 0..n /\ k \in 0..n
    BY <1>1
  <2>3. <<>> \in Seq(GeminiMessages)
    OBVIOUS
  <2>4. ForGemini(messages[k]) \in GeminiMessages
    BY <2>1, <2>3, AddToGeminiIs
  <2>5. /\ new[k] = ForGemini(messages[k])
        /\ new[k].role = GeminiRole(messages[k].role)
        /\ new[k].content = GeminiParts(messages[k].content)
    BY DEF ForGemini, Message
  <2>6. messages[k].content \in Content /\ messages[k].content # <<>>
    BY <2>1 DEF AMessage, Shaped
  <2> HIDE DEF new
  <2>7. /\ GeminiParts(messages[k].content) # <<>>
        /\ \A type \in {"tool_use", "tool_result"} :
             Tagged(GeminiParts(messages[k].content), type) = Tagged(messages[k].content, type)
    BY <2>6, PartsTyped
  <2> QED
    BY <2>2, <2>4, <2>5, <2>7
<1>4. new \in [1..n -> GeminiMessages] /\ Len(new) = n
  BY <1>1, <1>3
<1> HIDE DEF new
<1> DEFINE joins(k) == f[k - 1] # <<>> /\ Last(f[k - 1]).role = new[k].role
<1>5. ASSUME NEW k \in 1..n
      PROVE  f[k] = IF joins(k) THEN Joined(f[k - 1], new[k].content)
                    ELSE Append(f[k - 1], new[k])
  <2>1. messages[k] \in AMessage
    BY <1>1
  <2>2. f[k - 1] \in Seq(GeminiMessages)
    BY <1>2, <1>3
  <2>3. f[k] = AddToGemini(f[k - 1], messages[k])
    BY <1>2
  <2>4. AddToGemini(f[k - 1], messages[k])
          = IF joins(k) THEN Joined(f[k - 1], new[k].content) ELSE Append(f[k - 1], new[k])
    BY <1>3, <2>1, <2>2, AddToGeminiIs
  <2> QED
    BY <2>3, <2>4
<1>6. \A k \in 1..n :
         \/ f[k] = Append(f[k - 1], new[k])
         \/ /\ f[k - 1] # <<>> /\ Last(f[k - 1]).role = new[k].role
            /\ f[k] = Joined(f[k - 1], new[k].content)
  BY <1>5
<1> DEFINE g == [k \in 1..n |-> Len(f[k])]
<1>7. /\ GroupedBy(new, f[n], g)
      /\ \A k \in 1..n : f[k] # <<>> /\ Last(f[k]).role = new[k].role
  <2> DEFINE R == {"user", "model"}
  <2>1. /\ new \in [1..n -> MessagesOf(R)] /\ Len(new) = n
        /\ f \in [0..n -> Seq(MessagesOf(R))]
    BY <1>2, <1>4 DEF GeminiMessages
  <2>2. \A k \in 1..n : new[k].content # <<>>
    BY <1>3
  <2>3. f[0] = <<>>
    BY <1>2
  <2> HIDE DEF R, joins
  <2>4. Building(R, n, new, f)
    BY <1>1, <1>6, <2>1, <2>2, <2>3, Zenon DEF Building
  <2>5. Gathered(n, new, f)
    BY <2>4, Grouped
  <2> QED
    BY <2>5, Zenon DEF Gathered
<1>8. \A k \in 1..n : g[k] = Len(f[k])
  OBVIOUS
<1> HIDE DEF g
<1>9. /\ InOrder(g, n, Len(out))
      /\ \A i \in 1..n : out[g[i]].role = new[i].role
  BY <1>2, <1>4, <1>7 DEF GroupedBy
<1>10. \A j \in 1..Len(out) : \A type \in BlockTypes : \A x \in Nat :
         x \in Tagged(out[j].content, type)
           <=> \E i \in 1..n : g[i] = j /\ x \in Tagged(new[i].content, type)
  BY <1>2, <1>4, <1>7 DEF GroupedBy
<1>11. out \in Seq(GeminiMessages)
  <2>1. n \in 0..n
    BY <1>1
  <2> QED
    BY <1>2, <2>1
\* The tool's messages are the user's.
<1>13. ASSUME NEW i \in 1..n, i > 1, messages[i - 1].role = "tool", messages[i].role = "tool"
       PROVE  g[i] = g[i - 1]
  <2>1. i - 1 \in 1..n
    BY <1>1, <1>13
  <2>2. /\ f[i - 1] # <<>> /\ Last(f[i - 1]).role = new[i].role
        /\ messages[i].content \in Content
    BY <1>1, <1>3, <1>7, <1>13, <2>1 DEF GeminiRole, AMessage
  <2>3. f[i] = Joined(f[i - 1], new[i].content)
    BY <1>3, <1>5, <2>2
  <2>4. f[i - 1] \in Seq(GeminiMessages)
    BY <1>2, <1>3
  <2>5. new[i].content \in Content
    BY <1>3, <2>2, PartsTyped
  <2>6. Len(Joined(f[i - 1], new[i].content)) = Len(f[i - 1])
    BY <2>2, <2>4, <2>5, JoinedIs DEF GeminiMessages
  <2> QED
    BY <1>8, <2>1, <2>3, <2>6
<1>14. ASSUME NEW i \in 1..n, NEW j \in 1..n, g[i] = g[j]
       PROVE  messages[i].role = "assistant" <=> messages[j].role = "assistant"
  <2>1. new[i].role = new[j].role
    BY <1>9, <1>14
  <2>2. GeminiRole(messages[i].role) = GeminiRole(messages[j].role)
    BY <1>3, <2>1
  <2> QED
    BY <2>2 DEF GeminiRole
<1>15. ASSUME NEW j \in 1..Len(out), NEW type \in {"tool_use", "tool_result"}, NEW x \in Nat
       PROVE  x \in Tagged(out[j].content, type)
                <=> \E i \in 1..n : g[i] = j /\ x \in Tagged(messages[i].content, type)
  <2>1. type \in BlockTypes
    BY DEF BlockTypes
  <2>2. \A i \in 1..n : Tagged(new[i].content, type) = Tagged(messages[i].content, type)
    BY <1>3
  <2> QED
    BY <1>10, <2>1, <2>2
<1>16. InGroups(messages, out, g)
  <2>1. Len(messages) = n
    BY DEF n
  <2> QED
    <3> HIDE DEF joins
    <3>1. \A i, j \in 1..n :
            g[i] = g[j] => (messages[i].role = "assistant" <=> messages[j].role = "assistant")
      BY <1>14
    <3>2. \A i \in 1..n :
            i > 1 /\ messages[i - 1].role = "tool" /\ messages[i].role = "tool" => g[i] = g[i - 1]
      BY <1>13
    <3>3. \A j \in 1..Len(out) : \A type \in {"tool_use", "tool_result"} : \A x \in Nat :
            x \in Tagged(out[j].content, type)
              <=> \E i \in 1..n : g[i] = j /\ x \in Tagged(messages[i].content, type)
      BY <1>15
    <3> QED
      BY <1>9, <3>1, <3>2, <3>3, Zenon DEF InGroups, n
<1> QED
  BY <1>11, <1>16 DEF out, n

\* The calls of a provider's message, and the results.
GroupCalls(out) == [j \in 1..Len(out) |-> Tagged(out[j].content, "tool_use")]
GroupResults(out) == [j \in 1..Len(out) |-> Tagged(out[j].content, "tool_result")]

LEMMA ViewParts ==
  ASSUME NEW m
  PROVE  /\ View(m).role = m.role
         /\ View(m).calls = Tagged(m.content, "tool_use")
         /\ View(m).results = Tagged(m.content, "tool_result")
BY DEF View

LEMMA GroupsAnswered ==
  ASSUME NEW messages \in Seq(AMessage), Paired(Views(messages)),
         NEW R, NEW out \in Seq(MessagesOf(R)), NEW g, InGroups(messages, out, g)
  PROVE  Answered(Len(out), GroupCalls(out), GroupResults(out))
<1> DEFINE V == Views(messages)
           N == Len(out)
           calls == GroupCalls(out)
           results == GroupResults(out)
           L == Len(V)
<1>1. /\ L = Len(messages) /\ N \in Nat /\ L \in Nat
      /\ \A i \in 1..L : V[i] = View(messages[i])
  BY ViewsOf
<1>2. \A i \in 1..L : /\ V[i].role = messages[i].role
                      /\ V[i].calls = Tagged(messages[i].content, "tool_use")
                      /\ V[i].results = Tagged(messages[i].content, "tool_result")
  <2> HIDE DEF V, L
  <2> QED
    BY <1>1, ViewParts, Zenon
<1>3. ASSUME NEW j \in 1..N
      PROVE  /\ calls[j] = Tagged(out[j].content, "tool_use") /\ calls[j] \in SUBSET Nat
             /\ results[j] = Tagged(out[j].content, "tool_result") /\ results[j] \in SUBSET Nat
  <2>1. out[j] \in MessagesOf(R)
    BY ElementsOf
  <2>2. out[j].content \in Content
    BY <2>1 DEF MessagesOf
  <2> QED
    BY <2>2, TaggedTyped DEF GroupCalls, GroupResults
<1>4. calls \in [1..N -> SUBSET Nat] /\ results \in [1..N -> SUBSET Nat]
  BY <1>3 DEF GroupCalls, GroupResults
<1>5. /\ InOrder(g, L, N)
      /\ \A i, j \in 1..L : g[i] = g[j] => (V[i].role = "assistant" <=> V[j].role = "assistant")
  BY <1>1, <1>2 DEF InGroups
<1>6. \A i \in 1..L : i > 1 /\ V[i - 1].role = "tool" /\ V[i].role = "tool" => g[i] = g[i - 1]
  <2>1. \A i \in 1..L : i > 1 => i - 1 \in 1..L
    BY <1>1
  <2> QED
    BY <1>1, <1>2, <2>1 DEF InGroups
<1> HIDE DEF V, calls, results
<1>7. \A j \in 1..N : \A x \in Nat :
        /\ x \in calls[j] <=> \E i \in 1..L : g[i] = j /\ x \in V[i].calls
        /\ x \in results[j] <=> \E i \in 1..L : g[i] = j /\ x \in V[i].results
  <2>1. \A j \in 1..N : \A type \in {"tool_use", "tool_result"} : \A x \in Nat :
          x \in Tagged(out[j].content, type)
            <=> \E i \in 1..L : g[i] = j /\ x \in Tagged(messages[i].content, type)
    BY <1>1 DEF InGroups
  <2> SUFFICES ASSUME NEW j \in 1..N, NEW x \in Nat
               PROVE  /\ x \in calls[j] <=> \E i \in 1..L : g[i] = j /\ x \in V[i].calls
                      /\ x \in results[j] <=> \E i \in 1..L : g[i] = j /\ x \in V[i].results
    BY Zenon
  <2> HIDE DEF L, N
  <2>2. /\ calls[j] = Tagged(out[j].content, "tool_use")
        /\ results[j] = Tagged(out[j].content, "tool_result")
    BY <1>3, Zenon
  <2>3. x \in calls[j] <=> \E i \in 1..L : g[i] = j /\ x \in V[i].calls
    <3>1. x \in Tagged(out[j].content, "tool_use")
            <=> \E i \in 1..L : g[i] = j /\ x \in Tagged(messages[i].content, "tool_use")
      BY <2>1, Zenon
    <3> QED
      BY <1>2, <2>2, <3>1, Zenon
  <2>4. x \in results[j] <=> \E i \in 1..L : g[i] = j /\ x \in V[i].results
    <3>1. x \in Tagged(out[j].content, "tool_result")
            <=> \E i \in 1..L : g[i] = j /\ x \in Tagged(messages[i].content, "tool_result")
      BY <2>1, Zenon
    <3> QED
      BY <1>2, <2>2, <3>1, Zenon
  <2> QED
    BY <2>3, <2>4, Zenon
<1>8. Paired(V) /\ Len(V) = L /\ Len(out) = N
  BY DEF V
<1>9. Answered(N, calls, results)
  <2> HIDE DEF L, N
  <2>1. InOrder(g, Len(V), N)
    BY <1>5, <1>8
  <2>2. \A i, j \in 1..Len(V) :
          g[i] = g[j] => (V[i].role = "assistant" <=> V[j].role = "assistant")
    BY <1>5, <1>8, Zenon
  <2>3. \A i \in 1..Len(V) :
          i > 1 /\ V[i - 1].role = "tool" /\ V[i].role = "tool" => g[i] = g[i - 1]
    BY <1>6, <1>8, Zenon
  <2>4. \A j \in 1..N : \A x \in Nat :
          /\ x \in calls[j] <=> \E i \in 1..Len(V) : g[i] = j /\ x \in V[i].calls
          /\ x \in results[j] <=> \E i \in 1..Len(V) : g[i] = j /\ x \in V[i].results
    BY <1>7, <1>8, Zenon
  <2>5. ViewsGrouped(V, N, g, calls, results)
    BY <1>1, <1>4, <2>1, <2>2, <2>3, <2>4, Zenon DEF ViewsGrouped
  <2> QED
    BY <1>8, <2>5, GroupsPaired
<1> QED
  BY <1>9 DEF calls, results
-----------------------------------------------------------------------------
(***************************************************************************)
(* What is taken out of a list keeps its order.                            *)
(***************************************************************************)

Picked(taken, s, pos, P) ==
    /\ pos \in Seq(Nat) /\ Ascending(pos) /\ Range(pos) = P /\ Len(pos) = Len(taken)
    /\ \A i \in 1..Len(pos) : taken[i] = s[pos[i]]

LEMMA PickedNext ==
  ASSUME NEW S, NEW taken \in Seq(S), NEW s, NEW pos, NEW P, Picked(taken, s, pos, P),
         NEW k \in Nat, \A y \in P : y < k, s[k] \in S
  PROVE  Picked(Append(taken, s[k]), s, Append(pos, k), P \cup {k})
<1>1. /\ pos \in Seq(Nat) /\ Ascending(pos) /\ Range(pos) = P /\ Len(pos) = Len(taken)
      /\ \A i \in 1..Len(pos) : taken[i] = s[pos[i]]
  BY DEF Picked
<1>2. Ascending(Append(pos, k)) /\ Range(Append(pos, k)) = P \cup {k}
  BY <1>1, AscendingAppended
<1> DEFINE n == Len(pos)
<1>3. /\ Append(pos, k) \in Seq(Nat) /\ Len(Append(pos, k)) = n + 1 /\ n \in Nat
      /\ Append(pos, k)[n + 1] = k /\ \A i \in 1..n : Append(pos, k)[i] = pos[i]
  BY <1>1
<1>4. /\ Len(Append(taken, s[k])) = n + 1
      /\ Append(taken, s[k])[n + 1] = s[k]
      /\ \A i \in 1..n : Append(taken, s[k])[i] = taken[i]
  BY <1>1
<1>5. ASSUME NEW i \in 1..(n + 1) PROVE Append(taken, s[k])[i] = s[Append(pos, k)[i]]
  <2> HIDE DEF n
  <2>1. i = n + 1 \/ i \in 1..n
    BY <1>3
  <2>2. ASSUME i \in 1..n PROVE taken[i] = s[pos[i]]
    BY <1>1, <2>2 DEF n
  <2> QED
    BY <1>3, <1>4, <2>1, <2>2
<1> QED
  BY <1>2, <1>3, <1>4, <1>5 DEF Picked

LEMMA ElementsPicked ==
  ASSUME NEW S, NEW s \in Seq(S), NEW P \in SUBSET (1..Len(s))
  PROVE  ElementsAt(s, P) \in Seq(S) /\ \E pos : Picked(ElementsAt(s, P), s, pos, P)
<1> DEFINE n == Len(s)
<1>1. n \in Nat /\ \A k \in 1..n : s[k] \in S
  BY ElementsOf
<1>0. PICK f : Filters(f, S, s, P)
  BY ElementsAtSteps, Zenon
<1>2. /\ f \in [0..n -> Seq(S)]
      /\ f[0] = <<>> /\ ElementsAt(s, P) = f[n]
      /\ \A k \in 1..n : f[k] = IF k \in P THEN Append(f[k - 1], s[k]) ELSE f[k - 1]
  BY <1>0, Zenon DEF Filters
<1> HIDE DEF n
<1> DEFINE T == {k \in 0..n : \E pos : Picked(f[k], s, pos, P \cap 1..k)}
<1>3. 0 \in T
  <2>1. Picked(<<>>, s, <<>>, {})
    BY DEF Picked, Ascending, Range
  <2>2. P \cap 1..0 = {} /\ 0 \in 0..n
    BY <1>1
  <2>3. Picked(f[0], s, <<>>, P \cap 1..0)
    BY <1>2, <2>1, <2>2
  <2> QED
    BY <2>2, <2>3
<1>4. ASSUME NEW k \in 1..n, k - 1 \in T PROVE k \in T
  <2>1. k - 1 \in 0..n /\ k \in 0..n /\ k \in Nat
    BY <1>1
  <2>2. PICK pos : Picked(f[k - 1], s, pos, P \cap 1..(k - 1))
    BY <1>4
  <2>3. \A y \in P \cap 1..(k - 1) : y < k
    BY <1>1
  <2>4. f[k - 1] \in Seq(S) /\ s[k] \in S
    BY <1>1, <1>2, <2>1
  <2>5. f[k] = IF k \in P THEN Append(f[k - 1], s[k]) ELSE f[k - 1]
    BY <1>2
  <2>6. CASE k \in P
    <3>1. Picked(Append(f[k - 1], s[k]), s, Append(pos, k), (P \cap 1..(k - 1)) \cup {k})
      BY <2>1, <2>2, <2>3, <2>4, PickedNext
    <3>2. (P \cap 1..(k - 1)) \cup {k} = P \cap 1..k
      BY <1>1, <2>6
    <3>3. Picked(f[k], s, Append(pos, k), P \cap 1..k)
      BY <2>5, <2>6, <3>1, <3>2
    <3> QED
      BY <2>1, <3>3
  <2>7. CASE k \notin P
    <3>1. P \cap 1..(k - 1) = P \cap 1..k
      BY <1>1, <2>7
    <3>2. Picked(f[k], s, pos, P \cap 1..k)
      BY <2>2, <2>5, <2>7, <3>1
    <3> QED
      BY <2>1, <3>2
  <2> QED
    BY <2>6, <2>7
<1>5. n \in T
  <2> HIDE DEF T
  <2>1. n \in 0..n
    BY <1>1
  <2> QED
    BY <1>1, <1>3, <1>4, <2>1, AllUpTo
<1>6. n \in 0..n
  BY <1>1
<1>7. P \cap 1..n = P
  BY Zenon DEF n
<1> QED
  BY <1>2, <1>5, <1>6, <1>7

\* The tags of a type, as a sequence, are those of the blocks of the type.
LEMMA TagsTagged ==
  ASSUME NEW S, NEW content \in Seq(S), NEW type
  PROVE  Range(Tags(content, type)) = Tagged(content, type)
         /\ (Tags(content, type) = <<>> <=> Tagged(content, type) = {})
<1> DEFINE P == {k \in 1..Len(content) : content[k].type = type}
           taken == OfType(content, type)
           tags == Tags(content, type)
<1>1. DOMAIN content = 1..Len(content)
  OBVIOUS
<1>2. taken = ElementsAt(content, P)
  BY <1>1 DEF OfType
<1>3. taken \in Seq(S) /\ \E pos : Picked(taken, content, pos, P)
  <2>1. P \in SUBSET (1..Len(content))
    OBVIOUS
  <2> HIDE DEF P, taken
  <2> QED
    BY <1>2, <2>1, ElementsPicked
<1>4. PICK pos : Picked(taken, content, pos, P)
  BY <1>3
<1>5. tags = [k \in DOMAIN taken |-> taken[k].tag]
  BY DEF Tags
<1> DEFINE n == Len(taken)
<1>6. n \in Nat /\ DOMAIN taken = 1..n
  <2> HIDE DEF taken, P
  <2> QED
    BY <1>3
<1> HIDE DEF taken, tags, n
<1>7. /\ DOMAIN pos = 1..n /\ Range(pos) = P
      /\ \A i \in 1..n : taken[i] = content[pos[i]]
  <2>1. pos \in Seq(Nat) /\ Len(pos) = n
    BY <1>4 DEF Picked, n
  <2> HIDE DEF P
  <2> QED
    BY <1>4, <2>1 DEF Picked
<1>8. ASSUME NEW i \in 1..n PROVE tags[i] \in Tagged(content, type)
  <2>1. pos[i] \in P
    BY <1>7 DEF Range
  <2>2. tags[i] = content[pos[i]].tag
    BY <1>5, <1>6, <1>7
  <2> QED
    BY <1>1, <2>1, <2>2 DEF Tagged
<1>9. ASSUME NEW x \in Tagged(content, type) PROVE \E i \in 1..n : tags[i] = x
  <2>1. PICK k \in P : x = content[k].tag
    BY <1>1 DEF Tagged
  <2>2. PICK i \in 1..n : pos[i] = k
    <3> HIDE DEF P
    <3> QED
      BY <1>7, <2>1 DEF Range
  <2>3. tags[i] = content[pos[i]].tag
    BY <1>5, <1>6, <1>7
  <2> QED
    BY <2>1, <2>2, <2>3
<1>10. DOMAIN tags = 1..n
  BY <1>5, <1>6
<1>11. Range(tags) = Tagged(content, type)
  BY <1>8, <1>9, <1>10 DEF Range
<1>12. tags = <<>> <=> Tagged(content, type) = {}
  <2>1. tags = <<>> <=> n = 0
    <3>1. tags = [i \in 1..n |-> taken[i].tag]
      BY <1>5, <1>6
    <3>2. n = 0 => tags = <<>>
      BY <3>1
    <3>3. tags = <<>> => n = 0
      BY <1>6, <1>10
    <3> QED
      BY <3>2, <3>3
  <2>2. n = 0 <=> Tagged(content, type) = {}
    BY <1>6, <1>8, <1>9
  <2> QED
    BY <2>1, <2>2
<1> QED
  BY <1>11, <1>12 DEF tags

LEMMA TagsTyped ==
  ASSUME NEW content \in Content, NEW type
  PROVE  Tags(content, type) \in Seq(Nat)
<1> DEFINE P == {k \in 1..Len(content) : content[k].type = type}
           taken == OfType(content, type)
<1>1. DOMAIN content = 1..Len(content)
  BY DEF Content, ABlock
<1>2. taken = ElementsAt(content, P)
  BY <1>1 DEF OfType
<1>3. taken \in Seq(ABlock)
  <2>1. P \in SUBSET (1..Len(content)) /\ content \in Seq(ABlock)
    BY DEF Content, ABlock
  <2> HIDE DEF P, taken
  <2> QED
    BY <1>2, <2>1, ElementsPicked
<1> HIDE DEF taken
<1>4. /\ Len(taken) \in Nat /\ DOMAIN taken = 1..Len(taken)
      /\ \A k \in 1..Len(taken) : taken[k].tag \in Nat
  <2>1. \A k \in 1..Len(taken) : taken[k] \in ABlock
    BY <1>3, ElementsOf
  <2>2. Len(taken) \in Nat /\ DOMAIN taken = 1..Len(taken)
    BY <1>3
  <2> QED
    BY <2>1, <2>2 DEF ABlock
<1>5. Tags(content, type) = [k \in 1..Len(taken) |-> taken[k].tag]
  BY <1>4 DEF Tags, taken
<1> QED
  BY <1>4, <1>5

\* A set of positions has a last one.
LEMMA GreatestThere ==
  ASSUME NEW n \in Nat, NEW P \in SUBSET (1..n), P # {}
  PROVE  Max(P) \in P /\ \A x \in P : x <= Max(P)
<1> DEFINE above == {j \in 0..n : \A x \in P : x <= j}
<1>1. above \in SUBSET Nat /\ above # {}
  <2>1. n \in above
    OBVIOUS
  <2> QED
    BY <2>1
<1>2. PICK j \in above : \A i \in above : j <= i
  <2> HIDE DEF above
  <2> QED
    BY <1>1, Least
<1>3. j \in 0..n /\ \A x \in P : x <= j
  BY <1>2
<1>4. j # 0
  <2>1. PICK x \in P : TRUE
    OBVIOUS
  <2>2. x \in 1..n /\ x <= j
    BY <1>3, <2>1
  <2> QED
    BY <1>3, <2>2
<1>5. j \in P
  <2> SUFFICES ASSUME j \notin P PROVE FALSE
    OBVIOUS
  <2>1. j - 1 \in 0..n /\ ~ (j <= j - 1)
    BY <1>3, <1>4
  <2>2. \A x \in P : x <= j - 1
    BY <1>3
  <2>3. j - 1 \in above
    BY <2>1, <2>2
  <2> QED
    BY <1>2, <2>1, <2>3
<1>6. j \in P /\ \A x \in P : j >= x
  BY <1>3, <1>5
<1>7. Max(P) \in P /\ \A x \in P : Max(P) >= x
  BY <1>6 DEF Max
<1> QED
  BY <1>7

-----------------------------------------------------------------------------
(***************************************************************************)
(* The core messages of a conversation: what the plugin puts in, and what  *)
(* is left waiting at the end, takes no call from its results.             *)
(***************************************************************************)

Talk(messages) ==
    /\ messages \in Seq(AMessage)
    /\ \A m \in 1..Len(messages) : Shaped(messages[m])
    /\ Paired(Views(messages))
HasUser(messages) == \E m \in 1..Len(messages) : messages[m].role = "user"

Inserted(t, S, s, u, e) ==
    /\ t \in Seq(S) /\ Len(t) = Len(s) + 1 /\ t[u] = e
    /\ \A k \in 1..(u - 1) : t[k] = s[k]
    /\ \A k \in u..Len(s) : t[k + 1] = s[k]

LEMMA InsertedAt ==
  ASSUME NEW S, NEW s \in Seq(S), NEW u \in 1..Len(s), NEW e \in S
  PROVE  Inserted(InsertAt(s, u, e), S, s, u, e)
<1> DEFINE n == u - 1
           head == SubSeq(s, 1, n)
           rest == SubSeq(s, u, Len(s))
           front == head \o <<e>>
           size == Len(s)
           t == InsertAt(s, u, e)
<1>1. size \in Nat /\ n \in 0..size /\ n + 1 = u /\ u \in 1..size /\ u \in Nat /\ n \in Nat
  OBVIOUS
<1>2. /\ head \in Seq(S) /\ Len(head) = n /\ \A k \in 1..n : head[k] = s[k]
      /\ rest \in Seq(S) /\ Len(rest) = size - n /\ \A k \in 1..(size - n) : rest[k] = s[n + k]
  OBVIOUS
<1>3. t = front \o rest
  BY DEF InsertAt
<1> HIDE DEF head, rest, t
<1>4. /\ front \in Seq(S) /\ Len(front) = u /\ front[u] = e /\ \A k \in 1..n : front[k] = s[k]
  <2> HIDE DEF n
  <2>1. front = Append(head, e)
    BY <1>2
  <2>2. /\ Append(head, e) \in Seq(S) /\ Len(Append(head, e)) = n + 1
        /\ Append(head, e)[n + 1] = e /\ \A k \in 1..n : Append(head, e)[k] = head[k]
    BY <1>2
  <2> HIDE DEF front
  <2> QED
    BY <1>1, <1>2, <2>1, <2>2
<1> HIDE DEF front
<1>5. /\ t \in Seq(S) /\ Len(t) = Len(front) + Len(rest)
      /\ \A k \in 1..Len(front) : t[k] = front[k]
      /\ \A k \in 1..Len(rest) : t[Len(front) + k] = rest[k]
  <2>1. rest \in Seq(S) /\ front \in Seq(S)
    BY <1>2, <1>4
  <2> QED
    BY <1>3, <2>1, JoinedAt
<1>6. Len(front) = u /\ Len(rest) = size - n /\ Len(t) = size + 1
  BY <1>1, <1>2, <1>4, <1>5
<1> HIDE DEF n, size
<1>7. t[u] = e
  BY <1>1, <1>4, <1>5, <1>6
<1>8. \A k \in 1..n : t[k] = s[k]
  BY <1>1, <1>4, <1>5, <1>6
<1>9. ASSUME NEW k \in u..size PROVE t[k + 1] = s[k]
  <2> DEFINE i == k - n
  <2>1. i \in 1..(size - n) /\ u + i = k + 1 /\ n + i = k
    BY <1>1
  <2> HIDE DEF i
  <2>2. i \in 1..Len(rest)
    BY <1>6, <2>1, Zenon
  <2>3. t[Len(front) + i] = rest[i]
    BY <1>5, <2>2, Zenon
  <2>4. rest[i] = s[n + i]
    BY <1>2, <2>1, Zenon
  <2> QED
    BY <1>6, <2>1, <2>3, <2>4, Zenon
<1> QED
  BY <1>5, <1>6, <1>7, <1>8, <1>9 DEF Inserted, t, n, size

LEMMA ReinforcedTalk ==
  ASSUME NEW messages, Talk(messages), HasUser(messages)
  PROVE  Talk(Reinforced(messages)) /\ HasUser(Reinforced(messages))
<1> DEFINE L == Len(messages)
           users == {m \in DOMAIN messages :
                       /\ messages[m].role = "user"
                       /\ \E k \in DOMAIN messages[m].content :
                            messages[m].content[k].type # "tool_result"}
           u == Max(users)
           new == Message("user", <<Block("text", Reminder)>>)
           all == InsertAt(messages, u, new)
<1>1. /\ messages \in Seq(AMessage) /\ L \in Nat /\ DOMAIN messages = 1..L
      /\ Paired(Views(messages))
  BY DEF Talk
<1>2. \A m \in 1..L : messages[m] \in AMessage /\ Shaped(messages[m])
  BY <1>1, ElementsOf DEF Talk
\* Every message of the user is one.
<1>3. ASSUME NEW m \in 1..L, messages[m].role = "user" PROVE m \in users
  <2>1. 1 \in DOMAIN messages[m].content
    BY <1>2 DEF Shaped, AMessage, Content, ABlock
  <2>2. messages[m].content[1].type \in TypesOf("user")
    BY <1>2, <1>3, <2>1 DEF Shaped, OnlyOf
  <2>3. messages[m].content[1].type # "tool_result"
    BY <2>2 DEF TypesOf
  <2> QED
    BY <1>1, <1>3, <2>1, <2>3
<1>4. users # {} /\ \A m \in users : m \in 1..L /\ messages[m].role = "user"
  BY <1>1, <1>3 DEF HasUser
<1> HIDE DEF users
<1>5. u \in users
  <2>1. users \in SUBSET (1..L)
    BY <1>4
  <2> QED
    BY <1>1, <1>4, <2>1, GreatestThere
<1>6. u \in 1..L /\ messages[u].role = "user"
  BY <1>4, <1>5
<1>7. Reinforced(messages) = all
  BY <1>4 DEF Reinforced, users
<1> HIDE DEF u
<1>8. new \in AMessage /\ Shaped(new) /\ Quiet(View(new)) /\ new.role = "user"
  <2>1. Block("text", Reminder) \in ABlock
    BY DEF Block, ABlock, BlockTypes, Reminder
  <2>2. <<Block("text", Reminder)>> \in Content
    BY <2>1 DEF Content, ABlock
  <2>3. new.role = "user" /\ new.content = <<Block("text", Reminder)>>
    BY DEF Message
  <2>4. new \in AMessage
    BY <2>2 DEF Message, AMessage, Roles
  <2>5. OnlyOf({"text"}, new.content)
    BY <2>3 DEF OnlyOf, Block
  <2>6. Shaped(new)
    BY <2>3, <2>5 DEF Shaped, TypesOf
  <2>7. Tagged(new.content, "tool_use") = {} /\ Tagged(new.content, "tool_result") = {}
    BY <2>5, TaggedOther
  <2> QED
    BY <2>3, <2>4, <2>6, <2>7, ViewParts DEF Quiet, View, AView, Roles
<1> HIDE DEF new
<1>9. /\ all \in Seq(AMessage) /\ Len(all) = L + 1 /\ all[u] = new
      /\ \A k \in 1..(u - 1) : all[k] = messages[k]
      /\ \A k \in u..L : all[k + 1] = messages[k]
  <2>1. messages \in Seq(AMessage)
    BY <1>1
  <2>2. u \in 1..Len(messages)
    BY <1>6
  <2>3. new \in AMessage
    BY <1>8
  <2>4. Inserted(InsertAt(messages, u, new), AMessage, messages, u, new)
    BY <2>1, <2>2, <2>3, InsertedAt
  <2> QED
    BY <2>4, Zenon DEF Inserted
<1> HIDE DEF all
<1>10. \A m \in 1..(L + 1) : Shaped(all[m])
  <2>1. ASSUME NEW m \in 1..(L + 1), m > u PROVE m - 1 \in u..L /\ m - 1 \in 1..L /\ (m - 1) + 1 = m
    BY <1>1, <1>6, <2>1
  <2> HIDE DEF L
  <2> SUFFICES ASSUME NEW m \in 1..(L + 1) PROVE Shaped(all[m])
    BY Zenon
  <2>2. m = u \/ m > u \/ (m \in 1..(u - 1) /\ m \in 1..L)
    BY <1>1, <1>6
  <2> QED
    BY <1>2, <1>8, <1>9, <2>1, <2>2
<1>11. Paired(Views(all))
  <2> DEFINE V == Views(messages)
             W == Views(all)
  <2>1. /\ Len(V) = L /\ \A k \in 1..L : V[k] = View(messages[k])
    BY <1>1, ViewsOf
  <2>2. /\ W \in Seq(AView) /\ Len(W) = L + 1 /\ \A k \in 1..(L + 1) : W[k] = View(all[k])
    BY <1>9, ViewsOf
  <2>3. Paired(V)
    BY <1>1
  <2> HIDE DEF V, W, L
  <2>4. /\ u \in 1..Len(V) /\ V[u].role # "tool"
    <3>1. V[u].role = messages[u].role
      BY <1>6, <2>1, ViewParts
    <3> QED
      BY <1>6, <2>1, <3>1
  <2>5. Quiet(W[u])
    <3>1. u \in 1..(L + 1)
      BY <1>1, <1>6
    <3> QED
      BY <1>8, <1>9, <2>2, <3>1
  <2>6. \A k \in 1..(u - 1) : W[k] = V[k]
    <3>1. \A k \in 1..(u - 1) : k \in 1..L /\ k \in 1..(L + 1)
      BY <1>1, <1>6
    <3> QED
      BY <1>9, <2>1, <2>2, <3>1
  <2>7. \A k \in u..Len(V) : W[k + 1] = V[k]
    <3>1. \A k \in u..L : k \in 1..L /\ k + 1 \in 1..(L + 1)
      BY <1>1, <1>6
    <3> QED
      BY <1>9, <2>1, <2>2, <3>1
  <2>8. Len(W) = Len(V) + 1
    BY <2>1, <2>2
  <2> QED
    BY <2>2, <2>3, <2>4, <2>5, <2>6, <2>7, <2>8, PairedInserted DEF W
<1>12. HasUser(all)
  <2>1. u \in 1..(L + 1) /\ Len(all) = L + 1
    BY <1>1, <1>6, <1>9
  <2> QED
    BY <1>8, <1>9, <2>1 DEF HasUser
<1>13. Talk(all)
  BY <1>9, <1>10, <1>11 DEF Talk
<1> QED
  BY <1>7, <1>12, <1>13

SeesUser(V) == \E n \in 1..Len(V) : V[n].role = "user"

LEMMA UserSeen ==
  ASSUME NEW messages \in Seq(AMessage)
  PROVE  HasUser(messages) <=> SeesUser(Views(messages))
<1> DEFINE V == Views(messages)
<1>1. Len(V) = Len(messages) /\ \A k \in 1..Len(messages) : V[k] = View(messages[k])
  BY ViewsOf
<1> HIDE DEF V
<1>2. \A k \in 1..Len(messages) : V[k].role = messages[k].role
  BY <1>1, ViewParts
<1> QED
  BY <1>1, <1>2, Zenon DEF HasUser, SeesUser, V

LEMMA UserStays ==
  ASSUME NEW V \in Seq(AView), NEW v \in AView, SeesUser(V) \/ v.role = "user"
  PROVE  SeesUser(Append(V, v))
<1> DEFINE n == Len(V)
           W == Append(V, v)
<1>1. n \in Nat /\ Len(W) = n + 1 /\ W[n + 1] = v /\ \A k \in 1..n : W[k] = V[k]
  OBVIOUS
<1> HIDE DEF W
<1>2. CASE v.role = "user"
  <2>1. n + 1 \in 1..(n + 1)
    BY <1>1
  <2> QED
    BY <1>1, <1>2, <2>1 DEF SeesUser, W
<1>3. CASE SeesUser(V)
  <2>1. PICK k \in 1..n : V[k].role = "user"
    BY <1>3 DEF SeesUser
  <2>2. k \in 1..(n + 1)
    BY <1>1
  <2> QED
    BY <1>1, <2>1, <2>2 DEF SeesUser, W
<1> QED
  BY <1>2, <1>3

LEMMA TidyTalk ==
  ASSUME NEW c, Tidy(c), Paired(Seen(c))
  PROVE  /\ Talk(c.messages)
         /\ HasUser(c.messages) <=> SeesUser(Seen(c))
<1>1. c.messages \in Seq(AMessage)
  BY DEF Tidy, Conv
<1>2. DOMAIN c.messages = 1..Len(c.messages)
  BY <1>1
<1>3. \A m \in 1..Len(c.messages) : Shaped(c.messages[m])
  BY <1>2, Zenon DEF Tidy
<1>4. Paired(Views(c.messages))
  BY DEF Seen
<1> QED
  BY <1>1, <1>3, <1>4, UserSeen DEF Talk, Seen

LEMMA AllTakenTalk ==
  ASSUME NEW c, Tidy(c), c.calls = <<>>, Paired(Seen(c))
  PROVE  /\ Talk(AllTaken(c).messages)
         /\ SeesUser(Seen(c)) => HasUser(AllTaken(c).messages)
<1> DEFINE d == FlushReasoning(c)
<1>1. /\ Tidy(d) /\ d.calls = <<>>
      /\ c.reasoning = <<>> => d = c
      /\ c.reasoning # <<>> =>
           \E v : v.role = "assistant" /\ Quiet(v) /\ Seen(d) = Append(Seen(c), v)
  BY FlushReasoningTidy
<1>2. AllTaken(c) = d
  BY <1>1, FlushCallsTidy DEF AllTaken
<1> HIDE DEF d
<1>3. Paired(Seen(d)) /\ (SeesUser(Seen(c)) => SeesUser(Seen(d)))
  <2>1. CASE c.reasoning = <<>>
    BY <1>1, <2>1
  <2>2. CASE c.reasoning # <<>>
    <3>1. PICK v : Quiet(v) /\ Seen(d) = Append(Seen(c), v)
      BY <1>1, <2>2
    <3>2. Seen(c) \in Seq(AView) /\ v \in AView
      BY <3>1 DEF Paired, Quiet
    <3>3. Paired(Append(Seen(c), v))
      BY <3>1, PairedQuiet
    <3>4. SeesUser(Seen(c)) => SeesUser(Append(Seen(c), v))
      BY <3>2, UserStays
    <3> QED
      BY <3>1, <3>3, <3>4
  <2> QED
    BY <2>1, <2>2
<1> QED
  BY <1>1, <1>2, <1>3, TidyTalk

\* What convertInput has read, and how it goes on: nothing waits but reasoning, and
\* every call has its result.
Resolved(h) ==
    LET c == Reading(h)
    IN Tidy(c) /\ c.calls = <<>> /\ Paired(Seen(c)) /\ SeesUser(Seen(c))

LEMMA CoreTalk ==
  ASSUME Resolved(history)
  PROVE  Talk(CoreMessages) /\ HasUser(CoreMessages)
<1> DEFINE messages == AllTaken(ReadItems).messages
<1>1. ReadItems = Reading(history)
  BY DEF ReadItems, Reading
<1>2. /\ Tidy(ReadItems) /\ ReadItems.calls = <<>> /\ Paired(Seen(ReadItems))
      /\ SeesUser(Seen(ReadItems))
  BY <1>1, Zenon DEF Resolved
<1>3. Talk(messages) /\ HasUser(messages)
  BY <1>2, AllTakenTalk
<1>4. CoreMessages = IF reinforces THEN Reinforced(messages) ELSE messages
  BY DEF CoreMessages
<1> HIDE DEF messages
<1> QED
  BY <1>3, <1>4, ReinforcedTalk

-----------------------------------------------------------------------------
(***************************************************************************)
(* Reading an answer: its calls wait, all of them, for their results.      *)
(***************************************************************************)

CallTags(items) == UNION {Range(items[k].tags) : k \in {j \in 1..Len(items) : IsCall(items[j])}}

\* No output, and no message behind a call.
AnswerItems(items) ==
    /\ items \in Seq(AnItem)
    /\ \A k \in 1..Len(items) : items[k].kind # "output"
    /\ \A i, j \in 1..Len(items) : i < j /\ IsCall(items[i]) => items[j].kind # "message"

\* A history with no call that waits for its result.
Settled(h) ==
    h \in Seq(AnItem) /\ Tidy(Reading(h)) /\ Reading(h).calls = <<>> /\ Paired(Seen(Reading(h)))

\* One with the given calls that wait.
Asking(h, tags) ==
    /\ h \in Seq(AnItem) /\ Tidy(Reading(h)) /\ Paired(Seen(Reading(h)))
    /\ Tagged(Reading(h).calls, "tool_use") = tags
    /\ Reading(h).calls = <<>> <=> tags = {}

LEMMA CallTagsFound ==
  ASSUME NEW items, NEW x
  PROVE  x \in CallTags(items) <=> \E k \in 1..Len(items) : IsCall(items[k]) /\ x \in Range(items[k].tags)
BY DEF CallTags

LEMMA AnswerAppended ==
  ASSUME NEW items, AnswerItems(items), NEW x \in AnItem, x.kind # "output",
         x.kind = "message" => CallTags(items) = {}
  PROVE  /\ AnswerItems(Append(items, x))
         /\ CallTags(Append(items, x)) = CallTags(items) \cup (IF IsCall(x) THEN Range(x.tags) ELSE {})
<1> DEFINE n == Len(items)
           new == Append(items, x)
<1>1. items \in Seq(AnItem) /\ n \in Nat
  BY DEF AnswerItems
<1>2. /\ new \in Seq(AnItem) /\ Len(new) = n + 1 /\ new[n + 1] = x
      /\ \A k \in 1..n : new[k] = items[k]
  BY <1>1
<1>3. \A k \in 1..n : items[k] \in AnItem /\ items[k].kind # "output"
  BY <1>1, ElementsOf DEF AnswerItems
<1>4. \A i, j \in 1..n : i < j /\ IsCall(items[i]) => items[j].kind # "message"
  BY DEF AnswerItems
<1>5. \A k \in 1..(n + 1) : k = n + 1 \/ k \in 1..n
  BY <1>1
<1>6. Len(items) = n
  OBVIOUS
<1>7. \A k \in 1..n : IsCall(items[k]) => CallTags(items) # {}
  <2> HIDE DEF n
  <2> SUFFICES ASSUME NEW k \in 1..n, IsCall(items[k]) PROVE CallTags(items) # {}
    BY Zenon
  <2>1. items[k].tags \in Seq(Nat) /\ items[k].tags # <<>>
    BY <1>3, ItemParts
  <2>2. items[k].tags[1] \in Range(items[k].tags)
    BY <2>1 DEF Range
  <2> QED
    BY <1>6, <2>2, CallTagsFound
<1> HIDE DEF n, new
<1>8. \A i, j \in 1..(n + 1) : i < j /\ IsCall(new[i]) => new[j].kind # "message"
  <2> SUFFICES ASSUME NEW i \in 1..(n + 1), NEW j \in 1..(n + 1), i < j, IsCall(new[i])
               PROVE  new[j].kind # "message"
    BY Zenon
  <2>1. i \in 1..n
    BY <1>1
  <2>2. CASE j \in 1..n
    BY <1>2, <1>4, <2>1, <2>2
  <2>3. CASE j = n + 1
    BY <1>2, <1>7, <2>1, <2>3
  <2> QED
    BY <1>5, <2>2, <2>3
<1>9. AnswerItems(new)
  <2>1. \A k \in 1..(n + 1) : new[k].kind # "output"
    BY <1>2, <1>3, <1>5
  <2> QED
    BY <1>2, <1>8, <2>1 DEF AnswerItems
<1>10. ASSUME NEW y
       PROVE  y \in CallTags(new) <=> y \in CallTags(items) \/ (IsCall(x) /\ y \in Range(x.tags))
  <2>1. y \in CallTags(new)
          <=> \E k \in 1..(n + 1) : IsCall(new[k]) /\ y \in Range(new[k].tags)
    BY <1>2, CallTagsFound
  <2>2. y \in CallTags(items) <=> \E k \in 1..n : IsCall(items[k]) /\ y \in Range(items[k].tags)
    BY <1>6, CallTagsFound
  <2>3. n + 1 \in 1..(n + 1) /\ \A k \in 1..n : k \in 1..(n + 1)
    BY <1>1
  <2> QED
    BY <1>2, <1>5, <2>1, <2>2, <2>3
<1>11. CallTags(new) = CallTags(items) \cup (IF IsCall(x) THEN Range(x.tags) ELSE {})
  BY <1>10
<1> QED
  BY <1>9, <1>11 DEF new

LEMMA AnswerNothing == AnswerItems(<<>>) /\ CallTags(<<>>) = {}
<1>1. <<>> \in Seq(AnItem) /\ Len(<<>>) = 0 /\ 1..0 = {}
  OBVIOUS
<1> QED
  BY <1>1 DEF AnswerItems, CallTags

\* One item more.
AnswerRead(c, items, k) ==
    /\ Tidy(c) /\ Paired(Seen(c))
    /\ \A x : x \in Tagged(c.calls, "tool_use")
                <=> \E j \in 1..k : IsCall(items[j]) /\ x \in Range(items[j].tags)
    /\ c.calls = <<>> <=> \A j \in 1..k : ~ IsCall(items[j])

LEMMA AnswerReadNext ==
  ASSUME NEW items, AnswerItems(items), NEW k \in 1..Len(items), NEW c, AnswerRead(c, items, k - 1)
  PROVE  LET d == Take(c, items[k], FALSE)
         IN AnswerRead(d, items, k) /\ (SeesUser(Seen(c)) => SeesUser(Seen(d)))
<1> DEFINE x == items[k]
           d == Take(c, x, FALSE)
<1>1. /\ items \in Seq(AnItem) /\ Len(items) \in Nat
      /\ k \in Nat /\ k - 1 \in Nat /\ k \in 1..k
      /\ \A j \in 1..k : j = k \/ j \in 1..(k - 1)
      /\ \A j \in 1..(k - 1) : j \in 1..k /\ j \in 1..Len(items) /\ j < k
  BY DEF AnswerItems
<1>2. x \in AnItem /\ x.kind # "output"
  BY <1>1, ElementsOf DEF AnswerItems
<1>3. x.kind \in {"message", "reasoning", "function_call"} /\ x.tags \in Seq(Nat) /\ x.tags # <<>>
  BY <1>2, ItemParts DEF HistoryKinds
<1>4. x.kind = "message" => \A j \in 1..(k - 1) : ~ IsCall(items[j])
  BY <1>1 DEF AnswerItems
<1>5. Tidy(c) /\ Paired(Seen(c)) /\ Seen(c) \in Seq(AView)
  BY DEF AnswerRead, Paired
<1>6. /\ \A y : y \in Tagged(c.calls, "tool_use")
                  <=> \E j \in 1..(k - 1) : IsCall(items[j]) /\ y \in Range(items[j].tags)
      /\ c.calls = <<>> <=> \A j \in 1..(k - 1) : ~ IsCall(items[j])
  BY DEF AnswerRead
<1>7. items[k] = x
  OBVIOUS
<1> HIDE DEF x, d
<1>8. CASE x.kind = "message"
  <2>1. c.calls = <<>>
    BY <1>4, <1>6, <1>8
  <2>2. FlushCalls(c) = c
    BY <2>1 DEF FlushCalls
  <2>3. d = TakeMessage(c, x)
    BY <1>2, <1>8, <2>2, TakeIs DEF d
  <2>4. /\ Tidy(d) /\ d.calls = c.calls
        /\ \E v : Quiet(v) /\ Seen(d) = Append(Seen(c), v)
    BY <1>2, <1>5, <2>3, TakeMessageTidy
  <2>5. PICK v : Quiet(v) /\ Seen(d) = Append(Seen(c), v)
    BY <2>4
  <2>6. Paired(Append(Seen(c), v))
    BY <1>5, <2>5, PairedQuiet
  <2>7. SeesUser(Seen(c)) => SeesUser(Append(Seen(c), v))
    <3>1. v \in AView
      BY <2>5 DEF Quiet
    <3> QED
      BY <1>5, <3>1, UserStays
  <2>8. ~ IsCall(x)
    BY <1>8 DEF IsCall
  <2>9. \A y : y \in Tagged(d.calls, "tool_use")
                 <=> \E j \in 1..k : IsCall(items[j]) /\ y \in Range(items[j].tags)
    BY <1>1, <1>6, <1>7, <2>4, <2>8
  <2>10. d.calls = <<>> <=> \A j \in 1..k : ~ IsCall(items[j])
    BY <1>1, <1>6, <1>7, <2>4, <2>8
  <2>11. AnswerRead(d, items, k)
    BY <2>4, <2>5, <2>6, <2>9, <2>10 DEF AnswerRead
  <2> QED
    BY <2>5, <2>7, <2>11 DEF d, x
<1>9. CASE x.kind = "reasoning"
  <2>1. d = TakeReasoning(c, x)
    BY <1>2, <1>9, TakeIs DEF d
  <2>2. /\ Tidy(d) /\ Seen(d) = Seen(c) /\ (d.calls = <<>> <=> c.calls = <<>>)
        /\ Tagged(d.calls, "tool_use") = Tagged(c.calls, "tool_use")
    BY <1>2, <1>5, <2>1, TakeReasoningTidy
  <2>8. ~ IsCall(x)
    BY <1>9 DEF IsCall
  <2>9. \A y : y \in Tagged(d.calls, "tool_use")
                 <=> \E j \in 1..k : IsCall(items[j]) /\ y \in Range(items[j].tags)
    BY <1>1, <1>6, <1>7, <2>2, <2>8
  <2>10. d.calls = <<>> <=> \A j \in 1..k : ~ IsCall(items[j])
    BY <1>1, <1>6, <1>7, <2>2, <2>8
  <2>11. AnswerRead(d, items, k)
    BY <1>5, <2>2, <2>9, <2>10 DEF AnswerRead
  <2> QED
    BY <2>2, <2>11 DEF d, x
<1>10. CASE x.kind = "function_call"
  <2>1. d = TakeCall(c, x, FALSE)
    BY <1>2, <1>10, TakeIs DEF d
  <2>2. /\ Tidy(d) /\ Seen(d) = Seen(c)
        /\ Tagged(d.calls, "tool_use") = Tagged(c.calls, "tool_use") \cup Range(x.tags)
    BY <1>2, <1>5, <2>1, TakeCallTidy
  <2>3. IsCall(x)
    BY <1>10 DEF IsCall
  <2>4. d.calls # <<>>
    <3>1. x.tags[1] \in Range(x.tags)
      BY <1>3 DEF Range
    <3>2. Tagged(<<>>, "tool_use") = {}
      BY DEF Tagged
    <3> QED
      BY <2>2, <3>1, <3>2
  <2>9. \A y : y \in Tagged(d.calls, "tool_use")
                 <=> \E j \in 1..k : IsCall(items[j]) /\ y \in Range(items[j].tags)
    BY <1>1, <1>6, <1>7, <2>2, <2>3
  <2>10. d.calls = <<>> <=> \A j \in 1..k : ~ IsCall(items[j])
    BY <1>1, <1>7, <2>3, <2>4
  <2>11. AnswerRead(d, items, k)
    BY <1>5, <2>2, <2>9, <2>10 DEF AnswerRead
  <2> QED
    BY <2>2, <2>11 DEF d, x
<1> QED
  BY <1>3, <1>8, <1>9, <1>10

LEMMA AnswerAsks ==
  ASSUME NEW h, Settled(h), NEW items, AnswerItems(items)
  PROVE  /\ Asking(h \o items, CallTags(items))
         /\ SeesUser(Seen(Reading(h))) => SeesUser(Seen(Reading(h \o items)))
<1> DEFINE n == Len(items)
<1>1. h \in Seq(AnItem) /\ items \in Seq(AnItem) /\ n \in Nat
  BY DEF Settled, AnswerItems
<1>2. PICK f \in [0..n -> TidyConvs] :
        /\ f[0] = Reading(h) /\ Reading(h \o items) = f[n]
        /\ h \o items \in Seq(AnItem)
        /\ \A k \in 1..n : f[k] = Take(f[k - 1], items[k], FALSE)
  BY <1>1, ReadingJoined
<1>3. Len(items) = n
  OBVIOUS
<1> HIDE DEF n
<1> DEFINE T == {k \in 0..n : /\ AnswerRead(f[k], items, k)
                              /\ SeesUser(Seen(f[0])) => SeesUser(Seen(f[k]))}
<1>4. 0 \in T
  <2>1. Tidy(f[0]) /\ f[0].calls = <<>> /\ Paired(Seen(f[0]))
    BY <1>2 DEF Settled
  <2>2. Tagged(<<>>, "tool_use") = {} /\ 1..0 = {} /\ 0 \in 0..n
    BY <1>1 DEF Tagged
  <2>3. AnswerRead(f[0], items, 0)
    BY <2>1, <2>2 DEF AnswerRead
  <2> QED
    BY <2>2, <2>3
<1>5. ASSUME NEW k \in 1..n, k - 1 \in T PROVE k \in T
  <2>1. k \in 0..n /\ k \in 1..Len(items)
    BY <1>1, <1>3
  <2>2. AnswerRead(f[k - 1], items, k - 1)
    BY <1>5
  <2>3. f[k] = Take(f[k - 1], items[k], FALSE)
    BY <1>2
  <2>4. AnswerRead(f[k], items, k) /\ (SeesUser(Seen(f[k - 1])) => SeesUser(Seen(f[k])))
    BY <2>1, <2>2, <2>3, AnswerReadNext
  <2> QED
    BY <1>5, <2>1, <2>4
<1>6. n \in T
  <2> HIDE DEF T
  <2>1. n \in 0..n
    BY <1>1
  <2> QED
    BY <1>1, <1>4, <1>5, <2>1, AllUpTo
<1> DEFINE c == Reading(h \o items)
<1>7. c = f[n] /\ AnswerRead(c, items, n)
  BY <1>2, <1>6
<1> HIDE DEF T, c
<1>8. Tagged(c.calls, "tool_use") = CallTags(items)
  <2>1. \A y : y \in Tagged(c.calls, "tool_use")
                 <=> \E j \in 1..n : IsCall(items[j]) /\ y \in Range(items[j].tags)
    BY <1>7 DEF AnswerRead
  <2> QED
    BY <1>3, <2>1, CallTagsFound
<1>9. c.calls = <<>> <=> CallTags(items) = {}
  <2>1. c.calls = <<>> <=> \A j \in 1..n : ~ IsCall(items[j])
    BY <1>7 DEF AnswerRead
  <2>2. ASSUME NEW j \in 1..n, IsCall(items[j]) PROVE CallTags(items) # {}
    <3>1. items[j] \in AnItem
      BY <1>1, <1>3, ElementsOf
    <3>2. items[j].tags \in Seq(Nat) /\ items[j].tags # <<>>
      BY <3>1, ItemParts
    <3>3. items[j].tags[1] \in Range(items[j].tags)
      BY <3>2 DEF Range
    <3> QED
      BY <1>3, <2>2, <3>3, CallTagsFound
  <2>3. (\A j \in 1..n : ~ IsCall(items[j])) => CallTags(items) = {}
    BY <1>3, CallTagsFound
  <2> QED
    BY <2>1, <2>2, <2>3
<1>10. Asking(h \o items, CallTags(items))
  BY <1>2, <1>7, <1>8, <1>9 DEF Asking, AnswerRead, c
<1> QED
  BY <1>2, <1>6, <1>7, <1>10 DEF T, c

-----------------------------------------------------------------------------
(***************************************************************************)
(* A provider's answer, as the items that the client gets and keeps.       *)
(***************************************************************************)

\* No text comes after a call.
AnAnswer(content) ==
    /\ content \in Content /\ OnlyOf({"text", "reasoning", "tool_use"}, content)
    /\ \A i, j \in 1..Len(content) :
         i < j /\ content[i].type = "tool_use" => content[j].type # "text"

LEMMA ItemTyped ==
  ASSUME NEW kind \in HistoryKinds, NEW role \in {"user", "assistant", "none"},
         NEW tags \in Seq(Nat), tags # <<>>
  PROVE  /\ Item(kind, role, tags) \in AnItem
         /\ Item(kind, role, tags).kind = kind /\ Item(kind, role, tags).tags = tags
         /\ Item(kind, role, tags).role = role
BY DEF Item, AnItem

LEMMA OneTag ==
  ASSUME NEW tag \in Nat PROVE <<tag>> \in Seq(Nat) /\ <<tag>> # <<>> /\ Range(<<tag>>) = {tag}
BY DEF Range

LEMMA StreamItemTyped ==
  ASSUME NEW b \in ABlock, b.type \in {"text", "reasoning", "tool_use"}
  PROVE  /\ StreamItem(b) \in AnItem /\ StreamItem(b).kind # "output"
         /\ StreamItem(b).kind = "message" <=> b.type = "text"
         /\ IsCall(StreamItem(b)) <=> b.type = "tool_use"
         /\ Range(StreamItem(b).tags) = {b.tag}
<1>1. b.tag \in Nat
  BY DEF ABlock
<1>2. <<b.tag>> \in Seq(Nat) /\ <<b.tag>> # <<>> /\ Range(<<b.tag>>) = {b.tag}
  BY <1>1, OneTag
<1> DEFINE tags == <<b.tag>>
<1> HIDE DEF tags
<1>3. CASE b.type = "text"
  <2> DEFINE x == StreamItem(b)
  <2>1. x = Item("message", "assistant", tags)
    BY <1>3 DEF StreamItem, tags
  <2>2. "message" \in HistoryKinds
    BY DEF HistoryKinds
  <2>3. tags \in Seq(Nat) /\ tags # <<>> /\ Range(tags) = {b.tag}
    BY <1>2 DEF tags
  <2> HIDE DEF x
  <2>4. x \in AnItem /\ x.kind = "message" /\ x.tags = tags
    BY <2>1, <2>2, <2>3, ItemTyped
  <2> QED
    BY <1>3, <2>3, <2>4 DEF IsCall, x
<1>4. CASE b.type = "reasoning"
  <2> DEFINE x == StreamItem(b)
  <2>1. x = Item("reasoning", "none", tags)
    BY <1>4 DEF StreamItem, tags
  <2>2. "reasoning" \in HistoryKinds
    BY DEF HistoryKinds
  <2>3. tags \in Seq(Nat) /\ tags # <<>> /\ Range(tags) = {b.tag}
    BY <1>2 DEF tags
  <2> HIDE DEF x
  <2>4. x \in AnItem /\ x.kind = "reasoning" /\ x.tags = tags
    BY <2>1, <2>2, <2>3, ItemTyped
  <2> QED
    BY <1>4, <2>3, <2>4 DEF IsCall, x
<1>5. CASE b.type = "tool_use"
  <2> DEFINE x == StreamItem(b)
  <2>1. x = Item("function_call", "none", tags)
    BY <1>5 DEF StreamItem, tags
  <2>2. "function_call" \in HistoryKinds
    BY DEF HistoryKinds
  <2>3. tags \in Seq(Nat) /\ tags # <<>> /\ Range(tags) = {b.tag}
    BY <1>2 DEF tags
  <2> HIDE DEF x
  <2>4. x \in AnItem /\ x.kind = "function_call" /\ x.tags = tags
    BY <2>1, <2>2, <2>3, ItemTyped
  <2> QED
    BY <1>5, <2>3, <2>4 DEF IsCall, x
<1> QED
  BY <1>3, <1>4, <1>5

LEMMA AnswerBlocks ==
  ASSUME NEW content, AnAnswer(content)
  PROVE  /\ Len(content) \in Nat /\ DOMAIN content = 1..Len(content)
         /\ \A k \in 1..Len(content) :
              /\ content[k] \in ABlock /\ content[k].tag \in Nat
              /\ content[k].type \in {"text", "reasoning", "tool_use"}
<1>1. content \in Seq(ABlock) /\ OnlyOf({"text", "reasoning", "tool_use"}, content)
  BY DEF AnAnswer, Content, ABlock
<1>2. /\ Len(content) \in Nat /\ DOMAIN content = 1..Len(content)
      /\ \A k \in 1..Len(content) : content[k] \in ABlock
  BY <1>1, ElementsOf
<1> QED
  BY <1>1, <1>2 DEF OnlyOf, ABlock

LEMMA StreamAnswers ==
  ASSUME NEW content, AnAnswer(content)
  PROVE  /\ AnswerItems(FromCoreStream(content))
         /\ CallTags(FromCoreStream(content)) = Tagged(content, "tool_use")
<1> DEFINE n == Len(content)
           items == FromCoreStream(content)
<1>1. /\ n \in Nat /\ DOMAIN content = 1..n
      /\ \A k \in 1..n : /\ content[k] \in ABlock
                         /\ content[k].type \in {"text", "reasoning", "tool_use"}
  BY AnswerBlocks
<1>2. \A i, j \in 1..n : i < j /\ content[i].type = "tool_use" => content[j].type # "text"
  BY DEF AnAnswer
<1>3. items = [k \in 1..n |-> StreamItem(content[k])]
  BY <1>1 DEF FromCoreStream
<1> HIDE DEF n, items
<1>4. \A k \in 1..n : /\ items[k] \in AnItem /\ items[k].kind # "output"
                      /\ items[k].kind = "message" <=> content[k].type = "text"
                      /\ IsCall(items[k]) <=> content[k].type = "tool_use"
                      /\ Range(items[k].tags) = {content[k].tag}
  BY <1>1, <1>3, StreamItemTyped
<1>5. items \in Seq(AnItem) /\ Len(items) = n
  BY <1>1, <1>3, <1>4
<1>6. AnswerItems(items)
  BY <1>2, <1>4, <1>5 DEF AnswerItems
<1>7. ASSUME NEW x PROVE x \in CallTags(items) <=> x \in Tagged(content, "tool_use")
  <2>1. x \in CallTags(items) <=> \E k \in 1..n : IsCall(items[k]) /\ x \in Range(items[k].tags)
    BY <1>5, CallTagsFound
  <2>2. x \in Tagged(content, "tool_use")
          <=> \E k \in 1..n : content[k].type = "tool_use" /\ x = content[k].tag
    BY <1>1 DEF Tagged
  <2> QED
    BY <1>4, <2>1, <2>2
<1> QED
  BY <1>6, <1>7 DEF items

\* What is at hand after the first k blocks: a text that waits has no call before it.
Output == [items : Seq(AnItem), texts : Seq(Nat)]
AnswerTo(out, content, k) ==
    /\ out \in Output /\ AnswerItems(out.items)
    /\ \A x : x \in CallTags(out.items)
                <=> \E j \in 1..k : content[j].type = "tool_use" /\ x = content[j].tag
    /\ out.texts # <<>> => CallTags(out.items) = {}

LEMMA TextsPut ==
  ASSUME NEW items, AnswerItems(items), NEW texts \in Seq(Nat), texts # <<>> => CallTags(items) = {}
  PROVE  AnswerItems(items \o TextItem(texts)) /\ CallTags(items \o TextItem(texts)) = CallTags(items)
<1>1. items \in Seq(AnItem)
  BY DEF AnswerItems
<1>2. CASE texts = <<>>
  <2>1. items \o TextItem(texts) = items
    BY <1>1, <1>2 DEF TextItem
  <2> QED
    BY <2>1
<1>3. CASE texts # <<>>
  <2> DEFINE x == Item("message", "assistant", texts)
  <2>1. x \in AnItem /\ x.kind = "message" /\ ~ IsCall(x)
    BY <1>3, ItemTyped DEF HistoryKinds, IsCall
  <2>2. TextItem(texts) = <<x>>
    BY <1>3 DEF TextItem
  <2> HIDE DEF x
  <2>3. items \o <<x>> = Append(items, x)
    BY <1>1, <2>1
  <2> QED
    BY <1>3, <2>1, <2>2, <2>3, AnswerAppended
<1> QED
  BY <1>2, <1>3

LEMMA AnswerToNext ==
  ASSUME NEW content, AnAnswer(content), NEW k \in 1..Len(content),
         NEW out, AnswerTo(out, content, k - 1)
  PROVE  AnswerTo(AddToOutput(out, content[k]), content, k)
<1> DEFINE b == content[k]
           d == AddToOutput(out, b)
<1>1. /\ k \in Nat /\ k - 1 \in Nat /\ k \in 1..k
      /\ \A j \in 1..k : j = k \/ j \in 1..(k - 1)
      /\ \A j \in 1..(k - 1) : j \in 1..k /\ j \in 1..Len(content) /\ j < k
  BY AnswerBlocks
<1>2. b.tag \in Nat /\ b.type \in {"text", "reasoning", "tool_use"} /\ content[k] = b
  BY AnswerBlocks
<1>3. b.type = "text" => \A j \in 1..(k - 1) : content[j].type # "tool_use"
  BY <1>1 DEF AnAnswer
<1>4. /\ out.items \in Seq(AnItem) /\ out.texts \in Seq(Nat) /\ AnswerItems(out.items)
      /\ out \in Output
  BY DEF AnswerTo, Output
<1>5. /\ \A x : x \in CallTags(out.items)
                  <=> \E j \in 1..(k - 1) : content[j].type = "tool_use" /\ x = content[j].tag
      /\ out.texts # <<>> => CallTags(out.items) = {}
  BY DEF AnswerTo
<1> DEFINE tags == <<b.tag>>
<1>6. tags \in Seq(Nat) /\ tags # <<>> /\ Range(tags) = {b.tag}
  BY <1>2, OneTag
<1> HIDE DEF tags, b
<1>7. CASE b.type = "text"
  <2>1. d = [out EXCEPT !.texts = Append(@, b.tag)]
    BY <1>7 DEF AddToOutput
  <2>2. Append(out.texts, b.tag) \in Seq(Nat)
    BY <1>2, <1>4
  <2>3. d \in Output /\ d.items = out.items
    BY <1>4, <2>1, <2>2 DEF Output
  <2>4. CallTags(out.items) = {}
    BY <1>3, <1>5, <1>7
  <2>5. \A x : x \in CallTags(out.items)
                 <=> \E j \in 1..k : content[j].type = "tool_use" /\ x = content[j].tag
    BY <1>1, <1>2, <1>5, <1>7
  <2> HIDE DEF d
  <2>6. AnswerTo(d, content, k)
    BY <1>4, <2>3, <2>4, <2>5 DEF AnswerTo
  <2> QED
    BY <2>6 DEF d, b
<1>8. CASE b.type = "reasoning"
  <2> DEFINE x == Item("reasoning", "none", tags)
  <2>1. x \in AnItem /\ x.kind = "reasoning" /\ ~ IsCall(x)
    BY <1>6, ItemTyped DEF HistoryKinds, IsCall
  <2>2. d = [out EXCEPT !.items = Append(@, x)]
    BY <1>8 DEF AddToOutput, tags
  <2> HIDE DEF x
  <2>3. /\ AnswerItems(Append(out.items, x))
        /\ CallTags(Append(out.items, x)) = CallTags(out.items)
    BY <1>4, <2>1, AnswerAppended
  <2>4. Append(out.items, x) \in Seq(AnItem)
    BY <1>4, <2>1
  <2>5. d \in Output /\ d.items = Append(out.items, x) /\ d.texts = out.texts
    BY <1>4, <2>2, <2>4 DEF Output
  <2>6. \A y : y \in CallTags(out.items)
                 <=> \E j \in 1..k : content[j].type = "tool_use" /\ y = content[j].tag
    BY <1>1, <1>2, <1>5, <1>8
  <2> HIDE DEF d
  <2>7. AnswerTo(d, content, k)
    BY <1>5, <2>3, <2>5, <2>6 DEF AnswerTo
  <2> QED
    BY <2>7 DEF d, b
<1>9. CASE b.type = "tool_use"
  <2> DEFINE x == Item("function_call", "none", tags)
             all == out.items \o TextItem(out.texts)
  <2>1. x \in AnItem /\ x.kind = "function_call" /\ IsCall(x) /\ x.tags = tags
    BY <1>6, ItemTyped DEF HistoryKinds, IsCall
  <2>2. d = [items |-> Append(all, x), texts |-> <<>>]
    BY <1>9 DEF AddToOutput, tags
  <2>3. AnswerItems(all) /\ CallTags(all) = CallTags(out.items)
    BY <1>4, <1>5, TextsPut
  <2> HIDE DEF x, all
  <2>4. /\ AnswerItems(Append(all, x))
        /\ CallTags(Append(all, x)) = CallTags(out.items) \cup {b.tag}
    BY <1>6, <2>1, <2>3, AnswerAppended
  <2>5. d.items = Append(all, x) /\ d.texts = <<>> /\ d \in Output
    BY <2>2, <2>4 DEF Output, AnswerItems
  <2>6. \A y : y \in CallTags(out.items) \cup {b.tag}
                 <=> \E j \in 1..k : content[j].type = "tool_use" /\ y = content[j].tag
    BY <1>1, <1>2, <1>5, <1>9
  <2> HIDE DEF d
  <2>7. AnswerTo(d, content, k)
    BY <2>4, <2>5, <2>6 DEF AnswerTo
  <2> QED
    BY <2>7 DEF d, b
<1> QED
  BY <1>2, <1>7, <1>8, <1>9

LEMMA ResponseAnswers ==
  ASSUME NEW content, AnAnswer(content)
  PROVE  /\ AnswerItems(FromCoreResponse(content))
         /\ CallTags(FromCoreResponse(content)) = Tagged(content, "tool_use")
<1> DEFINE n == Len(content)
           D == Output
           base == [items |-> <<>>, texts |-> <<>>]
           step == [k \in 1..n |-> [c \in D |-> AddToOutput(c, content[k])]]
           IsUpTo(f) == f = [k \in 0..n |->
              IF k = 0 THEN base ELSE AddToOutput(f[k - 1], content[k])]
           upTo == CHOOSE f : IsUpTo(f)
<1>1. n \in Nat /\ base \in D
  BY AnswerBlocks DEF Output
<1>2. ASSUME NEW k \in 1..n, NEW c \in D PROVE AddToOutput(c, content[k]) \in D
  <2>1. content[k].tag \in Nat /\ content[k].type \in {"text", "reasoning", "tool_use"}
    BY AnswerBlocks
  <2> DEFINE b == content[k]
             tags == <<b.tag>>
  <2>2. tags \in Seq(Nat) /\ tags # <<>>
    BY <2>1, OneTag
  <2>3. c.items \in Seq(AnItem) /\ c.texts \in Seq(Nat)
    BY DEF Output
  <2> HIDE DEF b, tags
  <2>4. CASE b.type = "text"
    <3>1. AddToOutput(c, b) = [c EXCEPT !.texts = Append(@, b.tag)]
      BY <2>4 DEF AddToOutput
    <3>2. Append(c.texts, b.tag) \in Seq(Nat)
      BY <2>1, <2>3 DEF b
    <3> QED
      BY <3>1, <3>2 DEF b, Output
  <2>5. CASE b.type = "reasoning"
    <3>1. AddToOutput(c, b) = [c EXCEPT !.items = Append(@, Item("reasoning", "none", tags))]
      BY <2>5 DEF AddToOutput, tags
    <3>2. Item("reasoning", "none", tags) \in AnItem
      BY <2>2, ItemTyped DEF HistoryKinds
    <3>3. Append(c.items, Item("reasoning", "none", tags)) \in Seq(AnItem)
      BY <2>3, <3>2
    <3> QED
      BY <3>1, <3>3 DEF b, Output
  <2>6. CASE b.type = "tool_use"
    <3> DEFINE x == Item("function_call", "none", tags)
               all == c.items \o TextItem(c.texts)
    <3>1. AddToOutput(c, b) = [items |-> Append(all, x), texts |-> <<>>]
      BY <2>6 DEF AddToOutput, tags
    <3>2. x \in AnItem
      BY <2>2, ItemTyped DEF HistoryKinds
    <3>3. TextItem(c.texts) \in Seq(AnItem)
      <4>1. c.texts # <<>> => Item("message", "assistant", c.texts) \in AnItem
        BY <2>3, ItemTyped DEF HistoryKinds
      <4> QED
        BY <4>1 DEF TextItem
    <3>4. all \in Seq(AnItem)
      BY <2>3, <3>3
    <3> HIDE DEF x, all
    <3> QED
      BY <3>1, <3>2, <3>4 DEF b, Output
  <2> QED
    BY <2>1, <2>4, <2>5, <2>6 DEF b
<1>3. step \in [1..n -> [D -> D]]
  <2> HIDE DEF D
  <2> QED
    BY <1>2
<1>4. PICK g \in [0..n -> D] : IsFold(g, base, step, n)
  <2> HIDE DEF D, n, step, base
  <2> QED
    BY <1>1, <1>3, FoldExists
<1>5. IsUpTo(g)
  <2>1. \A k \in 1..n : step[k][g[k - 1]] = AddToOutput(g[k - 1], content[k])
    <3>1. \A k \in 1..n : g[k - 1] \in D
      BY <1>1, <1>4
    <3> HIDE DEF D
    <3> QED
      BY <3>1
  <2>2. g = [k \in 0..n |-> IF k = 0 THEN base ELSE step[k][g[k - 1]]]
    BY <1>4 DEF IsFold
  <2> HIDE DEF step, n, D, base
  <2>3. \A k \in 0..n : k # 0 => k \in 1..n
    BY <1>1
  <2>4. [k \in 0..n |-> IF k = 0 THEN base ELSE step[k][g[k - 1]]]
        = [k \in 0..n |-> IF k = 0 THEN base ELSE AddToOutput(g[k - 1], content[k])]
    BY <2>1, <2>3
  <2> QED
    BY <2>2, <2>4
<1>6. IsUpTo(upTo)
  <2> HIDE DEF IsUpTo
  <2> QED
    BY <1>5
<1>7. FromCoreResponse(content) = upTo[n].items \o TextItem(upTo[n].texts)
  BY DEF FromCoreResponse
<1> HIDE DEF upTo
<1>8. /\ upTo[0] = base
      /\ \A k \in 1..n : upTo[k] = AddToOutput(upTo[k - 1], content[k])
  <2>1. 0 \in 0..n /\ \A k \in 1..n : k \in 0..n /\ k # 0
    BY <1>1
  <2> HIDE DEF base
  <2> QED
    BY <1>6, <2>1
<1> HIDE DEF IsUpTo, step, D, n
<1> DEFINE T == {k \in 0..n : AnswerTo(upTo[k], content, k)}
<1>9. 0 \in T
  <2>1. 0 \in 0..n /\ 1..0 = {}
    BY <1>1
  <2>2. base.items = <<>> /\ base.texts = <<>> /\ base \in Output
    BY DEF Output
  <2> HIDE DEF base
  <2>3. AnswerTo(base, content, 0)
    BY <2>1, <2>2, AnswerNothing DEF AnswerTo
  <2> QED
    BY <1>8, <2>1, <2>3
<1>10. ASSUME NEW k \in 1..n, k - 1 \in T PROVE k \in T
  <2>1. k \in 0..n /\ k \in 1..Len(content)
    BY <1>1 DEF n
  <2>2. AnswerTo(upTo[k - 1], content, k - 1)
    BY <1>10
  <2>3. AnswerTo(AddToOutput(upTo[k - 1], content[k]), content, k)
    BY <2>1, <2>2, AnswerToNext
  <2> QED
    BY <1>8, <2>1, <2>3
<1>11. n \in T
  <2> HIDE DEF T
  <2>1. n \in 0..n
    BY <1>1
  <2> QED
    BY <1>1, <1>9, <1>10, <2>1, AllUpTo
<1> DEFINE out == upTo[n]
<1>12. AnswerTo(out, content, n)
  BY <1>11
<1> HIDE DEF T, out
<1>13. /\ AnswerItems(out.items) /\ out.texts \in Seq(Nat)
       /\ out.texts # <<>> => CallTags(out.items) = {}
  BY <1>12 DEF AnswerTo, Output
<1>14. /\ AnswerItems(out.items \o TextItem(out.texts))
       /\ CallTags(out.items \o TextItem(out.texts)) = CallTags(out.items)
  BY <1>13, TextsPut
<1>15. CallTags(out.items) = Tagged(content, "tool_use")
  <2>1. \A x : x \in CallTags(out.items)
                 <=> \E j \in 1..n : content[j].type = "tool_use" /\ x = content[j].tag
    BY <1>12 DEF AnswerTo
  <2>2. \A x : x \in Tagged(content, "tool_use")
                 <=> \E k \in 1..n : content[k].type = "tool_use" /\ x = content[k].tag
    BY AnswerBlocks DEF Tagged, n
  <2> QED
    BY <2>1, <2>2
<1>16. FromCoreResponse(content) = out.items \o TextItem(out.texts)
  BY <1>7 DEF out
<1> QED
  BY <1>14, <1>15, <1>16

\* A client that drops the reasoning keeps the rest in its order.
LEMMA KeptAnswers ==
  ASSUME NEW items, AnswerItems(items)
  PROVE  AnswerItems(Kept(items)) /\ CallTags(Kept(items)) = CallTags(items)
<1> DEFINE P == {k \in 1..Len(items) : items[k].kind # "reasoning"}
           taken == ElementsAt(items, P)
           n == Len(taken)
<1>1. /\ items \in Seq(AnItem) /\ DOMAIN items = 1..Len(items)
      /\ \A k \in 1..Len(items) : items[k].kind # "output"
      /\ \A i, j \in 1..Len(items) : i < j /\ IsCall(items[i]) => items[j].kind # "message"
  BY DEF AnswerItems
<1>2. taken \in Seq(AnItem) /\ \E pos : Picked(taken, items, pos, P)
  <2>1. P \in SUBSET (1..Len(items))
    OBVIOUS
  <2> HIDE DEF P
  <2> QED
    BY <1>1, <2>1, ElementsPicked
<1>3. PICK pos : Picked(taken, items, pos, P)
  BY <1>2
<1>4. Kept(items) = IF echoes THEN items ELSE taken
  BY <1>1 DEF Kept
<1> HIDE DEF taken
<1>5. n \in Nat
  BY <1>2
<1>6. /\ DOMAIN pos = 1..n /\ Range(pos) = P /\ Ascending(pos)
      /\ \A i \in 1..n : taken[i] = items[pos[i]]
  <2>1. pos \in Seq(Nat) /\ Len(pos) = n
    BY <1>3 DEF Picked
  <2> HIDE DEF P
  <2> QED
    BY <1>3, <2>1 DEF Picked
<1>7. Len(taken) = n
  OBVIOUS
<1> HIDE DEF n
<1>8. \A i \in 1..n : pos[i] \in P /\ pos[i] \in 1..Len(items)
  <2>1. \A i \in 1..n : pos[i] \in P
    <3> HIDE DEF P
    <3> QED
      BY <1>6 DEF Range
  <2> QED
    BY <2>1
<1>9. AnswerItems(taken)
  <2>1. \A k \in 1..n : taken[k].kind # "output"
    BY <1>1, <1>6, <1>8
  <2>2. \A i, j \in 1..n : i < j /\ IsCall(taken[i]) => taken[j].kind # "message"
    <3> HIDE DEF P
    <3>1. \A i, j \in 1..n : i < j => pos[i] < pos[j]
      BY <1>6 DEF Ascending
    <3> QED
      BY <1>1, <1>6, <1>8, <3>1
  <2> QED
    BY <1>2, <1>7, <2>1, <2>2 DEF AnswerItems
<1>10. ASSUME NEW x PROVE x \in CallTags(taken) <=> x \in CallTags(items)
  <2>1. x \in CallTags(taken) <=> \E k \in 1..n : IsCall(taken[k]) /\ x \in Range(taken[k].tags)
    BY <1>7, CallTagsFound
  <2>2. x \in CallTags(items)
          <=> \E k \in 1..Len(items) : IsCall(items[k]) /\ x \in Range(items[k].tags)
    BY CallTagsFound
  <2>3. ASSUME NEW k \in 1..Len(items), IsCall(items[k]) PROVE \E i \in 1..n : pos[i] = k
    <3>1. k \in P
      BY <2>3 DEF IsCall
    <3> HIDE DEF P
    <3> QED
      BY <1>6, <3>1 DEF Range
  <2> QED
    BY <1>6, <1>8, <2>1, <2>2, <2>3
<1>11. CallTags(taken) = CallTags(items)
  BY <1>10
<1> QED
  BY <1>4, <1>9, <1>11

\* Every shape of an answer has its texts before its calls.
AShape(shape) ==
    /\ shape \in Seq({"text", "reasoning", "tool_use"})
    /\ \A i, j \in 1..Len(shape) : i < j /\ shape[i] = "tool_use" => shape[j] # "text"

LEMMA ShapesTyped == \A shape \in Shapes : AShape(shape)
<1>1. AShape(<<"text">>) /\ AShape(<<"tool_use", "tool_use">>)
  BY DEF AShape
<1>2. AShape(<<"reasoning", "text">>) /\ AShape(<<"reasoning", "tool_use", "tool_use">>)
  BY DEF AShape
<1>3. AShape(<<"reasoning", "text", "tool_use">>) /\ AShape(<<"reasoning">>)
  BY DEF AShape
<1>4. AShape(<<"reasoning", "text", "reasoning", "tool_use">>)
  BY DEF AShape
<1>5. AShape(<<"reasoning", "tool_use", "reasoning", "tool_use">>)
  BY DEF AShape
<1> QED
  BY <1>1, <1>2, <1>3, <1>4, <1>5 DEF Shapes, OneReasoning

LEMMA ShapedAnswers ==
  ASSUME NEW shape, AShape(shape), NEW first \in Nat \ {0}
  PROVE  AnAnswer([k \in DOMAIN shape |-> Block(shape[k], first + k - 1)])
<1> DEFINE n == Len(shape)
           content == [k \in DOMAIN shape |-> Block(shape[k], first + k - 1)]
<1>1. /\ n \in Nat /\ DOMAIN shape = 1..n
      /\ \A k \in 1..n : shape[k] \in {"text", "reasoning", "tool_use"}
  BY DEF AShape
<1>2. content = [k \in 1..n |-> Block(shape[k], first + k - 1)]
  BY <1>1
<1> HIDE DEF content, n
<1>3. ASSUME NEW k \in 1..n
      PROVE  content[k] \in ABlock /\ content[k].type = shape[k]
  <2>1. first + k - 1 \in Nat
    BY <1>1
  <2>2. content[k] = Block(shape[k], first + k - 1)
    BY <1>2
  <2> QED
    BY <1>1, <2>1, <2>2 DEF Block, ABlock, BlockTypes
<1>4. content \in Seq(ABlock) /\ Len(content) = n /\ DOMAIN content = 1..n
  BY <1>1, <1>2, <1>3
<1>5. OnlyOf({"text", "reasoning", "tool_use"}, content)
  BY <1>1, <1>3, <1>4 DEF OnlyOf
<1>6. \A i, j \in 1..n : i < j /\ content[i].type = "tool_use" => content[j].type # "text"
  <2>1. \A i, j \in 1..n : i < j /\ shape[i] = "tool_use" => shape[j] # "text"
    BY DEF AShape, n
  <2> QED
    BY <1>3, <2>1
<1>7. AnAnswer(content)
  BY <1>4, <1>5, <1>6 DEF AnAnswer, Content, ABlock
<1> QED
  BY <1>7 DEF content

\* The user's message.
LEMMA UserSettles ==
  ASSUME NEW h, Settled(h), NEW tag \in Nat
  PROVE  LET all == Append(h, Item("message", "user", <<tag>>))
         IN Settled(all) /\ SeesUser(Seen(Reading(all)))
<1> DEFINE tags == <<tag>>
           x == Item("message", "user", tags)
           c == Reading(h)
           d == Reading(Append(h, x))
<1>1. h \in Seq(AnItem) /\ Tidy(c) /\ c.calls = <<>> /\ Paired(Seen(c)) /\ Seen(c) \in Seq(AView)
  BY DEF Settled, Paired
<1>2. tags \in Seq(Nat) /\ tags # <<>>
  BY OneTag
<1> HIDE DEF tags
<1>3. x \in AnItem /\ x.kind = "message" /\ x.role = "user"
  <2>1. "message" \in HistoryKinds
    BY DEF HistoryKinds
  <2> QED
    BY <1>2, <2>1, ItemTyped
<1> HIDE DEF x
<1>4. d = Take(c, x, FALSE) /\ Append(h, x) \in Seq(AnItem)
  <2>1. h \in Seq(AnItem) /\ x \in AnItem
    BY <1>1, <1>3
  <2>2. Reading(Append(h, x)) = Take(Reading(h), x, FALSE)
    BY <2>1, ReadingAppended, Zenon
  <2> QED
    BY <2>1, <2>2
<1> HIDE DEF c, d
<1>5. d = TakeMessage(c, x)
  <2>1. FlushCalls(c) = c
    BY <1>1 DEF FlushCalls
  <2> QED
    BY <1>3, <1>4, <2>1, TakeIs
<1>6. /\ Tidy(d) /\ d.calls = c.calls
      /\ \E v : /\ Quiet(v) /\ Seen(d) = Append(Seen(c), v)
                /\ x.role = "user" => v.role = "user"
  BY <1>1, <1>3, <1>5, TakeMessageTidy
<1>7. PICK v : Quiet(v) /\ Seen(d) = Append(Seen(c), v) /\ v.role = "user"
  BY <1>3, <1>6
<1>8. Paired(Append(Seen(c), v))
  BY <1>1, <1>7, PairedQuiet
<1>9. SeesUser(Append(Seen(c), v))
  <2>1. v \in AView
    BY <1>7 DEF Quiet
  <2> QED
    BY <1>1, <1>7, <2>1, UserStays
<1>10. Settled(Append(h, x)) /\ SeesUser(Seen(d))
  BY <1>1, <1>4, <1>6, <1>7, <1>8, <1>9 DEF Settled, d
<1> QED
  BY <1>10 DEF d, x, tags

\* The results of all calls, in any order.
Outputs(order) == [k \in DOMAIN order |-> Item("output", "none", <<order[k]>>)]

LEMMA OutputTyped ==
  ASSUME NEW tag \in Nat
  PROVE  LET x == Item("output", "none", <<tag>>)
         IN x \in AnItem /\ x.kind = "output" /\ x.tags = <<tag>>
<1> DEFINE tags == <<tag>>
<1>1. tags \in Seq(Nat) /\ tags # <<>>
  BY OneTag
<1>2. "output" \in HistoryKinds
  BY DEF HistoryKinds
<1> HIDE DEF tags
<1>3. LET x == Item("output", "none", tags)
      IN x \in AnItem /\ x.kind = "output" /\ x.tags = tags
  BY <1>1, <1>2, ItemTyped
<1> QED
  BY <1>3 DEF tags

LEMMA ResultFits ==
  ASSUME NEW tag \in Nat
  PROVE  LET v == Result(<<tag>>)
         IN v \in AView /\ Fit(v) /\ v.role = "tool" /\ v.results = {tag}
<1> DEFINE v == Result(<<tag>>)
<1>1. v = [role |-> "tool", calls |-> {}, results |-> {tag}]
  BY OneTag DEF Result
<1> HIDE DEF v
<1>2. v \in AView
  BY <1>1 DEF AView, Roles
<1> QED
  BY <1>1, <1>2 DEF Fit, v

\* After the first k results.
OutputRead(c, V, waiting, order, k) ==
    /\ Tidy(c) /\ c.calls = <<>> /\ c.reasoning = <<>>
    /\ Len(Seen(c)) = Len(V) + 1 + k
    /\ \A j \in 1..Len(V) : Seen(c)[j] = V[j]
    /\ Seen(c)[Len(V) + 1] = waiting
    /\ \A j \in 1..k : Seen(c)[Len(V) + 1 + j] = Result(<<order[j]>>)

LEMMA OutputReadNext ==
  ASSUME NEW V \in Seq(AView), NEW waiting, NEW order \in Seq(Nat),
         NEW k \in 1..Len(order), k > 1, NEW c, OutputRead(c, V, waiting, order, k - 1)
  PROVE  OutputRead(Take(c, Item("output", "none", <<order[k]>>), FALSE), V, waiting, order, k)
<1> DEFINE x == Item("output", "none", <<order[k]>>)
           d == Take(c, x, FALSE)
           n == Len(V)
           r == Result(<<order[k]>>)
<1>1. k \in Nat /\ k - 1 \in Nat /\ n \in Nat /\ order[k] \in Nat
  OBVIOUS
<1>2. x \in AnItem /\ x.kind = "output" /\ x.tags = <<order[k]>>
  BY <1>1, OutputTyped
<1>3. /\ Tidy(c) /\ c.calls = <<>> /\ c.reasoning = <<>>
      /\ Len(Seen(c)) = n + 1 + (k - 1)
      /\ \A j \in 1..n : Seen(c)[j] = V[j]
      /\ Seen(c)[n + 1] = waiting
      /\ \A j \in 1..(k - 1) : Seen(c)[n + 1 + j] = Result(<<order[j]>>)
  BY DEF OutputRead
<1>4. Seen(c) \in Seq(AView)
  BY <1>3, ViewsOf DEF Tidy, Conv, Seen
<1>5. r \in AView
  BY <1>1, ResultFits
<1> HIDE DEF x, r, n
<1>6. d = TakeOutput(c, x)
  BY <1>2, TakeIs
<1>7. /\ Tidy(d) /\ d.calls = <<>> /\ d.reasoning = <<>>
      /\ Seen(d) = Append(Seen(c), Result(x.tags))
  <2>1. Tidy(c) /\ c.calls = <<>> /\ c.reasoning = <<>> /\ x \in AnItem
    BY <1>2, <1>3, Zenon
  <2>2. LET t == TakeOutput(c, x)
        IN /\ Tidy(t) /\ t.calls = <<>> /\ t.reasoning = <<>>
           /\ Seen(t) = Append(Seen(c), Result(x.tags))
    BY <2>1, TakeOutputTidy, Zenon
  <2> QED
    BY <1>6, <2>2, Zenon
<1>8. Seen(d) = Append(Seen(c), r)
  BY <1>2, <1>7 DEF r
<1> DEFINE A == Seen(c)
           B == Seen(d)
           m == Len(A)
<1>9. /\ m \in Nat /\ Len(B) = m + 1 /\ B[m + 1] = r /\ \A j \in 1..m : B[j] = A[j]
  <2>1. A \in Seq(AView) /\ B = Append(A, r)
    BY <1>4, <1>8
  <2> HIDE DEF A, B
  <2>2. /\ m \in Nat /\ Len(Append(A, r)) = m + 1 /\ Append(A, r)[m + 1] = r
        /\ \A j \in 1..m : Append(A, r)[j] = A[j]
    BY <1>5, <2>1
  <2> QED
    BY <2>1, <2>2, Zenon
<1>10. m = n + 1 + (k - 1)
  BY <1>3
<1> HIDE DEF A, B, m, d
<1>11. Len(B) = n + 1 + k
  BY <1>1, <1>9, <1>10
<1>12. \A j \in 1..n : B[j] = V[j]
  <2>1. \A j \in 1..n : j \in 1..m
    BY <1>1, <1>10
  <2> QED
    BY <1>3, <1>9, <2>1 DEF A
<1>13. B[n + 1] = waiting
  <2>1. n + 1 \in 1..m
    BY <1>1, <1>10
  <2> QED
    BY <1>3, <1>9, <2>1 DEF A
<1>14. ASSUME NEW j \in 1..k PROVE B[n + 1 + j] = Result(<<order[j]>>)
  <2>1. CASE j = k
    <3>1. n + 1 + k = m + 1
      BY <1>1, <1>10
    <3> QED
      BY <1>9, <2>1, <3>1 DEF r
  <2>2. CASE j # k
    <3>1. j \in 1..(k - 1) /\ n + 1 + j \in 1..m
      BY <1>1, <1>10, <2>2
    <3> QED
      BY <1>3, <1>9, <3>1 DEF A
  <2> QED
    BY <2>1, <2>2
<1>15. OutputRead(d, V, waiting, order, k)
  BY <1>7, <1>11, <1>12, <1>13, <1>14 DEF OutputRead, B, n
<1> QED
  BY <1>15 DEF d, x

LEMMA OutputReadFirst ==
  ASSUME NEW c, Tidy(c), c.calls # <<>>, NEW order \in Seq(Nat), 1 \in 1..Len(order)
  PROVE  OutputRead(Take(c, Item("output", "none", <<order[1]>>), FALSE), Seen(c), Waiting(c), order, 1)
<1> DEFINE x == Item("output", "none", <<order[1]>>)
           d == Take(c, x, FALSE)
           V == Seen(c)
           n == Len(V)
           w == Waiting(c)
           r == Result(<<order[1]>>)
<1>1. order[1] \in Nat
  OBVIOUS
<1>2. x \in AnItem /\ x.kind = "output" /\ x.tags = <<order[1]>>
  BY <1>1, OutputTyped
<1>3. V \in Seq(AView) /\ n \in Nat
  BY ViewsOf DEF Tidy, Conv, Seen
<1>4. r \in AView
  BY <1>1, ResultFits
<1>5. w \in AView
  <2>1. Tagged(c.calls, "tool_use") \in SUBSET Nat
    BY TaggedTyped DEF Tidy, Conv
  <2> QED
    BY <2>1 DEF Waiting, AView, Roles
<1> HIDE DEF x, r, w, V
<1>6. d = TakeOutput(c, x)
  BY <1>2, TakeIs
<1>7. /\ Tidy(d) /\ d.calls = <<>> /\ d.reasoning = <<>>
      /\ Seen(d) = Append(Append(Seen(c), Waiting(c)), Result(x.tags))
  BY <1>2, <1>6, TakeOutputTidy
<1>8. Seen(d) = Append(Append(V, w), r)
  BY <1>2, <1>7 DEF r, w, V
<1> DEFINE B == Seen(d)
<1>9. /\ Len(B) = n + 1 + 1 /\ B[n + 1] = w /\ B[n + 1 + 1] = r /\ \A j \in 1..n : B[j] = V[j]
  <2> DEFINE A == Append(V, w)
  <2>1. A \in Seq(AView) /\ Len(A) = n + 1 /\ A[n + 1] = w /\ \A j \in 1..n : A[j] = V[j]
    BY <1>3, <1>5
  <2> HIDE DEF A, n
  <2>2. /\ Len(Append(A, r)) = n + 1 + 1 /\ Append(A, r)[n + 1 + 1] = r
        /\ \A j \in 1..(n + 1) : Append(A, r)[j] = A[j]
    BY <1>3, <1>4, <2>1
  <2>3. B = Append(A, r)
    BY <1>8 DEF A
  <2>4. n + 1 \in 1..(n + 1) /\ \A j \in 1..n : j \in 1..(n + 1)
    BY <1>3
  <2> HIDE DEF B
  <2> QED
    BY <2>1, <2>2, <2>3, <2>4
<1> HIDE DEF B, d
<1>10. \A j \in 1..1 : B[n + 1 + j] = Result(<<order[j]>>)
  <2>1. \A j \in 1..1 : j = 1
    OBVIOUS
  <2> QED
    BY <1>9, <2>1 DEF r
<1>11. OutputRead(d, V, w, order, 1)
  BY <1>7, <1>9, <1>10 DEF OutputRead, B
<1> QED
  BY <1>11 DEF d, x, V, w

LEMMA OutputsSettle ==
  ASSUME NEW h, NEW tags, Asking(h, tags), tags # {},
         NEW order \in Seq(Nat), Range(order) = tags
  PROVE  /\ Settled(h \o Outputs(order))
         /\ SeesUser(Seen(Reading(h))) => SeesUser(Seen(Reading(h \o Outputs(order))))
<1> DEFINE items == Outputs(order)
           c == Reading(h)
           V == Seen(c)
           w == Waiting(c)
           n == Len(order)
<1>1. /\ h \in Seq(AnItem) /\ Tidy(c) /\ Paired(V) /\ V \in Seq(AView)
      /\ Tagged(c.calls, "tool_use") = tags /\ c.calls # <<>>
  BY DEF Asking, Paired
<1>2. n \in Nat /\ DOMAIN order = 1..n /\ \A k \in 1..n : order[k] \in Nat
  OBVIOUS
<1>3. n # 0
  <2>1. n = 0 => Range(order) = {}
    BY <1>2 DEF Range
  <2> QED
    BY <2>1
<1>4. items \in Seq(AnItem) /\ Len(items) = n
      /\ \A k \in 1..n : items[k] = Item("output", "none", <<order[k]>>)
  <2>1. items = [k \in 1..n |-> Item("output", "none", <<order[k]>>)]
    BY <1>2 DEF Outputs
  <2>2. \A k \in 1..n : Item("output", "none", <<order[k]>>) \in AnItem
    BY <1>2, OutputTyped
  <2> HIDE DEF items, n
  <2> QED
    BY <1>2, <2>1, <2>2
<1>5. PICK f \in [0..n -> TidyConvs] :
        /\ f[0] = c /\ Reading(h \o items) = f[n]
        /\ h \o items \in Seq(AnItem)
        /\ \A k \in 1..n : f[k] = Take(f[k - 1], items[k], FALSE)
  <2> HIDE DEF items, n
  <2>1. \E f \in [0..Len(items) -> TidyConvs] :
           /\ f[0] = Reading(h) /\ Reading(h \o items) = f[Len(items)]
           /\ h \o items \in Seq(AnItem)
           /\ \A k \in 1..Len(items) : f[k] = Take(f[k - 1], items[k], FALSE)
    <3>1. items \in Seq(AnItem) /\ h \in Seq(AnItem)
      BY <1>1, <1>4
    <3> QED
      BY <3>1, ReadingJoined, Zenon
  <2>2. Len(items) = n
    BY <1>4
  <2> QED
    BY <2>1, <2>2
<1>6. n = Len(order)
  OBVIOUS
<1> HIDE DEF n, items, V, w
\* The first result is put behind all the calls, and the others behind it.
<1> DEFINE T == {k \in 0..n : k > 0 => OutputRead(f[k], V, w, order, k)}
<1>7. 0 \in T
  BY <1>2
<1>8. ASSUME NEW k \in 1..n, k - 1 \in T PROVE k \in T
  <2>1. k \in 0..n /\ k \in 1..Len(order) /\ k \in Nat
    BY <1>2, <1>6
  <2>2. f[k] = Take(f[k - 1], Item("output", "none", <<order[k]>>), FALSE)
    BY <1>4, <1>5
  <2>3. CASE k = 1
    <3>0. f[0] = c /\ k - 1 = 0
      BY <1>5, <2>3
    <3>1. f[k] = Take(c, Item("output", "none", <<order[1]>>), FALSE)
      <4>1. f[k] = Take(f[0], Item("output", "none", <<order[1]>>), FALSE)
        BY <2>2, <2>3, <3>0, Zenon
      <4> HIDE DEF c
      <4> QED
        BY <3>0, <4>1, Zenon
    <3>2. OutputRead(Take(c, Item("output", "none", <<order[1]>>), FALSE), V, w, order, 1)
      BY <1>1, <2>1, <2>3, OutputReadFirst DEF V, w
    <3> QED
      BY <2>1, <2>3, <3>1, <3>2
  <2>4. CASE k # 1
    <3>1. k > 1 /\ k - 1 > 0
      BY <2>1, <2>4
    <3>2. OutputRead(f[k - 1], V, w, order, k - 1)
      BY <1>8, <3>1
    <3>3. OutputRead(Take(f[k - 1], Item("output", "none", <<order[k]>>), FALSE), V, w, order, k)
      BY <1>1, <2>1, <3>1, <3>2, OutputReadNext
    <3> QED
      BY <2>1, <2>2, <3>3
  <2> QED
    BY <2>3, <2>4
<1>9. n \in T
  <2> HIDE DEF T
  <2>1. n \in 0..n
    BY <1>2
  <2> QED
    BY <1>2, <1>7, <1>8, <2>1, AllUpTo
<1> DEFINE d == Reading(h \o items)
           W == Seen(d)
           L == Len(V)
<1>10. OutputRead(d, V, w, order, n)
  BY <1>2, <1>3, <1>5, <1>9
<1> HIDE DEF d, c
<1>11. /\ Tidy(d) /\ d.calls = <<>>
       /\ Len(W) = L + 1 + n
       /\ \A j \in 1..L : W[j] = V[j]
       /\ W[L + 1] = w
       /\ \A j \in 1..n : W[L + 1 + j] = Result(<<order[j]>>)
  BY <1>10 DEF OutputRead
<1>12. W \in Seq(AView) /\ L \in Nat
  <2>1. L \in Nat
    BY <1>1
  <2>2. W \in Seq(AView)
    BY <1>11, ViewsOf DEF Tidy, Conv, Seen
  <2> QED
    BY <2>1, <2>2
<1>13. Len(V) = L
  OBVIOUS
<1> HIDE DEF W, L
<1>14. ASSUME NEW k \in (L + 2)..(L + 1 + n)
       PROVE  /\ k - (L + 1) \in 1..n /\ W[k] = Result(<<order[k - (L + 1)]>>)
              /\ Fit(W[k]) /\ W[k].role = "tool" /\ W[k].results = {order[k - (L + 1)]}
  <2>1. k - (L + 1) \in 1..n /\ L + 1 + (k - (L + 1)) = k
    BY <1>2, <1>12
  <2>2. W[k] = Result(<<order[k - (L + 1)]>>)
    BY <1>11, <2>1
  <2> QED
    BY <1>2, <2>1, <2>2, ResultFits
<1>15. UNION {W[k].results : k \in (L + 2)..(L + 1 + n)} = tags
  <2>1. ASSUME NEW k \in (L + 2)..(L + 1 + n) PROVE W[k].results \subseteq tags
    <3> DEFINE j == k - (L + 1)
    <3>1. j \in 1..n /\ W[k].results = {order[j]}
      BY <1>14
    <3> HIDE DEF j
    <3>2. order[j] \in tags
      BY <1>2, <3>1 DEF Range
    <3> QED
      BY <3>1, <3>2
  <2>2. ASSUME NEW x \in tags PROVE \E k \in (L + 2)..(L + 1 + n) : x \in W[k].results
    <3>1. PICK j \in 1..n : x = order[j]
      BY <1>2 DEF Range
    <3>2. L + 1 + j \in (L + 2)..(L + 1 + n) /\ (L + 1 + j) - (L + 1) = j
      BY <1>2, <1>12
    <3>3. W[L + 1 + j].results = {order[(L + 1 + j) - (L + 1)]}
      BY <1>14, <3>2
    <3> QED
      BY <3>1, <3>2, <3>3
  <2> QED
    BY <2>1, <2>2
<1>16. w.role = "assistant" /\ w.results = {} /\ w.calls = tags
  BY <1>1 DEF w, Waiting
<1>17. Paired(W)
  <2>1. /\ n \in Nat \ {0} /\ Len(W) = Len(V) + 1 + n
        /\ \A k \in 1..Len(V) : W[k] = V[k]
    BY <1>2, <1>3, <1>11, <1>13
  <2>2. W[Len(V) + 1].role = "assistant" /\ W[Len(V) + 1].results = {}
    BY <1>11, <1>13, <1>16
  <2>3. \A k \in (Len(V) + 2)..Len(W) : Fit(W[k]) /\ W[k].role = "tool"
    BY <1>11, <1>13, <1>14
  <2>4. UNION {W[k].results : k \in (Len(V) + 2)..Len(W)} = W[Len(V) + 1].calls
    BY <1>11, <1>13, <1>15, <1>16
  <2> QED
    BY <1>1, <1>12, <2>1, <2>2, <2>3, <2>4, PairedResults
<1>18. SeesUser(V) => SeesUser(W)
  <2> SUFFICES ASSUME NEW k \in 1..L, V[k].role = "user" PROVE SeesUser(W)
    BY <1>13, Zenon DEF SeesUser
  <2>1. k \in 1..Len(W) /\ W[k] = V[k]
    BY <1>2, <1>11, <1>12
  <2> QED
    BY <2>1 DEF SeesUser
<1>19. Settled(h \o items)
  BY <1>5, <1>11, <1>17 DEF Settled, W, d
<1> QED
  BY <1>18, <1>19 DEF V, W, c, d, items
-----------------------------------------------------------------------------
(***************************************************************************)
(* What is sent. The reasoning that is put in takes no call from its       *)
(* results, and moves no message.                                          *)
(***************************************************************************)

ToolTypes == {"tool_use", "tool_result"}

LEMMA ThinkingPut ==
  ASSUME NEW R, NEW m \in MessagesOf(R), NEW x, NEW type \in ToolTypes
  PROVE  LET t == [m EXCEPT !.content = <<Block("reasoning", x)>> \o @]
         IN /\ t.role = m.role
            /\ TagSet(t.content, type) = Tagged(m.content, type)
            /\ TagSet(m.content, type) = Tagged(m.content, type)
<1> DEFINE b == Block("reasoning", x)
           S == ABlock \cup {b}
           t == [m EXCEPT !.content = <<b>> \o @]
           content == <<b>> \o m.content
<1>1. m.content \in Seq(ABlock) /\ t.role = m.role /\ t.content = content
  BY DEF MessagesOf, Content, ABlock
<1>2. m.content \in Seq(S) /\ <<b>> \in Seq(S)
  <2> HIDE DEF b
  <2> QED
    BY <1>1
<1>3. b.type = "reasoning" /\ type # "reasoning"
  BY DEF Block, ToolTypes
<1> HIDE DEF S, b
<1>4. Tagged(<<b>>, type) = {}
  BY <1>3 DEF Tagged
<1>5. content \in Seq(S) /\ Tagged(content, type) = Tagged(m.content, type)
  <2>1. Tagged(content, type) = Tagged(<<b>>, type) \cup Tagged(m.content, type)
    <3> DEFINE one == <<b>>
               rest == m.content
    <3>1. one \in Seq(S) /\ rest \in Seq(S)
      BY <1>2
    <3> HIDE DEF one, rest
    <3>2. Tagged(one \o rest, type) = Tagged(one, type) \cup Tagged(rest, type)
      BY <3>1, TaggedJoined
    <3> QED
      BY <3>2 DEF one, rest
  <2>2. content \in Seq(S)
    BY <1>2
  <2> QED
    BY <1>4, <2>1, <2>2
<1> HIDE DEF content
<1>6. Range(Tags(content, type)) = Tagged(content, type)
  BY <1>5, TagsTagged
<1>7. Range(Tags(m.content, type)) = Tagged(m.content, type)
  BY <1>1, TagsTagged
<1>8. TagSet(t.content, type) = Tagged(m.content, type)
  BY <1>1, <1>5, <1>6, Zenon DEF TagSet
<1> QED
  BY <1>1, <1>7, <1>8, Zenon DEF TagSet, b

\* The messages as they are, but for their reasoning.
SameButReasoning(s, out) ==
    /\ Len(out) \in Nat /\ Len(s) = Len(out) /\ DOMAIN s = 1..Len(out)
    /\ \A n \in 1..Len(out) :
         /\ s[n].role = out[n].role
         /\ \A type \in ToolTypes : TagSet(s[n].content, type) = Tagged(out[n].content, type)

LEMMA ThinkingPrepended ==
  ASSUME NEW R, NEW out \in Seq(MessagesOf(R)), NEW mem
  PROVE  SameButReasoning(PrependCachedThinking(out, mem), out)
<1> DEFINE s == PrependCachedThinking(out, mem)
<1>1. /\ Len(out) \in Nat /\ DOMAIN out = 1..Len(out)
      /\ \A n \in 1..Len(out) : out[n] \in MessagesOf(R)
  BY ElementsOf
<1>2. DOMAIN s = 1..Len(out) /\ Len(s) = Len(out)
  BY <1>1 DEF PrependCachedThinking
<1>3. ASSUME NEW n \in 1..Len(out)
      PROVE  /\ s[n].role = out[n].role
             /\ \A type \in ToolTypes : TagSet(s[n].content, type) = Tagged(out[n].content, type)
  <2> DEFINE m == out[n]
             x == ThinkingFor(mem, m)
             t == [m EXCEPT !.content = <<Block("reasoning", x)>> \o @]
  <2>1. m \in MessagesOf(R)
    BY <1>1
  <2>2. s[n] = t \/ s[n] = m
    BY <1>1 DEF PrependCachedThinking
  <2> HIDE DEF x, m, s
  <2>3. ASSUME NEW type \in ToolTypes
        PROVE  /\ t.role = m.role /\ TagSet(t.content, type) = Tagged(m.content, type)
               /\ TagSet(m.content, type) = Tagged(m.content, type)
    BY <2>1, ThinkingPut
  <2>4. t.role = m.role
    BY <2>3 DEF ToolTypes
  <2> HIDE DEF t
  <2> QED
    BY <2>2, <2>3, <2>4 DEF m
<1> HIDE DEF s
<1> QED
  BY <1>1, <1>2, <1>3 DEF SameButReasoning, s

LEMMA NothingPrepended ==
  ASSUME NEW R, NEW out \in Seq(MessagesOf(R))
  PROVE  SameButReasoning(out, out)
<1>1. /\ Len(out) \in Nat /\ DOMAIN out = 1..Len(out)
      /\ \A n \in 1..Len(out) : out[n] \in MessagesOf(R)
  BY ElementsOf
<1>2. ASSUME NEW n \in 1..Len(out), NEW type \in ToolTypes
      PROVE  TagSet(out[n].content, type) = Tagged(out[n].content, type)
  BY <1>1, ThinkingPut
<1> QED
  BY <1>1, <1>2 DEF SameButReasoning

\* The calls that messages answer to Anthropic or Gemini.
InTurns(s) ==
    /\ Len(s) \in Nat /\ DOMAIN s = 1..Len(s)
    /\ \A n \in 1..Len(s) : TagSet(s[n].content, "tool_use") # {} =>
         n < Len(s) /\ TagSet(s[n + 1].content, "tool_result") = TagSet(s[n].content, "tool_use")
    /\ \A n \in 1..Len(s) : \A r \in TagSet(s[n].content, "tool_result") :
         \E k \in 1..(n - 1) : /\ k < Len(s) /\ r \in TagSet(s[k].content, "tool_use")
                               /\ r \in TagSet(s[k + 1].content, "tool_result")

LEMMA TurnsAnswered ==
  ASSUME NEW s, NEW out, SameButReasoning(s, out),
         Answered(Len(out), GroupCalls(out), GroupResults(out))
  PROVE  InTurns(s)
<1> DEFINE N == Len(out)
           calls == GroupCalls(out)
           results == GroupResults(out)
<1>1. N \in Nat /\ Len(s) = N /\ DOMAIN s = 1..N
  BY DEF SameButReasoning
<1>2. ASSUME NEW j \in 1..N
      PROVE  calls[j] = TagSet(s[j].content, "tool_use") /\ results[j] = TagSet(s[j].content, "tool_result")
  BY DEF SameButReasoning, GroupCalls, GroupResults, ToolTypes
<1>3. \A j \in 1..N : calls[j] # {} => j < N /\ results[j + 1] = calls[j]
  BY Zenon DEF Answered
<1>4. \A j \in 1..N : \A r \in results[j] :
         \E k \in 1..(j - 1) : r \in calls[k] /\ k < N /\ r \in results[k + 1]
  BY Zenon DEF Answered
<1> HIDE DEF N, calls, results
<1>5. \A n \in 1..N : TagSet(s[n].content, "tool_use") # {} =>
         n < N /\ TagSet(s[n + 1].content, "tool_result") = TagSet(s[n].content, "tool_use")
  <2> SUFFICES ASSUME NEW n \in 1..N, TagSet(s[n].content, "tool_use") # {}
               PROVE  n < N /\ TagSet(s[n + 1].content, "tool_result") = TagSet(s[n].content, "tool_use")
    OBVIOUS
  <2>1. n < N /\ results[n + 1] = calls[n]
    BY <1>2, <1>3
  <2>2. n + 1 \in 1..N
    BY <1>1, <2>1
  <2> QED
    BY <1>2, <2>1, <2>2
<1>6. \A n \in 1..N : \A r \in TagSet(s[n].content, "tool_result") :
         \E k \in 1..(n - 1) : /\ k < N /\ r \in TagSet(s[k].content, "tool_use")
                               /\ r \in TagSet(s[k + 1].content, "tool_result")
  <2> SUFFICES ASSUME NEW n \in 1..N, NEW r \in TagSet(s[n].content, "tool_result")
               PROVE  \E k \in 1..(n - 1) : /\ k < N /\ r \in TagSet(s[k].content, "tool_use")
                                            /\ r \in TagSet(s[k + 1].content, "tool_result")
    OBVIOUS
  <2>1. PICK k \in 1..(n - 1) : r \in calls[k] /\ k < N /\ r \in results[k + 1]
    BY <1>2, <1>4
  <2>2. k \in 1..N /\ k + 1 \in 1..N
    BY <1>1, <2>1
  <2> QED
    BY <1>2, <2>1, <2>2
<1> QED
  BY <1>1, <1>5, <1>6, Zenon DEF InTurns
\* The calls that messages answer in chat: each result is a message of its own.
ChatRun(s, n) == {k \in n..Len(s) : \A j \in n..k : Range(s[j].result) # {}}
ChatFollowed(s, n) == UNION {Range(s[k].result) : k \in ChatRun(s, n + 1)}
InRuns(s) ==
    /\ DOMAIN s = 1..Len(s)
    /\ \A n \in 1..Len(s) : Range(s[n].calls) # {} => ChatFollowed(s, n) = Range(s[n].calls)
    /\ \A n \in 1..Len(s) : \A r \in Range(s[n].result) :
         \E k \in 1..(n - 1) : r \in Range(s[k].calls) /\ r \in ChatFollowed(s, k)

\* What a message for chat says of calls.
LEMMA ChatMessageViewed ==
  ASSUME NEW m \in AMessage, Shaped(m)
  PROVE  /\ Range(ToChatMessage(m).calls) = View(m).calls
         /\ Range(ToChatMessage(m).result) = View(m).results
<1>1. /\ Fit(View(m)) /\ View(m).role = m.role
      /\ View(m).calls = Tagged(m.content, "tool_use")
      /\ View(m).results = Tagged(m.content, "tool_result")
  BY ShapedFits, ViewParts
<1>2. m.content \in Seq(ABlock)
  BY DEF AMessage, Content, ABlock
<1>3. /\ Range(Tags(m.content, "tool_use")) = View(m).calls
      /\ Range(Tags(m.content, "tool_result")) = View(m).results
  BY <1>1, <1>2, TagsTagged
<1>4. Range(<<>>) = {}
  BY DEF Range
<1>5. /\ m.role = "tool" => View(m).calls = {}
      /\ m.role # "tool" => View(m).results = {}
  BY <1>1 DEF Fit
<1>6. /\ ToChatMessage(m).calls = IF m.role = "tool" THEN <<>> ELSE Tags(m.content, "tool_use")
      /\ ToChatMessage(m).result = IF m.role = "tool" THEN Tags(m.content, "tool_result") ELSE <<>>
  BY DEF ToChatMessage
<1> QED
  BY <1>3, <1>4, <1>5, <1>6

\* The session's reasoning is put beside them.
LEMMA ChatViewed ==
  ASSUME NEW messages, Talk(messages), NEW mem
  PROVE  LET s == PrependCachedReasoningForChat(ToChat(messages), mem)
         IN /\ Len(s) = Len(messages) /\ DOMAIN s = 1..Len(messages)
            /\ \A n \in 1..Len(messages) :
                 /\ Range(s[n].calls) = View(messages[n]).calls
                 /\ Range(s[n].result) = View(messages[n]).results
<1> DEFINE c == ToChat(messages)
           s == PrependCachedReasoningForChat(c, mem)
<1>1. messages \in Seq(AMessage) /\ \A n \in 1..Len(messages) : Shaped(messages[n])
  BY DEF Talk
<1>2. /\ Len(messages) \in Nat /\ DOMAIN messages = 1..Len(messages)
      /\ \A n \in 1..Len(messages) : messages[n] \in AMessage
  BY <1>1, ElementsOf
<1>3. /\ DOMAIN c = 1..Len(messages)
      /\ \A n \in 1..Len(messages) : c[n] = ToChatMessage(messages[n])
  BY <1>2 DEF ToChat
<1> HIDE DEF c
<1>4. DOMAIN s = 1..Len(messages) /\ Len(s) = Len(messages)
  BY <1>2, <1>3 DEF PrependCachedReasoningForChat
<1>5. ASSUME NEW n \in 1..Len(messages)
      PROVE  s[n].calls = c[n].calls /\ s[n].result = c[n].result
  <2>1. \/ s[n] = c[n]
        \/ \E x : s[n] = [c[n] EXCEPT !.reasoning = x]
    BY <1>3 DEF PrependCachedReasoningForChat
  <2> HIDE DEF s
  <2>2. \A x : /\ [c[n] EXCEPT !.reasoning = x].calls = c[n].calls
               /\ [c[n] EXCEPT !.reasoning = x].result = c[n].result
    BY <1>3 DEF ToChatMessage
  <2> QED
    BY <2>1, <2>2, Zenon
<1> HIDE DEF s
<1>6. ASSUME NEW n \in 1..Len(messages)
      PROVE  /\ Range(s[n].calls) = View(messages[n]).calls
             /\ Range(s[n].result) = View(messages[n]).results
  <2>1. /\ Range(ToChatMessage(messages[n]).calls) = View(messages[n]).calls
        /\ Range(ToChatMessage(messages[n]).result) = View(messages[n]).results
    BY <1>1, <1>2, ChatMessageViewed
  <2> QED
    BY <1>3, <1>5, <2>1
<1> QED
  BY <1>4, <1>6 DEF s, c

LEMMA RunsAnswered ==
  ASSUME NEW messages, Talk(messages), NEW mem
  PROVE  InRuns(PrependCachedReasoningForChat(ToChat(messages), mem))
<1> DEFINE s == PrependCachedReasoningForChat(ToChat(messages), mem)
           V == Views(messages)
           N == Len(messages)
<1>1. /\ Len(s) = N /\ DOMAIN s = 1..N
      /\ \A n \in 1..N : /\ Range(s[n].calls) = View(messages[n]).calls
                         /\ Range(s[n].result) = View(messages[n]).results
  BY ChatViewed
<1>2. messages \in Seq(AMessage) /\ Paired(V)
  BY DEF Talk
<1>3. N \in Nat /\ Len(V) = N /\ \A n \in 1..N : V[n] = View(messages[n])
  BY <1>2, ViewsOf, ElementsOf
<1>4. \A n \in 1..N : Fit(V[n])
  BY <1>2, <1>3 DEF Paired
<1>5. \A n \in 1..N : V[n].calls # {} => ResultsOf(V, n) = V[n].calls
  BY <1>2, <1>3 DEF Paired
<1>6. \A n \in 1..N : V[n].role = "tool" =>
         \E p \in 1..(n - 1) : V[p].calls # {} /\ n \in Run(V, p)
  BY <1>2, <1>3 DEF Paired
<1> HIDE DEF s, V, N
<1>7. ASSUME NEW n \in 1..N
      PROVE  /\ Range(s[n].calls) = V[n].calls /\ Range(s[n].result) = V[n].results
             /\ V[n].results # {} <=> V[n].role = "tool"
  <2>1. Fit(V[n])
    BY <1>4
  <2>2. V[n].results # {} <=> V[n].role = "tool"
    BY <2>1 DEF Fit
  <2> QED
    BY <1>1, <1>3, <2>2
<1>8. ASSUME NEW n \in 1..N
      PROVE  ChatFollowed(s, n) = ResultsOf(V, n)
  <2>1. ASSUME NEW k PROVE k \in ChatRun(s, n + 1) <=> k \in Run(V, n)
    <3>1. k \in ChatRun(s, n + 1)
            <=> k \in (n + 1)..N /\ \A j \in (n + 1)..k : Range(s[j].result) # {}
      BY <1>1 DEF ChatRun
    <3>2. k \in Run(V, n) <=> k \in (n + 1)..N /\ \A j \in (n + 1)..k : V[j].role = "tool"
      BY <1>3 DEF Run
    <3>3. ASSUME k \in (n + 1)..N, NEW j \in (n + 1)..k
          PROVE  Range(s[j].result) # {} <=> V[j].role = "tool"
      <4>1. j \in 1..N
        BY <1>3, <3>3
      <4> QED
        BY <1>7, <4>1
    <3> QED
      BY <3>1, <3>2, <3>3
  <2>2. ASSUME NEW k, k \in Run(V, n) PROVE Range(s[k].result) = V[k].results
    <3>1. k \in 1..N
      BY <1>3, <2>2 DEF Run
    <3> QED
      BY <1>7, <3>1
  <2>3. ASSUME NEW r
        PROVE  r \in ChatFollowed(s, n) <=> r \in ResultsOf(V, n)
    <3>1. r \in ResultsOf(V, n) <=> \E k \in Run(V, n) : r \in V[k].results
      BY DEF ResultsOf
    <3> QED
      BY <2>1, <2>2, <3>1 DEF ChatFollowed
  <2> HIDE DEF ChatRun
  <2> QED
    BY <2>3
<1>9. \A n \in 1..N : Range(s[n].calls) # {} =>
         ChatFollowed(s, n) = Range(s[n].calls)
  BY <1>5, <1>7, <1>8
<1>10. \A n \in 1..N : \A r \in Range(s[n].result) :
         \E k \in 1..(n - 1) : r \in Range(s[k].calls) /\ r \in ChatFollowed(s, k)
  <2> SUFFICES ASSUME NEW n \in 1..N, NEW r \in Range(s[n].result)
               PROVE  \E k \in 1..(n - 1) :
                        r \in Range(s[k].calls) /\ r \in ChatFollowed(s, k)
    OBVIOUS
  <2>1. r \in V[n].results /\ V[n].role = "tool"
    BY <1>7
  <2>2. PICK p \in 1..(n - 1) : V[p].calls # {} /\ n \in Run(V, p)
    BY <1>6, <2>1
  <2>3. p \in 1..N
    BY <1>3
  <2>4. r \in ResultsOf(V, p)
    BY <2>1, <2>2 DEF ResultsOf
  <2>5. ResultsOf(V, p) = V[p].calls
    BY <1>5, <2>2, <2>3
  <2> QED
    BY <1>7, <1>8, <2>3, <2>4, <2>5
<1> QED
  BY <1>1, <1>9, <1>10 DEF InRuns, s
-----------------------------------------------------------------------------
(***************************************************************************)
(* The conversation. Between turns no call waits for its result but those  *)
(* that the client has to answer now.                                      *)
(***************************************************************************)

Turn ==
    /\ protocol \in {"anthropic", "chat", "gemini"}
    /\ prefix.tools \in Nat /\ prefix.system \in Nat /\ next \in Nat \ {0}
    /\ phase \in {"user", "ready", "asked", "tools"}
    /\ phase # "tools" => Settled(history)
    /\ phase = "tools" => open \in Seq(Nat) /\ open # <<>> /\ Asking(history, Range(open))
    /\ phase # "user" => SeesUser(Seen(Reading(history)))

LEMMA TurnInit == Init => Turn
<1> SUFFICES ASSUME Init PROVE Turn
  OBVIOUS
<1>1. /\ protocol \in {"anthropic", "chat", "gemini"} /\ next = 1 /\ phase = "user" /\ history = <<>>
      /\ prefix.tools \in Nat /\ prefix.system \in Nat
  BY DEF Init, PrefixSizes
<1>2. Settled(<<>>)
  <2>1. <<>> \in Seq(AnItem)
    OBVIOUS
  <2> QED
    BY <2>1, ReadingNothing, NoItemsTidy, PairedNothing DEF Settled
<1> QED
  BY <1>1, <1>2 DEF Turn

LEMMA NobodyAsks == ASSUME NEW h, Asking(h, {}) PROVE Settled(h)
BY DEF Asking, Settled

LEMMA UserSpeaksTurn == Turn /\ UserSpeaks => Turn'
<1> SUFFICES ASSUME Turn, UserSpeaks PROVE Turn'
  OBVIOUS
<1>1. /\ protocol' = protocol /\ prefix' = prefix /\ next' = next + 1 /\ phase' = "ready"
      /\ history' = Append(history, Item("message", "user", <<next>>))
      /\ phase = "user"
  BY DEF UserSpeaks, habits
<1>2. next \in Nat /\ next + 1 \in Nat \ {0} /\ Settled(history)
  BY <1>1 DEF Turn
<1>3. Settled(history') /\ SeesUser(Seen(Reading(history')))
  BY <1>1, <1>2, UserSettles
<1>4. /\ protocol \in {"anthropic", "chat", "gemini"} /\ prefix.tools \in Nat /\ prefix.system \in Nat
  BY DEF Turn
<1>5. phase' # "tools" /\ phase' \in {"user", "ready", "asked", "tools"}
  BY <1>1
<1> QED
  BY <1>1, <1>2, <1>3, <1>4, <1>5, Zenon DEF Turn

\* The answer's content.
LEMMA AnswerTurn == Turn /\ Answer => Turn'
<1> SUFFICES ASSUME Turn, Answer PROVE Turn'
  OBVIOUS
<1> DEFINE Content0(shape) == [k \in DOMAIN shape |-> Block(shape[k], next + k - 1)]
<1>1. PICK shape \in Shapes, streamed \in BOOLEAN :
        /\ history' = history \o Kept(IF streamed THEN FromCoreStream(Content0(shape))
                                      ELSE FromCoreResponse(Content0(shape)))
        /\ open' = Tags(Content0(shape), "tool_use")
        /\ phase' = IF Tags(Content0(shape), "tool_use") = <<>> THEN "user" ELSE "tools"
        /\ next' = next + Len(shape)
  BY DEF Answer
<1>2. protocol' = protocol /\ prefix' = prefix /\ phase = "asked"
  BY DEF Answer, habits
<1>3. /\ protocol \in {"anthropic", "chat", "gemini"} /\ prefix.tools \in Nat /\ prefix.system \in Nat
      /\ next \in Nat \ {0} /\ Settled(history) /\ SeesUser(Seen(Reading(history)))
  BY <1>2 DEF Turn
<1>4. AShape(shape)
  BY ShapesTyped
<1>5. AnAnswer(Content0(shape))
  BY <1>3, <1>4, ShapedAnswers
<1> DEFINE content == Content0(shape)
           items == IF streamed THEN FromCoreStream(content) ELSE FromCoreResponse(content)
           calls == Tags(content, "tool_use")
<1>6. content \in Content
  BY <1>5 DEF AnAnswer
<1>7. history' = history \o Kept(items) /\ open' = calls
      /\ phase' = IF calls = <<>> THEN "user" ELSE "tools"
  BY <1>1
<1> HIDE DEF content
<1>8. AnswerItems(items) /\ CallTags(items) = Tagged(content, "tool_use")
  <2>1. /\ AnswerItems(FromCoreStream(content))
        /\ CallTags(FromCoreStream(content)) = Tagged(content, "tool_use")
    BY <1>5, StreamAnswers DEF content
  <2>2. /\ AnswerItems(FromCoreResponse(content))
        /\ CallTags(FromCoreResponse(content)) = Tagged(content, "tool_use")
    BY <1>5, ResponseAnswers DEF content
  <2> QED
    BY <2>1, <2>2
<1> HIDE DEF items
<1>9. AnswerItems(Kept(items)) /\ CallTags(Kept(items)) = Tagged(content, "tool_use")
  BY <1>8, KeptAnswers
<1> DEFINE kept == Kept(items)
<1> HIDE DEF kept
<1>10. /\ Asking(history \o kept, CallTags(kept))
       /\ SeesUser(Seen(Reading(history \o kept)))
  BY <1>3, <1>9, AnswerAsks DEF kept
<1>11. /\ calls \in Seq(Nat) /\ Range(calls) = Tagged(content, "tool_use")
       /\ calls = <<>> <=> Tagged(content, "tool_use") = {}
  <2>1. calls \in Seq(Nat)
    BY <1>6, TagsTyped
  <2>2. content \in Seq(ABlock)
    BY <1>6 DEF Content, ABlock
  <2> QED
    BY <2>1, <2>2, TagsTagged
<1> HIDE DEF calls
<1>12. Asking(history', Range(open')) /\ SeesUser(Seen(Reading(history')))
  BY <1>7, <1>9, <1>10, <1>11, Zenon DEF kept
<1>13. calls = <<>> => Settled(history')
  <2> SUFFICES ASSUME calls = <<>> PROVE Settled(history')
    OBVIOUS
  <2>1. Asking(history', {})
    BY <1>7, <1>9, <1>10, <1>11, Zenon DEF kept
  <2> QED
    BY <2>1, NobodyAsks
<1>14. next' \in Nat \ {0}
  <2>1. Len(shape) \in Nat
    BY <1>4, ElementsOf DEF AShape
  <2> QED
    BY <1>1, <1>3, <2>1
<1>15. CASE calls = <<>>
  <2>1. phase' = "user" /\ phase' # "tools" /\ phase' \in {"user", "ready", "asked", "tools"}
    BY <1>7, <1>15
  <2> QED
    BY <1>2, <1>3, <1>13, <1>14, <1>15, <2>1, Zenon DEF Turn
<1>16. CASE calls # <<>>
  <2>1. phase' = "tools" /\ phase' # "user" /\ phase' \in {"user", "ready", "asked", "tools"}
    BY <1>7, <1>16
  <2>2. open' \in Seq(Nat) /\ open' # <<>>
    BY <1>7, <1>11, <1>16
  <2> QED
    BY <1>2, <1>3, <1>12, <1>14, <2>1, <2>2, Zenon DEF Turn
<1> QED
  BY <1>15, <1>16

LEMMA ReverseTyped ==
  ASSUME NEW s \in Seq(Nat)
  PROVE  Reverse(s) \in Seq(Nat) /\ Range(Reverse(s)) = Range(s)
<1> DEFINE n == Len(s)
           r == Reverse(s)
<1>1. n \in Nat /\ DOMAIN s = 1..n /\ \A k \in 1..n : s[k] \in Nat
  BY ElementsOf
<1>2. r = [k \in 1..n |-> s[(n - k) + 1]]
  BY DEF Reverse
<1> HIDE DEF n, r
<1>3. \A k \in 1..n : (n - k) + 1 \in 1..n /\ (n - ((n - k) + 1)) + 1 = k
  BY <1>1
<1>4. r \in [1..n -> Nat]
  BY <1>1, <1>2, <1>3
<1>5. r \in Seq(Nat)
  BY <1>1, <1>4
<1>6. \A x : x \in Range(r) <=> x \in Range(s)
  <2>1. \A k \in 1..n : r[k] = s[(n - k) + 1]
    BY <1>2
  <2>2. \A k \in 1..n : s[k] = r[(n - k) + 1]
    BY <1>3, <2>1
  <2>3. DOMAIN r = 1..n
    BY <1>2
  <2>4. \A x : x \in Range(r) <=> \E k \in 1..n : x = r[k]
    BY <2>3 DEF Range
  <2>5. \A x : x \in Range(s) <=> \E k \in 1..n : x = s[k]
    BY <1>1 DEF Range
  <2>6. \A k \in 1..n : (n - k) + 1 \in 1..n
    BY <1>3
  <2> QED
    BY <2>1, <2>2, <2>4, <2>5, <2>6, Zenon
<1> QED
  BY <1>5, <1>6 DEF r

LEMMA RunToolsTurn == Turn /\ RunTools => Turn'
<1> SUFFICES ASSUME Turn, RunTools PROVE Turn'
  OBVIOUS
<1>1. PICK order \in {open, Reverse(open)} : history' = history \o Outputs(order)
  BY DEF RunTools, Outputs
<1>2. /\ protocol' = protocol /\ prefix' = prefix /\ next' = next /\ phase = "tools"
      /\ phase' \in {"ready", "user"}
  BY DEF RunTools, habits
<1>3. /\ protocol \in {"anthropic", "chat", "gemini"} /\ prefix.tools \in Nat /\ prefix.system \in Nat
      /\ next \in Nat \ {0} /\ SeesUser(Seen(Reading(history)))
      /\ open \in Seq(Nat) /\ open # <<>> /\ Asking(history, Range(open))
  BY <1>2 DEF Turn
<1>4. order \in Seq(Nat) /\ Range(order) = Range(open)
  BY <1>3, ReverseTyped
<1>5. Range(open) # {}
  BY <1>3 DEF Range
<1>6. Settled(history') /\ SeesUser(Seen(Reading(history')))
  <2> DEFINE tags == Range(open)
  <2>1. Asking(history, tags) /\ tags # {} /\ Range(order) = tags /\ order \in Seq(Nat)
    BY <1>3, <1>4, <1>5
  <2> HIDE DEF tags
  <2>2. /\ Settled(history \o Outputs(order))
        /\ SeesUser(Seen(Reading(history \o Outputs(order))))
    BY <1>3, <2>1, OutputsSettle
  <2> QED
    BY <1>1, <2>2
<1>7. phase' # "tools" /\ phase' \in {"user", "ready", "asked", "tools"}
  BY <1>2
<1> QED
  BY <1>2, <1>3, <1>6, <1>7, Zenon DEF Turn

LEMMA TurnNext == Turn /\ [Next]_vars => Turn'
<1> SUFFICES ASSUME Turn, [Next]_vars PROVE Turn'
  OBVIOUS
<1>1. CASE UserSpeaks
  BY <1>1, UserSpeaksTurn
<1>2. CASE Ask
  <2>1. /\ protocol' = protocol /\ prefix' = prefix /\ next' = next /\ history' = history
        /\ open' = open /\ phase = "ready" /\ phase' = "asked"
    BY <1>2 DEF Ask, habits
  <2> QED
    BY <2>1 DEF Turn
<1>3. CASE Answer
  BY <1>3, AnswerTurn
<1>4. CASE RunTools
  BY <1>4, RunToolsTurn
<1>5. CASE SessionLost
  <2>1. /\ protocol' = protocol /\ prefix' = prefix /\ next' = next /\ history' = history
        /\ open' = open /\ phase' = phase
    BY <1>5 DEF SessionLost, habits
  <2> QED
    BY <2>1 DEF Turn
<1>6. CASE UNCHANGED vars
  BY <1>6 DEF vars, habits, Turn
<1> QED
  BY <1>1, <1>2, <1>3, <1>4, <1>5, <1>6 DEF Next
-----------------------------------------------------------------------------
(***************************************************************************)
(* The request as it is sent: its results, and its marks.                  *)
(***************************************************************************)

Sent ==
    phase = "asked" =>
        /\ IF protocol = "chat" THEN InRuns(sent) ELSE InTurns(sent)
        /\ marked # NotPlanned => WellMarked(sent, marked)

LEMMA AnthropicSent ==
  ASSUME NEW messages, Talk(messages), HasUser(messages), NEW mem,
         NEW tools \in Nat, NEW system \in Nat
  PROVE  LET s == PrependCachedThinking(ToAnthropic(messages), mem)
             p == Plan(tools, system, ToAnthropic(messages))
         IN InTurns(s) /\ (p # NotPlanned => WellMarked(s, p))
<1> DEFINE out == ToAnthropic(messages)
           s == PrependCachedThinking(out, mem)
           p == Plan(tools, system, out)
<1>1. /\ messages \in Seq(AMessage) /\ Paired(Views(messages))
      /\ \A k \in 1..Len(messages) : Shaped(messages[k])
  BY DEF Talk
<1>2. /\ out \in Seq(AnthropicMessages)
      /\ \A j \in 1..Len(out) : out[j].content # <<>>
      /\ \E g : /\ InGroups(messages, out, g)
                /\ \A i \in 1..Len(messages) : out[g[i]].role = AnthropicRole(messages[i].role)
  BY <1>1, AnthropicGroups
<1>3. PICK g : /\ InGroups(messages, out, g)
               /\ \A i \in 1..Len(messages) : out[g[i]].role = AnthropicRole(messages[i].role)
  BY <1>2
<1> HIDE DEF out
<1>4. Answered(Len(out), GroupCalls(out), GroupResults(out))
  <2>1. out \in Seq(MessagesOf({"user", "assistant"}))
    BY <1>2 DEF AnthropicMessages
  <2> QED
    BY <1>1, <1>3, <2>1, GroupsAnswered
<1>5. SameButReasoning(s, out)
  BY <1>2, ThinkingPrepended DEF AnthropicMessages
<1>6. InTurns(s)
  BY <1>4, <1>5, TurnsAnswered
<1>7. DOMAIN out = 1..Len(out) /\ Len(out) \in Nat
  BY <1>2, ElementsOf
<1>8. \E m \in DOMAIN out : out[m].role = "user"
  <2>1. PICK i \in 1..Len(messages) : messages[i].role = "user"
    BY DEF HasUser
  <2>2. g \in [1..Len(messages) -> 1..Len(out)]
    BY <1>3 DEF InGroups, InOrder
  <2>3. g[i] \in 1..Len(out)
    BY <2>1, <2>2
  <2>4. out[g[i]].role = "user"
    BY <1>3, <2>1 DEF AnthropicRole
  <2> QED
    BY <1>7, <2>3, <2>4
<1>9. ASSUME p # NotPlanned PROVE WellMarked(out, p)
  <2>1. \A m \in DOMAIN out : out[m].content # <<>>
    BY <1>2, <1>7
  <2> QED
    BY <1>2, <1>8, <1>9, <2>1, PlanMarks
<1> HIDE DEF p, s
<1>10. Len(s) = Len(out) /\ DOMAIN s = DOMAIN out /\ \A n \in DOMAIN out : s[n].role = out[n].role
  BY <1>5, <1>7 DEF SameButReasoning
<1>11. {m \in DOMAIN s : s[m].role = "user"} = {m \in DOMAIN out : out[m].role = "user"}
  BY <1>10
<1>12. p # NotPlanned => WellMarked(s, p)
  BY <1>9, <1>10, <1>11 DEF WellMarked
<1> QED
  BY <1>6, <1>12 DEF s, p, out

LEMMA GeminiSent ==
  ASSUME NEW messages, Talk(messages)
  PROVE  InTurns(ToGemini(messages))
<1> DEFINE out == ToGemini(messages)
<1>1. /\ messages \in Seq(AMessage) /\ Paired(Views(messages))
      /\ \A k \in 1..Len(messages) : Shaped(messages[k])
  BY DEF Talk
<1>2. out \in Seq(GeminiMessages) /\ \E g : InGroups(messages, out, g)
  BY <1>1, GeminiGroups
<1>3. PICK g : InGroups(messages, out, g)
  BY <1>2
<1> HIDE DEF out
<1>4. out \in Seq(MessagesOf({"user", "model"}))
  BY <1>2 DEF GeminiMessages
<1>5. Answered(Len(out), GroupCalls(out), GroupResults(out))
  BY <1>1, <1>3, <1>4, GroupsAnswered
<1>6. SameButReasoning(out, out)
  BY <1>4, NothingPrepended
<1>7. InTurns(out)
  BY <1>5, <1>6, TurnsAnswered
<1> QED
  BY <1>7 DEF out

LEMMA AskSent == Turn /\ Ask => Sent'
<1> SUFFICES ASSUME Turn, Ask PROVE Sent'
  OBVIOUS
<1>1. /\ phase = "ready" /\ protocol' = protocol /\ marked' = PlanAndInject
      /\ sent' = CASE protocol = "anthropic" -> PrependCachedThinking(ToAnthropic(CoreMessages), memory)
                   [] protocol = "chat" -> PrependCachedReasoningForChat(ToChat(CoreMessages), memory)
                   [] protocol = "gemini" -> ToGemini(CoreMessages)
  BY DEF Ask, habits
<1>2. /\ protocol \in {"anthropic", "chat", "gemini"} /\ prefix.tools \in Nat /\ prefix.system \in Nat
      /\ Settled(history) /\ SeesUser(Seen(Reading(history)))
  BY <1>1 DEF Turn
<1>3. Talk(CoreMessages) /\ HasUser(CoreMessages)
  <2>1. Resolved(history)
    BY <1>2 DEF Settled, Resolved
  <2> QED
    BY <2>1, CoreTalk
<1> DEFINE core == CoreMessages
<1> HIDE DEF core
<1>4. CASE protocol = "anthropic"
  <2>1. /\ sent' = PrependCachedThinking(ToAnthropic(core), memory)
        /\ marked' = Plan(prefix.tools, prefix.system, ToAnthropic(core))
    BY <1>1, <1>4 DEF PlanAndInject, core
  <2>2. /\ InTurns(PrependCachedThinking(ToAnthropic(core), memory))
        /\ Plan(prefix.tools, prefix.system, ToAnthropic(core)) # NotPlanned =>
             WellMarked(PrependCachedThinking(ToAnthropic(core), memory),
                        Plan(prefix.tools, prefix.system, ToAnthropic(core)))
    BY <1>2, <1>3, AnthropicSent DEF core
  <2>3. InTurns(sent') /\ (marked' # NotPlanned => WellMarked(sent', marked'))
    BY <2>1, <2>2, Zenon
  <2>4. protocol' # "chat"
    BY <1>1, <1>4
  <2> QED
    BY <2>3, <2>4 DEF Sent
<1>5. CASE protocol = "chat"
  <2>1. sent' = PrependCachedReasoningForChat(ToChat(core), memory) /\ marked' = NotPlanned
    BY <1>1, <1>5 DEF PlanAndInject, core
  <2>2. InRuns(sent')
    BY <1>3, <2>1, RunsAnswered DEF core
  <2> QED
    BY <1>1, <1>5, <2>1, <2>2 DEF Sent
<1>6. CASE protocol = "gemini"
  <2>1. sent' = ToGemini(core) /\ marked' = NotPlanned
    BY <1>1, <1>6 DEF PlanAndInject, core
  <2>2. InTurns(sent')
    BY <1>3, <2>1, GeminiSent DEF core
  <2> QED
    BY <1>1, <1>6, <2>1, <2>2 DEF Sent
<1> QED
  BY <1>2, <1>4, <1>5, <1>6

Inv == Turn /\ Sent

LEMMA InvInit == Init => Inv
<1>1. Init => Sent
  BY DEF Init, Sent
<1> QED
  BY <1>1, TurnInit DEF Inv

LEMMA InvNext == Inv /\ [Next]_vars => Inv'
<1>1. Inv /\ [Next]_vars => Turn'
  BY TurnNext DEF Inv
<1> SUFFICES ASSUME Turn, Sent, [Next]_vars PROVE Sent'
  BY <1>1 DEF Inv
<1>2. CASE UserSpeaks
  BY <1>2 DEF UserSpeaks, Sent
<1>3. CASE Ask
  BY <1>3, AskSent
<1>4. CASE Answer
  BY <1>4 DEF Answer, Sent
<1>5. CASE RunTools
  BY <1>5 DEF RunTools, Sent
<1>6. CASE SessionLost \/ UNCHANGED vars
  <2>1. phase' = phase /\ protocol' = protocol /\ sent' = sent /\ marked' = marked
    BY <1>6 DEF SessionLost, vars, habits
  <2> QED
    BY <2>1 DEF Sent
<1> QED
  BY <1>2, <1>3, <1>4, <1>5, <1>6 DEF Next

\* At all times no call waits for its result but those that the client has to
\* answer, and what was sent last is in order.
LEMMA InvCorrect == Spec => []Inv
BY InvInit, InvNext, PTL DEF Spec

\* Whatever a conversation has been, however long, the results of a message's calls
\* follow it in the request, in the form of its protocol (convertInput, the adapters'
\* FromCoreRequest, prependCachedThinking), and no result comes without its call.
THEOREM ResultsAreWithTheirCalls == Spec => []ResultsFollowTheirCalls
<1>1. Inv => ResultsFollowTheirCalls
  <2> SUFFICES ASSUME Inv, phase = "asked"
               PROVE  /\ \A n \in DOMAIN sent : Calls(sent[n]) # {} => Followed(n) = Calls(sent[n])
                      /\ \A n \in DOMAIN sent : \A r \in Results(sent[n]) :
                           \E k \in 1..(n - 1) : r \in Calls(sent[k]) /\ r \in Followed(k)
    BY DEF ResultsFollowTheirCalls
  <2>1. CASE protocol = "chat"
    <3>1. InRuns(sent)
      BY <2>1 DEF Inv, Sent
    <3>2. \A n : RunOfResults(n) = ChatRun(sent, n)
      BY <2>1 DEF RunOfResults, ChatRun, Results
    <3>3. \A n : Followed(n) = ChatFollowed(sent, n)
      BY <2>1, <3>2 DEF Followed, Results, ChatFollowed
    <3>4. \A n : Calls(sent[n]) = Range(sent[n].calls) /\ Results(sent[n]) = Range(sent[n].result)
      BY <2>1 DEF Calls, Results
    <3>5. /\ DOMAIN sent = 1..Len(sent)
          /\ \A n \in 1..Len(sent) : Calls(sent[n]) # {} => Followed(n) = Calls(sent[n])
      BY <3>1, <3>3, <3>4, Zenon DEF InRuns
    <3>6. \A n \in 1..Len(sent) : \A r \in Results(sent[n]) :
             \E k \in 1..(n - 1) : r \in Calls(sent[k]) /\ r \in Followed(k)
      <4> SUFFICES ASSUME NEW n \in 1..Len(sent), NEW r \in Results(sent[n])
                   PROVE  \E k \in 1..(n - 1) : r \in Calls(sent[k]) /\ r \in Followed(k)
        OBVIOUS
      <4>1. PICK k \in 1..(n - 1) : r \in Range(sent[k].calls) /\ r \in ChatFollowed(sent, k)
        BY <3>1, <3>4, Zenon DEF InRuns
      <4> QED
        BY <3>3, <3>4, <4>1, Zenon
    <3> QED
      BY <3>5, <3>6
  <2>2. CASE protocol # "chat"
    <3>1. InTurns(sent)
      BY <2>2 DEF Inv, Sent
    <3>2. \A n : /\ Calls(sent[n]) = TagSet(sent[n].content, "tool_use")
                 /\ Results(sent[n]) = TagSet(sent[n].content, "tool_result")
      BY <2>2 DEF Calls, Results
    <3>3. \A n : n < Len(sent) => Followed(n) = TagSet(sent[n + 1].content, "tool_result")
      BY <2>2 DEF Followed, Results
    <3>4. /\ DOMAIN sent = 1..Len(sent)
          /\ \A n \in 1..Len(sent) : Calls(sent[n]) # {} => Followed(n) = Calls(sent[n])
      BY <3>1, <3>2, <3>3, Zenon DEF InTurns
    <3>5. \A n \in 1..Len(sent) : \A r \in Results(sent[n]) :
             \E k \in 1..(n - 1) : r \in Calls(sent[k]) /\ r \in Followed(k)
      <4> SUFFICES ASSUME NEW n \in 1..Len(sent), NEW r \in Results(sent[n])
                   PROVE  \E k \in 1..(n - 1) : r \in Calls(sent[k]) /\ r \in Followed(k)
        OBVIOUS
      <4>1. PICK k \in 1..(n - 1) :
              /\ k < Len(sent) /\ r \in TagSet(sent[k].content, "tool_use")
              /\ r \in TagSet(sent[k + 1].content, "tool_result")
        BY <3>1, <3>2, Zenon DEF InTurns
      <4> QED
        BY <3>2, <3>3, <4>1, Zenon
    <3> QED
      BY <3>4, <3>5
  <2> QED
    BY <2>1, <2>2
<1> QED
  BY <1>1, InvCorrect, PTL

\* A request that is marked at all is marked at the user's newest message, for any
\* conversation and any size of its prefix (planner.go, selectedMessageBreakpoints).
THEOREM MarksAreAtTheNewest == Spec => []MarksReachTheNewest
<1>1. Inv => MarksReachTheNewest
  BY DEF Inv, Sent, WellMarked, MarksReachTheNewest
<1> QED
  BY <1>1, InvCorrect, PTL

\* No mark is left over while a message could have it: of n messages and r marks that
\* the tools and the system prompt leave, min(n, r) messages are marked.
THEOREM MarksAreAllUsed == Spec => []NoMarkIsWasted
<1>1. Inv => NoMarkIsWasted
  BY DEF Inv, Sent, WellMarked, NoMarkIsWasted
<1> QED
  BY <1>1, InvCorrect, PTL

-----------------------------------------------------------------------------
(***************************************************************************)
(* Any input, whatever its items and their order (InputLoop): reasoning    *)
(* and calls never wait side by side, the reasoning of a message leads its *)
(* calls, and every call and every output is kept once and in order. Each  *)
(* operator of InputItems gets a lemma that says what it preserves and one *)
(* that says what it does to the tags of calls and outputs.                *)
(***************************************************************************)

IsReasoning(b) == b.type = "reasoning" /\ b.tag # NoReasoning

\* ReasoningLeads, of one content.
Leads(content) ==
    \A j, k \in DOMAIN content :
        IsReasoning(content[j]) /\ content[k].type = "tool_use" => j < k

(***************************************************************************)
(* What every step may rely on: one of the two waits, what waits is of its *)
(* type, and a message that lies in the array of the waiting reasoning has *)
(* no calls, so that what is written over it can disturb no order.         *)
(***************************************************************************)
Sound(c) ==
    /\ c \in Conv
    /\ OnlyOf({"reasoning"}, c.reasoning)
    /\ OnlyOf({"reasoning", "tool_use"}, c.calls) /\ Leads(c.calls)
    /\ c.sharers \subseteq DOMAIN c.messages
    /\ \A m \in DOMAIN c.messages : Leads(c.messages[m].content)
    /\ \A m \in c.sharers : Plain(c.messages[m].content)

Good(c) == Sound(c) /\ (c.reasoning = <<>> \/ c.calls = <<>>)

AnyItem == [kind : CallKinds \cup {"message", "reasoning", "output"},
           role : {"user", "assistant", "system", "none"}, tags : Seq(Nat)]

-----------------------------------------------------------------------------
(***************************************************************************)
(* Blocks and their order.                                                 *)
(***************************************************************************)

LEMMA PlainLeads == ASSUME NEW content, Plain(content) PROVE Leads(content)
  BY DEF Plain, OnlyOf, Leads

\* What leads is followed by calls, or what is no reasoning of the input by anything.
LEMMA LeadsAppended ==
  ASSUME NEW s \in Content, NEW t \in Content, Leads(s), Leads(t),
         Plain(s) \/ \A k \in DOMAIN t : ~IsReasoning(t[k])
  PROVE  Leads(s \o t)
<1>1. /\ DOMAIN (s \o t) = 1..(Len(s) + Len(t)) /\ Len(s) \in Nat /\ Len(t) \in Nat
      /\ DOMAIN s = 1..Len(s) /\ DOMAIN t = 1..Len(t)
      /\ \A k \in 1..Len(s) : (s \o t)[k] = s[k]
      /\ \A k \in 1..(Len(s) + Len(t)) : k > Len(s) => (s \o t)[k] = t[k - Len(s)]
  BY DEF Content
<1> SUFFICES ASSUME NEW j \in DOMAIN (s \o t), NEW k \in DOMAIN (s \o t),
                    IsReasoning((s \o t)[j]), (s \o t)[k].type = "tool_use", ~ (j < k)
             PROVE  FALSE
  BY DEF Leads
<1>2. CASE j <= Len(s)
  BY <1>1, <1>2 DEF Leads
<1>3. CASE j > Len(s) /\ k > Len(s)
  <2>1. j - Len(s) \in DOMAIN t /\ k - Len(s) \in DOMAIN t
    BY <1>1, <1>3
  <2>2. j - Len(s) < k - Len(s)
    BY <1>1, <1>3, <2>1 DEF Leads
  <2> QED
    BY <1>1, <1>3, <2>2
<1>4. CASE j > Len(s) /\ k <= Len(s)
  <2>1. j - Len(s) \in DOMAIN t /\ k \in DOMAIN s
    BY <1>1, <1>4
  <2> QED
    BY <1>1, <1>4, <2>1 DEF Plain, OnlyOf
<1> QED
  BY <1>1, <1>2, <1>3, <1>4


LEMMA ContentIs == Content = Seq(ABlock)
  BY DEF Content, ABlock

LEMMA LeadsMerged ==
  ASSUME NEW calls \in Content, NEW blocks \in Content,
         OnlyOf({"reasoning", "tool_use"}, calls), Leads(calls), OnlyOf({"reasoning"}, blocks)
  PROVE  /\ MergeReasoningBeforeToolUse(calls, blocks) \in Content
         /\ OnlyOf({"reasoning", "tool_use"}, MergeReasoningBeforeToolUse(calls, blocks))
         /\ Leads(MergeReasoningBeforeToolUse(calls, blocks))
<1> DEFINE n == LeadingReasoning(calls)
           head == SubSeq(calls, 1, n)
           rest == SubSeq(calls, n + 1, Len(calls))
<1>0. Len(calls) \in Nat /\ DOMAIN calls = 1..Len(calls)
  BY DEF Content
<1>1. /\ n \in 0..Len(calls)
      /\ \A k \in 1..n : calls[k].type = "reasoning"
      /\ n < Len(calls) => calls[n + 1].type # "reasoning"
  BY LeadingReasoningEnds
<1> HIDE DEF n
<1>2. /\ head \in Content /\ DOMAIN head = 1..n
      /\ \A k \in 1..n : head[k] = calls[k]
  BY <1>1, ContentIs, Cut
<1>3. /\ rest \in Content /\ DOMAIN rest = 1..(Len(calls) - n)
      /\ \A k \in 1..(Len(calls) - n) : rest[k] = calls[n + k]
  BY <1>1, ContentIs, Cut
<1>4. OnlyOf({"reasoning"}, head)
  BY <1>1, <1>2 DEF OnlyOf
<1>5. OnlyOf({"reasoning", "tool_use"}, rest)
  BY <1>0, <1>1, <1>3 DEF OnlyOf
\* The rest begins with a call, so that no reasoning of the input is behind it.
<1>6. \A k \in DOMAIN rest : ~ IsReasoning(rest[k])
  <2> SUFFICES ASSUME NEW k \in DOMAIN rest, IsReasoning(rest[k]) PROVE FALSE
    OBVIOUS
  <2>1. n + k \in DOMAIN calls /\ n + 1 \in DOMAIN calls /\ n + 1 <= n + k /\ n < Len(calls)
    BY <1>0, <1>1, <1>3
  <2>2. calls[n + 1].type = "tool_use"
    BY <1>1, <2>1 DEF OnlyOf
  <2>3. IsReasoning(calls[n + k])
    BY <1>3
  <2>4. n + k < n + 1
    BY <2>1, <2>2, <2>3 DEF Leads
  <2> QED
    BY <1>1, <2>1, <2>4
<1> HIDE DEF head, rest
<1>7. head \o blocks \in Content /\ OnlyOf({"reasoning"}, head \o blocks)
  BY <1>2, <1>4, OnlyOfAppended
<1>8. Plain(head \o blocks)
  BY <1>7 DEF Plain, OnlyOf, BlockTypes
<1>9. Leads(rest)
  BY <1>6 DEF Leads
<1>10. Leads((head \o blocks) \o rest)
  BY <1>3, <1>6, <1>7, <1>8, <1>9, LeadsAppended, PlainLeads
<1>11. OnlyOf({"reasoning", "tool_use"}, head \o blocks)
  BY <1>7 DEF OnlyOf
<1>12. /\ (head \o blocks) \o rest \in Content
       /\ OnlyOf({"reasoning", "tool_use"}, (head \o blocks) \o rest)
  BY <1>3, <1>5, <1>7, <1>11, OnlyOfAppended
<1>13. MergeReasoningBeforeToolUse(calls, blocks) = (head \o blocks) \o rest
  BY DEF MergeReasoningBeforeToolUse, n, head, rest
<1> QED
  BY <1>10, <1>12, <1>13

-----------------------------------------------------------------------------
(***************************************************************************)
(* The operators on what is at hand.                                       *)
(***************************************************************************)

LEMMA AddMessageGood ==
  ASSUME NEW c, Good(c), NEW role \in {"user", "assistant", "tool"}, NEW content \in Content,
         Leads(content)
  PROVE  /\ Good(AddMessage(c, role, content))
         /\ AddMessage(c, role, content).reasoning = c.reasoning
         /\ AddMessage(c, role, content).calls = c.calls
<1> DEFINE d == AddMessage(c, role, content)
<1>1. Message(role, content) \in AMessage
  BY DEF Message, AMessage, Roles
<1>2. c.messages \in Seq(AMessage)
  BY DEF Good, Sound, Conv
<1>3. d.messages = Append(c.messages, Message(role, content)) /\ d.messages \in Seq(AMessage)
  BY <1>1, <1>2 DEF AddMessage, Good, Sound, Conv
<1>4. d = [c EXCEPT !.messages = d.messages] /\ d \in Conv
  BY <1>3 DEF AddMessage, Good, Sound, Conv
<1>5. /\ d.system = c.system /\ d.reasoning = c.reasoning /\ d.calls = c.calls
      /\ d.room = c.room /\ d.sharers = c.sharers
  BY <1>4 DEF Good, Sound, Conv
<1>6. \A m \in DOMAIN d.messages :
        \/ m \in DOMAIN c.messages /\ d.messages[m] = c.messages[m]
        \/ m = Len(c.messages) + 1 /\ d.messages[m].content = content
  BY <1>2, <1>3 DEF Message
<1>7. DOMAIN c.messages \subseteq DOMAIN d.messages
  BY <1>2, <1>3
<1>8. \A m \in DOMAIN c.messages : d.messages[m] = c.messages[m]
  BY <1>2, <1>3
<1> HIDE DEF d
<1>9. Good(d)
  BY <1>4, <1>5, <1>6, <1>7, <1>8 DEF Good, Sound
<1> QED
  BY <1>5, <1>9 DEF d

LEMMA FlushCallsGood ==
  ASSUME NEW c, Good(c)
  PROVE  Good(FlushCalls(c)) /\ FlushCalls(c).calls = <<>> /\ FlushCalls(c).reasoning = c.reasoning
<1> DEFINE d == AddMessage(c, "assistant", c.calls)
<1>1. CASE c.calls = <<>>
  BY <1>1 DEF FlushCalls
<1>2. CASE c.calls # <<>>
  <2>1. Good(d) /\ d.reasoning = c.reasoning
    BY AddMessageGood DEF Good, Sound, Conv
  <2>2. FlushCalls(c) = [d EXCEPT !.calls = <<>>]
    BY <1>2 DEF FlushCalls
  <2> HIDE DEF d
  <2>3. d \in Conv /\ <<>> \in Content
    BY <2>1 DEF Good, Sound, Content
  <2>4. /\ FlushCalls(c) \in Conv /\ FlushCalls(c).calls = <<>>
        /\ FlushCalls(c).reasoning = d.reasoning /\ FlushCalls(c).messages = d.messages
        /\ FlushCalls(c).sharers = d.sharers
    BY <2>2, <2>3 DEF Conv
  <2>5. OnlyOf({"reasoning", "tool_use"}, <<>>) /\ Leads(<<>>)
    BY DEF OnlyOf, Leads
  <2> QED
    BY <2>1, <2>4, <2>5 DEF Good, Sound
<1> QED
  BY <1>1, <1>2

LEMMA FlushReasoningGood ==
  ASSUME NEW c, Good(c)
  PROVE  /\ Good(FlushReasoning(c)) /\ FlushReasoning(c).reasoning = <<>>
         /\ FlushReasoning(c).calls = c.calls
<1> DEFINE d == AddMessage(c, "assistant", c.reasoning)
<1>1. CASE c.reasoning = <<>>
  BY <1>1 DEF FlushReasoning
<1>2. CASE c.reasoning # <<>>
  <2>0. Leads(c.reasoning) /\ c.reasoning \in Content
    BY DEF Good, Sound, Conv, Leads, OnlyOf
  <2>1. Good(d) /\ d.calls = c.calls
    BY <2>0, AddMessageGood
  <2>2. FlushReasoning(c) = [d EXCEPT !.reasoning = <<>>]
    BY <1>2 DEF FlushReasoning
  <2> HIDE DEF d
  <2>3. d \in Conv /\ <<>> \in Content
    BY <2>1 DEF Good, Sound, Content
  <2>4. /\ FlushReasoning(c) \in Conv /\ FlushReasoning(c).reasoning = <<>>
        /\ FlushReasoning(c).calls = d.calls /\ FlushReasoning(c).messages = d.messages
        /\ FlushReasoning(c).sharers = d.sharers
    BY <2>2, <2>3 DEF Conv
  <2>5. OnlyOf({"reasoning"}, <<>>)
    BY DEF OnlyOf
  <2> QED
    BY <2>1, <2>4, <2>5 DEF Good, Sound
<1> QED
  BY <1>1, <1>2

\* What is written over a message that has no calls is reasoning or text.
LEMMA OverwrittenGood ==
  ASSUME NEW c, Sound(c), NEW n \in Nat, NEW blocks \in Content, Plain(blocks)
  PROVE  /\ Overwritten(c, n, blocks) \in Seq(AMessage)
         /\ DOMAIN Overwritten(c, n, blocks) = DOMAIN c.messages
         /\ \A m \in DOMAIN c.messages : Leads(Overwritten(c, n, blocks)[m].content)
         /\ \A m \in c.sharers : Plain(Overwritten(c, n, blocks)[m].content)
<1> DEFINE written(content) ==
      [k \in DOMAIN content |-> IF k - n \in DOMAIN blocks THEN blocks[k - n] ELSE content[k]]
<1> DEFINE over == Overwritten(c, n, blocks)
<1>1. c.messages \in Seq(AMessage)
  BY DEF Good, Sound, Conv
<1>2. ASSUME NEW content \in Content, Plain(content)
      PROVE  written(content) \in Content /\ Plain(written(content))
  <2>1. /\ content \in Seq(ABlock) /\ blocks \in Seq(ABlock)
    BY ContentIs
  <2>2. \A k \in 1..Len(content) : written(content)[k] \in ABlock
    BY <2>1
  <2>3. written(content) \in Content
    BY <2>1, <2>2, ContentIs
  <2> QED
    BY <1>2, <2>3 DEF Plain, OnlyOf
<1> HIDE DEF written
<1>3. over = [m \in DOMAIN c.messages |->
                 IF m \in c.sharers
                 THEN [c.messages[m] EXCEPT !.content = written(c.messages[m].content)]
                 ELSE c.messages[m]]
  BY DEF Overwritten, written
<1>4. \A m \in DOMAIN c.messages : c.messages[m] \in AMessage
  BY <1>1
<1>5. ASSUME NEW m \in c.sharers
      PROVE  /\ m \in DOMAIN c.messages
             /\ [c.messages[m] EXCEPT !.content = written(c.messages[m].content)] \in AMessage
             /\ over[m].content = written(c.messages[m].content)
             /\ Plain(written(c.messages[m].content))
  <2>1. m \in DOMAIN c.messages /\ Plain(c.messages[m].content)
    BY DEF Good, Sound
  <2>2. c.messages[m] \in AMessage /\ c.messages[m].content \in Content
    BY <1>4, <2>1 DEF AMessage, Roles
  <2>3. /\ written(c.messages[m].content) \in Content
        /\ Plain(written(c.messages[m].content))
    BY <1>2, <2>1, <2>2
  <2> QED
    BY <1>3, <2>1, <2>2, <2>3 DEF AMessage, Roles
<1>6. \A m \in DOMAIN c.messages : over[m] \in AMessage
  BY <1>3, <1>4, <1>5
<1>7. DOMAIN c.messages = 1..Len(c.messages) /\ Len(c.messages) \in Nat
  BY <1>1
<1>8. over \in Seq(AMessage) /\ DOMAIN over = DOMAIN c.messages
  BY <1>3, <1>6, <1>7
<1>9. \A m \in DOMAIN c.messages : Leads(over[m].content)
  <2> SUFFICES ASSUME NEW m \in DOMAIN c.messages PROVE Leads(over[m].content)
    OBVIOUS
  <2>1. CASE m \in c.sharers
    BY <1>5, <2>1, PlainLeads
  <2>2. CASE m \notin c.sharers
    BY <1>3, <2>2 DEF Good, Sound
  <2> QED
    BY <2>1, <2>2
<1> QED
  BY <1>5, <1>8, <1>9

LEMMA AppendReasoningGood ==
  ASSUME NEW c, Sound(c), NEW blocks \in Content, OnlyOf({"reasoning"}, blocks)
  PROVE  /\ Sound(AppendReasoning(c, blocks))
         /\ AppendReasoning(c, blocks).reasoning = c.reasoning \o blocks
         /\ AppendReasoning(c, blocks).calls = c.calls
<1> DEFINE d == AppendReasoning(c, blocks)
<1>0. c \in Conv /\ c.reasoning \in Content /\ Len(c.reasoning) \in Nat /\ Len(blocks) \in Nat
  BY DEF Good, Sound, Conv, Content
<1>1. c.reasoning \o blocks \in Content /\ OnlyOf({"reasoning"}, c.reasoning \o blocks)
  BY <1>0, OnlyOfAppended DEF Good, Sound
<1>2. CASE Fits(c, blocks)
  <2> DEFINE over == Overwritten(c, Len(c.reasoning), blocks)
  <2>1. Plain(blocks)
    BY DEF Plain, OnlyOf, BlockTypes
  <2>2. /\ over \in Seq(AMessage) /\ DOMAIN over = DOMAIN c.messages
        /\ \A m \in DOMAIN c.messages : Leads(over[m].content)
        /\ \A m \in c.sharers : Plain(over[m].content)
    BY <1>0, <2>1, OverwrittenGood
  <2> HIDE DEF over
  <2>3. d = [c EXCEPT !.messages = over, !.reasoning = @ \o blocks]
    BY <1>2 DEF AppendReasoning, over
  <2>4. /\ d \in Conv /\ d.messages = over /\ d.reasoning = c.reasoning \o blocks
        /\ d.calls = c.calls /\ d.sharers = c.sharers
    BY <1>0, <1>1, <2>2, <2>3 DEF Conv
  <2> QED
    BY <1>1, <2>2, <2>4 DEF Good, Sound
<1>3. CASE ~ Fits(c, blocks)
  <2> DEFINE room == Grown(c.room, Len(c.reasoning) + Len(blocks))
  <2>1. room \in Nat
    BY <1>0 DEF Grown, Conv
  <2>2. d = [c EXCEPT !.reasoning = @ \o blocks, !.room = room, !.sharers = {}]
    BY <1>3 DEF AppendReasoning
  <2> HIDE DEF room
  <2>3. /\ d \in Conv /\ d.messages = c.messages /\ d.reasoning = c.reasoning \o blocks
        /\ d.calls = c.calls /\ d.sharers = {}
    BY <1>0, <1>1, <2>1, <2>2 DEF Conv
  <2> QED
    BY <1>1, <2>3 DEF Good, Sound
<1> QED
  BY <1>2, <1>3

LEMMA TakeReasoningGood ==
  ASSUME NEW c, Good(c), NEW item \in AnyItem
  PROVE  Good(TakeReasoning(c, item))
<1> DEFINE blocks == Blocks("reasoning", item.tags)
<1>1. blocks \in Content /\ OnlyOf({"reasoning"}, blocks)
  BY BlocksTyped DEF AnyItem, BlockTypes
<1> HIDE DEF blocks
<1>2. CASE c.calls = <<>>
  BY <1>1, <1>2, AppendReasoningGood DEF TakeReasoning, blocks, Good
<1>3. CASE c.calls # <<>>
  <2> DEFINE merged == MergeReasoningBeforeToolUse(c.calls, blocks)
  <2>1. c \in Conv /\ c.calls \in Content
    BY DEF Good, Sound, Conv
  <2>2. /\ merged \in Content /\ OnlyOf({"reasoning", "tool_use"}, merged)
        /\ Leads(merged)
    BY <1>1, <2>1, LeadsMerged DEF Good, Sound
  <2>3. TakeReasoning(c, item) = [c EXCEPT !.calls = merged]
    BY <1>3 DEF TakeReasoning, blocks
  <2> HIDE DEF merged
  <2>4. /\ TakeReasoning(c, item) \in Conv /\ TakeReasoning(c, item).calls = merged
        /\ TakeReasoning(c, item).messages = c.messages
        /\ TakeReasoning(c, item).reasoning = c.reasoning
        /\ TakeReasoning(c, item).sharers = c.sharers
    BY <2>1, <2>2, <2>3 DEF Conv
  <2> QED
    BY <1>3, <2>2, <2>4 DEF Good, Sound
<1> QED
  BY <1>2, <1>3

\* A call takes the reasoning that waits, which the calls before it had none of.
LEMMA TakeCallGood ==
  ASSUME NEW c, Good(c), NEW item \in AnyItem, NEW reasoningModel
  PROVE  Good(TakeCall(c, item, reasoningModel))
<1> DEFINE r == WithReasoning(c, item, reasoningModel)
           uses == Blocks("tool_use", item.tags)
           empty == <<Block("reasoning", NoReasoning)>>
<1>0. c \in Conv /\ c.calls \in Content /\ c.reasoning \in Content
  BY DEF Good, Sound, Conv
<1>1. uses \in Content /\ OnlyOf({"tool_use"}, uses)
  BY BlocksTyped DEF AnyItem, BlockTypes
<1>2. empty \in Content /\ OnlyOf({"reasoning"}, empty) /\ ~ IsReasoning(empty[1])
  <2>1. Block("reasoning", NoReasoning) \in ABlock
    BY DEF Block, ABlock, BlockTypes, NoReasoning
  <2>2. empty \in Seq(ABlock)
    BY <2>1
  <2> QED
    BY <2>2, ContentIs DEF OnlyOf, Block, IsReasoning
<1>3. /\ Sound(r) /\ r.calls = c.calls
      /\ c.calls = <<>> \/ \A k \in DOMAIN r.reasoning : ~ IsReasoning(r.reasoning[k])
  <2>1. CASE r = c
    BY <2>1 DEF Good
  <2>2. CASE r # c
    <3>1. c.reasoning = <<>> /\ r = AppendReasoning(c, empty)
      BY <2>2 DEF WithReasoning
    <3> HIDE DEF r, empty
    <3>2. Sound(r) /\ r.calls = c.calls /\ r.reasoning = c.reasoning \o empty
      BY <1>2, <3>1, AppendReasoningGood DEF Good
    <3>3. r.reasoning = empty
      BY <1>2, <3>1, <3>2 DEF Content
    <3> QED
      BY <1>2, <3>2, <3>3 DEF empty
  <2> QED
    BY <2>1, <2>2
<1> HIDE DEF r, uses, empty
<1>4. r \in Conv /\ r.reasoning \in Content /\ OnlyOf({"reasoning"}, r.reasoning)
  BY <1>3 DEF Sound, Conv
<1>5. /\ c.calls \o r.reasoning \in Content
      /\ OnlyOf({"reasoning", "tool_use"}, c.calls \o r.reasoning)
  <2>1. OnlyOf({"reasoning", "tool_use"}, r.reasoning)
    BY <1>4 DEF OnlyOf
  <2> QED
    BY <1>0, <1>4, <2>1, OnlyOfAppended DEF Good, Sound
<1>6. Leads(c.calls \o r.reasoning)
  <2>1. Leads(c.calls) /\ Leads(r.reasoning)
    BY <1>4 DEF Good, Sound, OnlyOf, Leads
  <2>2. Plain(c.calls) \/ \A k \in DOMAIN r.reasoning : ~ IsReasoning(r.reasoning[k])
    BY <1>3 DEF Plain, OnlyOf
  <2> QED
    BY <1>0, <1>4, <2>1, <2>2, LeadsAppended
<1> DEFINE calls == (c.calls \o r.reasoning) \o uses
<1>7. calls \in Content /\ OnlyOf({"reasoning", "tool_use"}, calls)
  <2>1. OnlyOf({"reasoning", "tool_use"}, uses)
    BY <1>1 DEF OnlyOf
  <2> QED
    BY <1>1, <1>5, <2>1, OnlyOfAppended
<1>8. Leads(calls)
  <2>1. \A k \in DOMAIN uses : ~ IsReasoning(uses[k])
    BY <1>1 DEF OnlyOf, IsReasoning
  <2>2. Leads(uses)
    BY <2>1 DEF Leads
  <2> QED
    BY <1>1, <1>5, <1>6, <2>1, <2>2, LeadsAppended
<1>9. TakeCall(c, item, reasoningModel) = [r EXCEPT !.calls = calls, !.reasoning = <<>>]
  BY <1>3 DEF TakeCall, r, uses
<1> HIDE DEF calls
<1>10. <<>> \in Content /\ OnlyOf({"reasoning"}, <<>>)
  BY DEF Content, OnlyOf
<1> DEFINE d == TakeCall(c, item, reasoningModel)
<1>11. /\ d \in Conv /\ d.calls = calls /\ d.reasoning = <<>>
       /\ d.messages = r.messages /\ d.sharers = r.sharers
  BY <1>4, <1>7, <1>9, <1>10 DEF Conv
<1> QED
  BY <1>3, <1>7, <1>8, <1>10, <1>11 DEF Good, Sound

LEMMA TakeOutputGood ==
  ASSUME NEW c, Good(c), NEW item \in AnyItem
  PROVE  Good(TakeOutput(c, item))
<1> DEFINE results == Blocks("tool_result", item.tags)
           flushed == FlushReasoning(FlushCalls(c))
<1>1. results \in Content /\ OnlyOf({"tool_result"}, results)
  BY BlocksTyped DEF AnyItem, BlockTypes
<1>2. Leads(results)
  BY <1>1 DEF Leads, OnlyOf
<1>3. Good(flushed)
  BY FlushCallsGood, FlushReasoningGood
<1>4. TakeOutput(c, item) = AddMessage(flushed, "tool", results)
  BY DEF TakeOutput, Good
<1> QED
  BY <1>1, <1>2, <1>3, <1>4, AddMessageGood

LEMMA TakeSystemGood ==
  ASSUME NEW c, Good(c), NEW item \in AnyItem
  PROVE  Good(TakeSystem(c, item))
<1> DEFINE d == TakeSystem(c, item)
<1>1. Blocks("text", item.tags) \in Content
  BY BlocksTyped DEF AnyItem, BlockTypes
<1>2. c.system \o Blocks("text", item.tags) \in Content
  BY <1>1 DEF Good, Sound, Conv, Content
<1>3. /\ d \in Conv /\ d.messages = c.messages /\ d.reasoning = c.reasoning
      /\ d.calls = c.calls /\ d.sharers = c.sharers
  BY <1>2 DEF TakeSystem, Good, Sound, Conv
<1> QED
  BY <1>3 DEF Good, Sound

LEMMA TakeUserGood ==
  ASSUME NEW c, Good(c), NEW item \in AnyItem
  PROVE  Good(TakeUser(c, item))
<1>1. Blocks("text", item.tags) \in Content /\ OnlyOf({"text"}, Blocks("text", item.tags))
  BY BlocksTyped DEF AnyItem, BlockTypes
<1>2. Leads(Blocks("text", item.tags))
  BY <1>1 DEF Leads, OnlyOf
<1> QED
  BY <1>1, <1>2, AddMessageGood DEF TakeUser

\* The answer becomes a message without calls, in the array of the reasoning or not.
LEMMA TakeAnswerGood ==
  ASSUME NEW c, Good(c), NEW item \in AnyItem
  PROVE  Good(TakeAnswer(c, item))
<1> DEFINE texts == Blocks("text", item.tags)
           content == c.reasoning \o texts
           inPlace == c.reasoning # <<>> /\ Fits(c, texts)
           over == Overwritten(c, Len(c.reasoning), texts)
           before == IF inPlace THEN over ELSE c.messages
           sharers == IF inPlace THEN c.sharers \cup {Len(c.messages) + 1} ELSE c.sharers
           after == Append(before, Message("assistant", content))
           e == TakeAnswer(c, item)
<1>0. /\ c \in Conv /\ c.reasoning \in Content /\ c.messages \in Seq(AMessage)
      /\ Len(c.reasoning) \in Nat /\ c.sharers \subseteq DOMAIN c.messages
  BY DEF Good, Sound, Conv, Content
<1>1. /\ texts \in Content /\ OnlyOf({"text"}, texts) /\ Plain(texts)
  <2>1. texts \in Content /\ OnlyOf({"text"}, texts)
    BY BlocksTyped DEF AnyItem, BlockTypes
  <2> QED
    BY <2>1 DEF Plain, OnlyOf, BlockTypes
<1> HIDE DEF texts
<1>2. content \in Content /\ Plain(content)
  <2>1. Plain(c.reasoning)
    BY DEF Good, Sound, Plain, OnlyOf, BlockTypes
  <2> QED
    BY <1>0, <1>1, <2>1, OnlyOfAppended DEF Plain
<1>3. CASE content = <<>>
  BY <1>3 DEF TakeAnswer, texts
<1>4. CASE content # <<>>
  <2>1. /\ before \in Seq(AMessage) /\ DOMAIN before = DOMAIN c.messages
        /\ \A m \in DOMAIN c.messages : Leads(before[m].content)
        /\ \A m \in c.sharers : Plain(before[m].content)
    BY <1>0, <1>1, OverwrittenGood DEF Good, Sound
  <2>2. Message("assistant", content) \in AMessage /\ Message("assistant", content).content = content
    BY <1>2 DEF Message, AMessage, Roles
  <2>3. e = [c EXCEPT !.messages = after, !.sharers = sharers, !.reasoning = <<>>]
    BY <1>0, <1>4 DEF TakeAnswer, AddMessage, Conv, texts
  <2> HIDE DEF content, over, before, inPlace
  <2>4. Len(before) = Len(c.messages)
    BY <1>0, <2>1
  <2>5. /\ after \in Seq(AMessage) /\ DOMAIN after = 1..(Len(c.messages) + 1)
        /\ after[Len(c.messages) + 1] = Message("assistant", content)
        /\ \A m \in DOMAIN c.messages : after[m] = before[m]
    BY <1>0, <2>1, <2>2, <2>4
  <2> HIDE DEF after
  <2>6. DOMAIN c.messages = 1..Len(c.messages) /\ Len(c.messages) \in Nat
    BY <1>0
  <2>7. sharers \subseteq DOMAIN after /\ sharers \subseteq c.sharers \cup {Len(c.messages) + 1}
    BY <1>0, <2>5, <2>6
  <2>8. \A m \in DOMAIN after : Leads(after[m].content)
    BY <1>2, <2>1, <2>2, <2>5, <2>6, PlainLeads
  <2>9. \A m \in sharers : Plain(after[m].content)
    BY <1>0, <1>2, <2>1, <2>2, <2>5, <2>7
  <2>10. sharers \in SUBSET Nat /\ <<>> \in Content /\ OnlyOf({"reasoning"}, <<>>)
    BY <2>5, <2>7 DEF Content, OnlyOf
  <2> HIDE DEF sharers
  <2>11. /\ e \in Conv /\ e.messages = after /\ e.reasoning = <<>>
         /\ e.calls = c.calls /\ e.sharers = sharers
    BY <1>0, <2>3, <2>5, <2>10 DEF Conv
  <2> QED
    BY <2>7, <2>8, <2>9, <2>10, <2>11 DEF Good, Sound
<1> QED
  BY <1>3, <1>4

LEMMA TakeGood ==
  ASSUME NEW c, Good(c), NEW item \in AnyItem, NEW reasoningModel
  PROVE  Good(Take(c, item, reasoningModel))
<1>1. Good(TakeMessage(FlushCalls(c), item))
  BY FlushCallsGood, TakeSystemGood, TakeAnswerGood, TakeUserGood DEF TakeMessage
<1> QED
  BY <1>1, TakeOutputGood, TakeReasoningGood, TakeCallGood DEF Take

-----------------------------------------------------------------------------
(***************************************************************************)
(* Sequences put together. A recursive function is the one that satisfies  *)
(* its equation, once it is known that there is one; what it computes is   *)
(* proved by looking at the least place where it would be wrong.           *)
(***************************************************************************)

\* The function in the definition of Flat, for the first n sequences.
IsFlat(f, seqs, n) == f = [k \in 0..n |-> IF k = 0 THEN <<>> ELSE f[k - 1] \o seqs[k]]

LEMMA IsFlatAt ==
  ASSUME NEW f, NEW seqs, NEW n \in Nat
  PROVE  IsFlat(f, seqs, n) => f[0] = <<>> /\ \A k \in 1..n : f[k] = f[k - 1] \o seqs[k]
<1>1. 0 \in 0..n /\ \A k \in 1..n : k \in 0..n /\ k # 0
  OBVIOUS
<1> QED
  BY <1>1 DEF IsFlat

LEMMA FlatLonger ==
  ASSUME NEW seqs, NEW n \in Nat \ {0}, NEW f, IsFlat(f, seqs, n - 1)
  PROVE  \E g : IsFlat(g, seqs, n)
<1> DEFINE g == [k \in 0..n |-> IF k = n THEN f[n - 1] \o seqs[n] ELSE f[k]]
<1>1. n - 1 \in Nat /\ n - 1 \in 0..n /\ n - 1 # n /\ n \in 0..n
  OBVIOUS
<1>2. g[n] = f[n - 1] \o seqs[n] /\ g[n - 1] = f[n - 1]
  BY <1>1
<1>3. ASSUME NEW k \in 0..n PROVE g[k] = IF k = 0 THEN <<>> ELSE g[k - 1] \o seqs[k]
  <2>1. CASE k = n
    BY <1>2, <2>1
  <2>2. CASE k # n
    <3>1. f[k] = IF k = 0 THEN <<>> ELSE f[k - 1] \o seqs[k]
      <4>1. k \in 0..(n - 1)
        BY <2>2
      <4> QED
        BY <4>1 DEF IsFlat
    <3>2. g[k] = f[k] /\ (k # 0 => g[k - 1] = f[k - 1])
      BY <2>2
    <3> QED
      BY <3>1, <3>2
  <2> QED
    BY <2>1, <2>2
<1>4. g = [k \in 0..n |-> g[k]]
  OBVIOUS
<1> HIDE DEF g
<1>5. IsFlat(g, seqs, n)
  BY <1>3, <1>4 DEF IsFlat
<1> QED
  BY <1>5

LEMMA FlatExists == ASSUME NEW seqs, NEW n \in Nat PROVE \E f : IsFlat(f, seqs, n)
<1> DEFINE T == {k \in Nat : \E f : IsFlat(f, seqs, k)}
<1>1. 0 \in T
  <2>1. IsFlat([k \in 0..0 |-> <<>>], seqs, 0)
    BY DEF IsFlat
  <2> QED
    BY <2>1
<1>2. \A k \in 1..n : k - 1 \in T => k \in T
  BY FlatLonger
<1>3. n \in 0..n
  OBVIOUS
<1> HIDE DEF T
<1>4. n \in T
  BY <1>1, <1>2, <1>3, AllUpTo
<1> QED
  BY <1>4 DEF T

LEMMA FlatIs ==
  ASSUME NEW seqs, Len(seqs) \in Nat
  PROVE  \E f : IsFlat(f, seqs, Len(seqs)) /\ Flat(seqs) = f[Len(seqs)]
<1> DEFINE f == CHOOSE g : g = [n \in 0..Len(seqs) |-> IF n = 0 THEN <<>> ELSE g[n - 1] \o seqs[n]]
<1>1. Flat(seqs) = f[Len(seqs)]
  BY DEF Flat
<1>2. \E g : g = [n \in 0..Len(seqs) |-> IF n = 0 THEN <<>> ELSE g[n - 1] \o seqs[n]]
  BY FlatExists DEF IsFlat
<1>3. f = [n \in 0..Len(seqs) |-> IF n = 0 THEN <<>> ELSE f[n - 1] \o seqs[n]]
  BY <1>2
<1> HIDE DEF f
<1> QED
  BY <1>1, <1>3 DEF IsFlat

\* The same with the equation at each place.
LEMMA FlatSteps ==
  ASSUME NEW seqs, Len(seqs) \in Nat
  PROVE  \E f : /\ f[0] = <<>> /\ Flat(seqs) = f[Len(seqs)]
                /\ \A k \in 1..Len(seqs) : f[k] = f[k - 1] \o seqs[k]
<1>1. PICK f : IsFlat(f, seqs, Len(seqs)) /\ Flat(seqs) = f[Len(seqs)]
  BY FlatIs
<1>2. f[0] = <<>> /\ \A k \in 1..Len(seqs) : f[k] = f[k - 1] \o seqs[k]
  BY <1>1, IsFlatAt
<1> QED
  BY <1>1, <1>2

LEMMA FlatTyped ==
  ASSUME NEW S, NEW n \in Nat, NEW seqs, \A k \in 1..n : seqs[k] \in Seq(S),
         NEW f, f[0] = <<>>, \A k \in 1..n : f[k] = f[k - 1] \o seqs[k]
  PROVE  \A k \in 0..n : f[k] \in Seq(S)
<1> DEFINE T == {k \in 0..n : f[k] \in Seq(S)}
<1>1. 0 \in T
  <2>1. <<>> \in Seq(S) /\ 0 \in 0..n
    OBVIOUS
  <2> QED
    BY <2>1
<1>2. ASSUME NEW k \in 1..n, k - 1 \in T PROVE k \in T
  <2>0. k \in 0..n
    OBVIOUS
  <2>1. f[k - 1] \in Seq(S) /\ seqs[k] \in Seq(S) /\ f[k] = f[k - 1] \o seqs[k] /\ k \in 0..n
    BY <1>2, <2>0
  <2>2. f[k - 1] \o seqs[k] \in Seq(S)
    BY <2>1, ConcatProperties
  <2> QED
    BY <2>1, <2>2
<1> HIDE DEF T
<1>3. \A k \in 0..n : k \in T
  BY <1>1, <1>2, AllUpTo
<1> QED
  BY <1>3 DEF T

LEMMA FlatInSeq == ASSUME NEW S, NEW seqs \in Seq(Seq(S)) PROVE Flat(seqs) \in Seq(S)
<1>1. Len(seqs) \in Nat /\ \A k \in 1..Len(seqs) : seqs[k] \in Seq(S)
  BY ElementsOf
<1>2. PICK f : /\ f[0] = <<>> /\ Flat(seqs) = f[Len(seqs)]
               /\ \A k \in 1..Len(seqs) : f[k] = f[k - 1] \o seqs[k]
  BY <1>1, FlatSteps
<1>3. \A k \in 0..Len(seqs) : f[k] \in Seq(S)
  BY <1>1, <1>2, FlatTyped
<1>4. Len(seqs) \in 0..Len(seqs)
  BY <1>1
<1> QED
  BY <1>2, <1>3, <1>4

\* What is put behind a sequence, step by step.
Builds(h, m, a, t) == h[m] = a /\ \A k \in 1..Len(t) : h[m + k] = h[m + (k - 1)] \o t[k]

LEMMA JoinedSteps ==
  ASSUME NEW S, NEW t \in Seq(Seq(S)), NEW a \in Seq(S), NEW m \in Nat,
         NEW g, Builds(g, 0, <<>>, t), NEW h, Builds(h, m, a, t)
  PROVE  h[m + Len(t)] = a \o g[Len(t)]
<1> DEFINE n == Len(t)
           T == {k \in 0..n : h[m + k] = a \o g[k]}
<1>1. n \in Nat /\ n \in 0..n /\ \A k \in 1..n : t[k] \in Seq(S)
  BY ElementsOf
<1>2. g[0] = <<>> /\ \A k \in 1..n : g[k] = g[k - 1] \o t[k]
  <2>1. \A k \in 1..n : 0 + k = k /\ 0 + (k - 1) = k - 1
    BY <1>1
  <2>2. g[0] = <<>> /\ \A k \in 1..n : g[0 + k] = g[0 + (k - 1)] \o t[k]
    BY DEF Builds
  <2> HIDE DEF n
  <2> QED
    BY <2>1, <2>2
<1>3. h[m] = a /\ \A k \in 1..n : h[m + k] = h[m + (k - 1)] \o t[k]
  BY DEF Builds
<1> HIDE DEF n
<1>4. \A k \in 0..n : g[k] \in Seq(S)
  BY <1>1, <1>2, FlatTyped
<1>5. 0 \in T
  <2>1. a \o <<>> = a /\ m + 0 = m /\ 0 \in 0..n
    BY <1>1, ConcatEmptySeq
  <2> QED
    BY <1>2, <1>3, <2>1
<1>6. ASSUME NEW k \in 1..n, k - 1 \in T PROVE k \in T
  <2> DEFINE b == g[k - 1]
             c == t[k]
  <2>1. k \in 0..n /\ k - 1 \in 0..n
    BY <1>1
  <2>2. h[m + k] = (a \o b) \o c /\ g[k] = b \o c
    BY <1>2, <1>3, <1>6
  <2>3. b \in Seq(S) /\ c \in Seq(S)
    BY <1>1, <1>4, <2>1
  <2> HIDE DEF b, c
  <2>4. (a \o b) \o c = a \o (b \o c)
    BY <2>3, ConcatAssociative
  <2> QED
    BY <2>1, <2>2, <2>4
<1> HIDE DEF T
<1>7. n \in T
  BY <1>1, <1>5, <1>6, AllUpTo
<1> QED
  BY <1>7 DEF T, n

\* What is flattened of two sequences of sequences is what is flattened of each.
LEMMA FlatJoined ==
  ASSUME NEW S, NEW s \in Seq(Seq(S)), NEW t \in Seq(Seq(S))
  PROVE  Flat(s \o t) = Flat(s) \o Flat(t)
<1> DEFINE u == s \o t
           m == Len(s)
           n == Len(t)
<1>1. /\ m \in Nat /\ \A k \in 1..m : s[k] \in Seq(S)
      /\ n \in Nat /\ \A k \in 1..n : t[k] \in Seq(S)
  BY ElementsOf
<1>2. /\ Len(u) = m + n
      /\ \A k \in 1..m : u[k] = s[k]
      /\ \A k \in 1..n : u[m + k] = t[k]
  BY JoinedAt
<1>3. PICK f : f[0] = <<>> /\ Flat(s) = f[m] /\ \A k \in 1..m : f[k] = f[k - 1] \o s[k]
  BY <1>1, FlatSteps
<1>4. PICK g : g[0] = <<>> /\ Flat(t) = g[n] /\ \A k \in 1..n : g[k] = g[k - 1] \o t[k]
  BY <1>1, FlatSteps
<1>5. PICK h : h[0] = <<>> /\ Flat(u) = h[Len(u)] /\ \A k \in 1..Len(u) : h[k] = h[k - 1] \o u[k]
  <2>1. Len(u) \in Nat
    BY <1>1, <1>2
  <2> HIDE DEF u
  <2> QED
    BY <2>1, FlatSteps
<1> HIDE DEF u, m, n
<1>6. /\ \A k \in 0..m : f[k] \in Seq(S)
      /\ \A k \in 0..n : g[k] \in Seq(S)
  BY <1>1, <1>3, <1>4, FlatTyped
<1>7. h[m] = f[m]
  <2> DEFINE T == {k \in 0..m : h[k] = f[k]}
  <2>1. 0 \in T
    BY <1>1, <1>3, <1>5
  <2>2. ASSUME NEW k \in 1..m, k - 1 \in T PROVE k \in T
    <3>1. h[k - 1] = f[k - 1] /\ k \in 1..Len(u) /\ k \in 0..m
      BY <1>1, <1>2, <2>2
    <3> QED
      BY <1>2, <1>3, <1>5, <3>1
  <2>3. m \in 0..m
    BY <1>1
  <2> HIDE DEF T
  <2>4. m \in T
    BY <1>1, <2>1, <2>2, <2>3, AllUpTo
  <2> QED
    BY <2>4 DEF T
<1>8. f[m] \in Seq(S)
  BY <1>1, <1>6
<1>9. h[m + n] = f[m] \o g[n]
  <2>1. \A k \in 1..n : m + k \in 1..Len(u) /\ (m + k) - 1 = m + (k - 1) /\ 0 + k = k /\ 0 + (k - 1) = k - 1
    BY <1>1, <1>2
  <2>2. Builds(h, m, f[m], t)
    BY <1>2, <1>5, <1>7, <2>1 DEF Builds, n
  <2>3. Builds(g, 0, <<>>, t)
    BY <1>4, <2>1 DEF Builds, n
  <2> DEFINE a == f[m]
  <2> HIDE DEF a
  <2>4. a \in Seq(S) /\ Builds(h, m, a, t)
    BY <1>8, <2>2 DEF a
  <2>5. h[m + Len(t)] = a \o g[Len(t)]
    BY <1>1, <2>3, <2>4, JoinedSteps
  <2> QED
    BY <2>5 DEF a, n
<1> QED
  BY <1>2, <1>3, <1>4, <1>5, <1>9 DEF u

LEMMA FlatOfOne ==
  ASSUME NEW S, NEW s \in Seq(S)
  PROVE  Flat(<<s>>) = s
<1>1. Len(<<s>>) = 1 /\ <<s>>[1] = s /\ 1 \in 1..1 /\ 1 - 1 = 0 /\ 1 \in Nat
  OBVIOUS
<1> DEFINE seqs == <<s>>
<1> HIDE DEF seqs
<1>2. PICK f : f[0] = <<>> /\ Flat(seqs) = f[1] /\ \A k \in 1..1 : f[k] = f[k - 1] \o seqs[k]
  BY <1>1, FlatSteps DEF seqs
<1>3. f[1] = <<>> \o s
  BY <1>1, <1>2 DEF seqs
<1>4. <<>> \o s = s
  BY ConcatEmptySeq
<1> QED
  BY <1>2, <1>3, <1>4 DEF seqs

LEMMA FlatAppended ==
  ASSUME NEW S, NEW seqs \in Seq(Seq(S)), NEW s \in Seq(S)
  PROVE  Flat(Append(seqs, s)) = Flat(seqs) \o s
<1> DEFINE E == Seq(S)
           one == <<s>>
<1>1. one \in Seq(E)
  OBVIOUS
<1>2. Append(seqs, s) = seqs \o one
  <2> HIDE DEF E
  <2>1. seqs \in Seq(E) /\ s \in E
    BY DEF E
  <2> QED
    BY <2>1, AppendIsConcat
<1>3. Flat(one) = s
  BY FlatOfOne
<1> HIDE DEF one
<1>4. Flat(seqs \o one) = Flat(seqs) \o Flat(one)
  BY <1>1, FlatJoined
<1> QED
  BY <1>2, <1>3, <1>4

\* Nothing comes of empty sequences.
LEMMA FlatOfNone ==
  ASSUME NEW seqs, Len(seqs) \in Nat, \A k \in 1..Len(seqs) : seqs[k] = <<>>
  PROVE  Flat(seqs) = <<>>
<1>1. PICK f : /\ f[0] = <<>> /\ Flat(seqs) = f[Len(seqs)]
               /\ \A k \in 1..Len(seqs) : f[k] = f[k - 1] \o seqs[k]
  BY FlatSteps
<1> DEFINE n == Len(seqs)
           T == {k \in 0..n : f[k] = <<>>}
<1>2. 0 \in T
  BY <1>1
<1>3. ASSUME NEW k \in 1..n, k - 1 \in T PROVE k \in T
  <2>0. k \in 0..n /\ f[k - 1] = <<>>
    BY <1>3
  <2>1. f[k] = <<>> \o <<>>
    BY <1>1, <2>0
  <2> QED
    BY <2>0, <2>1
<1>4. n \in Nat /\ n \in 0..n
  OBVIOUS
<1> HIDE DEF T
<1>5. n \in T
  BY <1>2, <1>3, <1>4, AllUpTo
<1> QED
  BY <1>1, <1>5 DEF T

-----------------------------------------------------------------------------
(***************************************************************************)
(* The tags of the calls and of the outputs, through every operator.       *)
(***************************************************************************)

TagSeqs(content, type) ==
    [k \in DOMAIN content |-> IF content[k].type = type THEN <<content[k].tag>> ELSE <<>>]

LEMMA TagSeqsTyped ==
  ASSUME NEW content \in Content, NEW type
  PROVE  /\ TagSeqs(content, type) \in Seq(Seq(Nat))
         /\ Len(TagSeqs(content, type)) = Len(content) /\ Len(content) \in Nat
         /\ TagsOf(content, type) = Flat(TagSeqs(content, type))
         /\ TagsOf(content, type) \in Seq(Nat)
<1> DEFINE q == TagSeqs(content, type)
<1>1. /\ DOMAIN content = 1..Len(content) /\ Len(content) \in Nat
      /\ \A k \in 1..Len(content) : content[k] \in ABlock
  BY ContentIs, ElementsOf
<1>2. \A k \in 1..Len(content) : q[k] \in Seq(Nat)
  BY <1>1 DEF TagSeqs, ABlock
<1>3. q = [k \in 1..Len(content) |-> q[k]]
  BY <1>1 DEF TagSeqs
<1> HIDE DEF q
<1>4. q \in Seq(Seq(Nat)) /\ Len(q) = Len(content)
  BY <1>1, <1>2, <1>3
<1>5. TagsOf(content, type) = Flat(q)
  BY DEF TagsOf, TagSeqs, q
<1>6. Flat(q) \in Seq(Nat)
  BY <1>4, FlatInSeq
<1> QED
  BY <1>1, <1>4, <1>5, <1>6 DEF q

LEMMA TagsAssociate ==
  ASSUME NEW x \in Seq(Nat), NEW y \in Seq(Nat), NEW z \in Seq(Nat)
  PROVE  (x \o y) \o z = x \o (y \o z)
<1> DEFINE S == Nat
<1>1. x \in Seq(S) /\ y \in Seq(S) /\ z \in Seq(S)
  OBVIOUS
<1> HIDE DEF S
<1> QED
  BY <1>1, ConcatAssociative, SMTT(20)

LEMMA TagsAppended ==
  ASSUME NEW s \in Content, NEW t \in Content, NEW type
  PROVE  TagsOf(s \o t, type) = TagsOf(s, type) \o TagsOf(t, type)
<1> DEFINE p == TagSeqs(s, type)
           q == TagSeqs(t, type)
           r == TagSeqs(s \o t, type)
<1>1. /\ s \o t \in Content /\ Len(s \o t) = Len(s) + Len(t)
      /\ Len(s) \in Nat /\ Len(t) \in Nat
      /\ DOMAIN s = 1..Len(s) /\ DOMAIN t = 1..Len(t) /\ DOMAIN (s \o t) = 1..(Len(s) + Len(t))
      /\ \A k \in 1..Len(s) : (s \o t)[k] = s[k]
      /\ \A k \in 1..Len(t) : (s \o t)[Len(s) + k] = t[k]
  BY ContentIs, JoinedAt, ElementsOf
<1>2. /\ p \in Seq(Seq(Nat)) /\ Len(p) = Len(s) /\ TagsOf(s, type) = Flat(p)
      /\ q \in Seq(Seq(Nat)) /\ Len(q) = Len(t) /\ TagsOf(t, type) = Flat(q)
      /\ r \in Seq(Seq(Nat)) /\ Len(r) = Len(s) + Len(t) /\ TagsOf(s \o t, type) = Flat(r)
  BY <1>1, TagSeqsTyped
<1>3. ASSUME NEW k \in 1..(Len(s) + Len(t))
      PROVE  r[k] = IF k <= Len(s) THEN p[k] ELSE q[k - Len(s)]
  <2>1. CASE k <= Len(s)
    <3>1. k \in 1..Len(s)
      BY <1>1, <2>1
    <3> QED
      BY <1>1, <2>1, <3>1 DEF TagSeqs
  <2>2. CASE ~ (k <= Len(s))
    <3>1. k - Len(s) \in 1..Len(t) /\ Len(s) + (k - Len(s)) = k
      BY <1>1, <2>2
    <3>2. (s \o t)[k] = t[k - Len(s)]
      BY <1>1, <3>1
    <3> QED
      BY <1>1, <2>2, <3>1, <3>2 DEF TagSeqs
  <2> QED
    BY <2>1, <2>2
<1> HIDE DEF p, q, r
<1> DEFINE E == Seq(Nat)
<1> HIDE DEF E
<1>4. p \in Seq(E) /\ q \in Seq(E) /\ r \in Seq(E)
  BY <1>2 DEF E
<1>5. /\ p \o q \in Seq(E) /\ Len(p \o q) = Len(s) + Len(t)
      /\ \A k \in 1..(Len(s) + Len(t)) :
           (p \o q)[k] = IF k <= Len(s) THEN p[k] ELSE q[k - Len(s)]
  <2>1. /\ p \o q \in Seq(E) /\ Len(p \o q) = Len(p) + Len(q)
        /\ \A k \in 1..(Len(p) + Len(q)) :
             (p \o q)[k] = IF k <= Len(p) THEN p[k] ELSE q[k - Len(p)]
    BY <1>4, ConcatProperties
  <2>2. Len(p) = Len(s) /\ Len(q) = Len(t)
    BY <1>2, Zenon
  <2> QED
    BY <2>1, <2>2
<1>6. r = p \o q
  BY <1>1, <1>2, <1>3, <1>4, <1>5, SeqEqual
<1>7. Flat(p \o q) = Flat(p) \o Flat(q)
  BY <1>2, FlatJoined
<1> QED
  BY <1>2, <1>6, <1>7

LEMMA TagsNone ==
  ASSUME NEW s \in Content, NEW types, NEW type, OnlyOf(types, s), type \notin types
  PROVE  TagsOf(s, type) = <<>>
<1>1. DOMAIN s = 1..Len(s) /\ Len(s) \in Nat
  BY ContentIs, ElementsOf
<1>2. \A k \in 1..Len(s) : TagSeqs(s, type)[k] = <<>>
  BY <1>1 DEF TagSeqs, OnlyOf
<1>3. Len(TagSeqs(s, type)) = Len(s) /\ TagsOf(s, type) = Flat(TagSeqs(s, type))
  BY TagSeqsTyped
<1> QED
  BY <1>1, <1>2, <1>3, FlatOfNone

\* A call, or an output, has one tag.
LEMMA TagsOfOne ==
  ASSUME NEW type \in BlockTypes, NEW tag \in Nat
  PROVE  TagsOf(Blocks(type, <<tag>>), type) = <<tag>>
<1> DEFINE q == TagSeqs(Blocks(type, <<tag>>), type)
<1>1. <<tag>> \in Seq(Nat)
  OBVIOUS
<1>2. Blocks(type, <<tag>>) \in Content
  BY <1>1, BlocksTyped
<1>3. q = <<<<tag>>>>
  BY DEF TagSeqs, Blocks, Block
<1>4. TagsOf(Blocks(type, <<tag>>), type) = Flat(q)
  BY <1>2, TagSeqsTyped
<1>5. Flat(<<<<tag>>>>) = <<tag>>
  BY <1>1, FlatOfOne
<1> QED
  BY <1>3, <1>4, <1>5


MessageTags(c, type) == Flat([m \in DOMAIN c.messages |-> TagsOf(c.messages[m].content, type)])

LEMMA TagsInIs == ASSUME NEW c, NEW type
                  PROVE  TagsIn(c, type) = MessageTags(c, type) \o TagsOf(c.calls, type)
  BY DEF TagsIn, MessageTags

LEMMA MessageTagsTyped ==
  ASSUME NEW c, c.messages \in Seq(AMessage), NEW type
  PROVE  /\ [m \in DOMAIN c.messages |-> TagsOf(c.messages[m].content, type)] \in Seq(Seq(Nat))
         /\ MessageTags(c, type) \in Seq(Nat)
<1> DEFINE q == [m \in DOMAIN c.messages |-> TagsOf(c.messages[m].content, type)]
<1>1. /\ DOMAIN c.messages = 1..Len(c.messages) /\ Len(c.messages) \in Nat
      /\ \A m \in 1..Len(c.messages) : c.messages[m] \in AMessage
  BY ElementsOf
<1>2. \A m \in 1..Len(c.messages) : TagsOf(c.messages[m].content, type) \in Seq(Nat)
  BY <1>1, TagSeqsTyped DEF AMessage, Roles
<1>3. q \in Seq(Seq(Nat))
  BY <1>1, <1>2
<1> HIDE DEF q
<1>4. Flat(q) \in Seq(Nat)
  BY <1>3, FlatInSeq
<1> QED
  BY <1>3, <1>4 DEF q, MessageTags

LEMMA MessageTagsSame ==
  ASSUME NEW c, NEW d, NEW type, DOMAIN d.messages = DOMAIN c.messages,
         \A m \in DOMAIN c.messages :
            TagsOf(d.messages[m].content, type) = TagsOf(c.messages[m].content, type)
  PROVE  MessageTags(d, type) = MessageTags(c, type)
<1>1. [m \in DOMAIN d.messages |-> TagsOf(d.messages[m].content, type)]
      = [m \in DOMAIN c.messages |-> TagsOf(c.messages[m].content, type)]
  OBVIOUS
<1> QED
  BY <1>1 DEF MessageTags

\* What a new message adds.
LEMMA MessageTagsLonger ==
  ASSUME NEW c, c.messages \in Seq(AMessage), NEW d, NEW x \in AMessage,
         d.messages = Append(c.messages, x), NEW type
  PROVE  MessageTags(d, type) = MessageTags(c, type) \o TagsOf(x.content, type)
<1> DEFINE q == [m \in DOMAIN c.messages |-> TagsOf(c.messages[m].content, type)]
           r == [m \in DOMAIN d.messages |-> TagsOf(d.messages[m].content, type)]
           n == Len(c.messages)
           y == TagsOf(x.content, type)
<1>1. /\ n \in Nat /\ DOMAIN c.messages = 1..n /\ d.messages \in Seq(AMessage)
      /\ DOMAIN d.messages = 1..(n + 1) /\ d.messages[n + 1] = x
      /\ \A m \in 1..n : d.messages[m] = c.messages[m]
  OBVIOUS
<1>2. q \in Seq(Seq(Nat)) /\ r \in Seq(Seq(Nat)) /\ y \in Seq(Nat)
  <2>1. q \in Seq(Seq(Nat))
    BY MessageTagsTyped
  <2>2. r \in Seq(Seq(Nat))
    BY <1>1, MessageTagsTyped
  <2>3. x.content \in Content
    BY DEF AMessage, Roles
  <2>4. y \in Seq(Nat)
    BY <2>3, TagSeqsTyped
  <2> QED
    BY <2>1, <2>2, <2>4
<1>3. DOMAIN q = 1..n /\ DOMAIN r = 1..(n + 1) /\ r[n + 1] = y /\ \A m \in 1..n : r[m] = q[m]
  BY <1>1
<1>4. MessageTags(c, type) = Flat(q) /\ MessageTags(d, type) = Flat(r)
  BY DEF MessageTags
<1> HIDE DEF q, r, y, n
<1> DEFINE E == Seq(Nat)
<1> HIDE DEF E
<1>5. q \in Seq(E) /\ r \in Seq(E) /\ y \in E
  BY <1>2 DEF E
<1>6. Len(q) = n /\ Len(r) = n + 1
  BY <1>1, <1>3, <1>5
<1>7. /\ Append(q, y) \in Seq(E) /\ Len(Append(q, y)) = n + 1 /\ Append(q, y)[n + 1] = y
      /\ \A m \in 1..n : Append(q, y)[m] = q[m]
  BY <1>1, <1>5, <1>6, AppendProperties
<1>8. \A m \in 1..(n + 1) : r[m] = Append(q, y)[m]
  <2>1. ASSUME NEW m \in 1..(n + 1) PROVE r[m] = Append(q, y)[m]
    <3>1. m = n + 1 \/ m \in 1..n
      BY <1>1
    <3> QED
      BY <1>3, <1>7, <3>1
  <2> QED
    BY <2>1
<1>9. r = Append(q, y)
  BY <1>5, <1>6, <1>7, <1>8, SeqEqual
<1>10. Flat(Append(q, y)) = Flat(q) \o y
  BY <1>2, FlatAppended
<1> QED
  BY <1>4, <1>9, <1>10 DEF y

LEMMA NoTags == TagsOf(<<>>, "tool_use") = <<>> /\ TagsOf(<<>>, "tool_result") = <<>>
<1>1. <<>> \in Content /\ OnlyOf({}, <<>>)
  BY DEF Content, OnlyOf
<1> QED
  BY <1>1, TagsNone

\* What is neither a call nor an output counts for nothing.
LEMMA PlainTags ==
  ASSUME NEW s \in Content, NEW type \in ToolTypes, Plain(s)
  PROVE  TagsOf(s, type) = <<>>
  BY TagsNone DEF Plain, ToolTypes

LEMMA MergedTags ==
  ASSUME NEW calls \in Content, NEW blocks \in Content, OnlyOf({"reasoning"}, blocks),
         NEW type \in ToolTypes
  PROVE  TagsOf(MergeReasoningBeforeToolUse(calls, blocks), type) = TagsOf(calls, type)
<1> DEFINE n == LeadingReasoning(calls)
           head == SubSeq(calls, 1, n)
           rest == SubSeq(calls, n + 1, Len(calls))
<1>1. n \in 0..Len(calls) /\ Len(calls) \in Nat
  BY LeadingReasoningEnds, ContentIs, ElementsOf
<1> HIDE DEF n
<1>2. /\ head \in Content /\ rest \in Content
      /\ Len(head) = n /\ Len(rest) = Len(calls) - n
      /\ \A k \in 1..n : head[k] = calls[k]
      /\ \A k \in 1..(Len(calls) - n) : rest[k] = calls[n + k]
  <2>1. calls \in Seq(ABlock)
    BY ContentIs
  <2>2. /\ head \in Seq(ABlock) /\ rest \in Seq(ABlock) /\ DOMAIN head = 1..n
        /\ DOMAIN rest = 1..(Len(calls) - n)
        /\ \A k \in 1..n : head[k] = calls[k]
        /\ \A k \in 1..(Len(calls) - n) : rest[k] = calls[n + k]
    BY <1>1, <2>1, Cut
  <2> HIDE DEF head, rest
  <2>3. Len(head) = n /\ Len(rest) = Len(calls) - n
    BY <1>1, <2>2
  <2> QED
    BY <2>2, <2>3, ContentIs
<1>3. MergeReasoningBeforeToolUse(calls, blocks) = (head \o blocks) \o rest
  BY DEF MergeReasoningBeforeToolUse, n
<1> HIDE DEF head, rest
<1>4. head \o rest = calls
  <2>1. head \in Seq(ABlock) /\ rest \in Seq(ABlock) /\ calls \in Seq(ABlock)
    BY <1>2, ContentIs
  <2>2. /\ head \o rest \in Seq(ABlock) /\ Len(head \o rest) = Len(calls)
        /\ \A k \in 1..n : (head \o rest)[k] = calls[k]
        /\ \A k \in 1..(Len(calls) - n) : (head \o rest)[n + k] = calls[n + k]
    BY <1>1, <1>2, <2>1, JoinedAt
  <2>3. ASSUME NEW k \in 1..Len(calls) PROVE (head \o rest)[k] = calls[k]
    <3>1. k \in 1..n \/ (k - n \in 1..(Len(calls) - n) /\ n + (k - n) = k)
      BY <1>1
    <3> QED
      BY <2>2, <3>1
  <2> QED
    BY <2>1, <2>2, <2>3, SeqEqual
<1>5. TagsOf(blocks, type) = <<>>
  BY TagsNone DEF ToolTypes
<1>6. TagsOf(calls, type) = TagsOf(head, type) \o TagsOf(rest, type)
  <2>1. head \in Content /\ rest \in Content
    BY <1>2
  <2>2. TagsOf(head \o rest, type) = TagsOf(head, type) \o TagsOf(rest, type)
    BY <2>1, TagsAppended
  <2> QED
    BY <1>4, <2>2
<1>7. TagsOf(head, type) \in Seq(Nat) /\ head \o blocks \in Content
  BY <1>2, TagSeqsTyped, ContentIs, JoinedAt
<1>8. TagsOf(head \o blocks, type) = TagsOf(head, type)
  <2>1. head \in Content
    BY <1>2
  <2>2. TagsOf(head \o blocks, type) = TagsOf(head, type) \o TagsOf(blocks, type)
    BY <2>1, TagsAppended
  <2> QED
    BY <1>5, <1>7, <2>2, ConcatEmptySeq
<1>9. TagsOf((head \o blocks) \o rest, type) = TagsOf(head \o blocks, type) \o TagsOf(rest, type)
  <2>1. rest \in Content
    BY <1>2
  <2> QED
    BY <1>7, <2>1, TagsAppended
<1> QED
  BY <1>3, <1>6, <1>8, <1>9

LEMMA TagsInTyped ==
  ASSUME NEW c \in Conv, NEW type
  PROVE  MessageTags(c, type) \in Seq(Nat) /\ TagsOf(c.calls, type) \in Seq(Nat)
  BY MessageTagsTyped, TagSeqsTyped DEF Conv

LEMMA AddMessageTags ==
  ASSUME NEW c \in Conv, NEW role \in {"user", "assistant", "tool"}, NEW content \in Content,
         NEW type
  PROVE  /\ MessageTags(AddMessage(c, role, content), type)
               = MessageTags(c, type) \o TagsOf(content, type)
         /\ AddMessage(c, role, content).calls = c.calls
<1> DEFINE x == Message(role, content)
           d == AddMessage(c, role, content)
<1>1. x \in AMessage /\ x.content = content
  BY DEF Message, AMessage, Roles
<1>2. d.messages = Append(c.messages, x) /\ d.calls = c.calls /\ c.messages \in Seq(AMessage)
  BY DEF AddMessage, Conv
<1> HIDE DEF x, d
<1>3. MessageTags(d, type) = MessageTags(c, type) \o TagsOf(x.content, type)
  BY <1>1, <1>2, MessageTagsLonger
<1> QED
  BY <1>1, <1>2, <1>3 DEF d

LEMMA FlushCallsTags ==
  ASSUME NEW c \in Conv, NEW type \in ToolTypes
  PROVE  TagsIn(FlushCalls(c), type) = TagsIn(c, type)
<1> DEFINE d == AddMessage(c, "assistant", c.calls)
           e == FlushCalls(c)
<1>1. CASE c.calls = <<>>
  BY <1>1 DEF FlushCalls
<1>2. CASE c.calls # <<>>
  <2>1. e.messages = d.messages /\ e.calls = <<>>
    BY <1>2 DEF FlushCalls, AddMessage, Conv
  <2>2. MessageTags(d, type) = MessageTags(c, type) \o TagsOf(c.calls, type)
    BY AddMessageTags DEF Conv
  <2> HIDE DEF d, e
  <2>3. MessageTags(e, type) = MessageTags(d, type)
    BY <2>1 DEF MessageTags
  <2>4. TagsIn(e, type) = MessageTags(e, type) \o <<>>
    BY <2>1, NoTags, TagsInIs DEF ToolTypes
  <2>5. TagsIn(c, type) = MessageTags(c, type) \o TagsOf(c.calls, type)
    BY TagsInIs
  <2>6. TagsIn(c, type) \in Seq(Nat)
    BY <2>5, TagsInTyped, ConcatProperties
  <2> QED
    BY <2>2, <2>3, <2>4, <2>5, <2>6, ConcatEmptySeq DEF e
<1> QED
  BY <1>1, <1>2

LEMMA SameTags ==
  ASSUME NEW c, NEW d, NEW type, MessageTags(d, type) = MessageTags(c, type), d.calls = c.calls
  PROVE  TagsIn(d, type) = TagsIn(c, type)
  BY TagsInIs

\* A message of reasoning and text alone adds nothing.
LEMMA PlainMessageTags ==
  ASSUME NEW c \in Conv, NEW role \in {"user", "assistant", "tool"}, NEW content \in Content,
         Plain(content), NEW type \in ToolTypes
  PROVE  MessageTags(AddMessage(c, role, content), type) = MessageTags(c, type)
<1>1. MessageTags(AddMessage(c, role, content), type) = MessageTags(c, type) \o <<>>
  <2>1. TagsOf(content, type) = <<>>
    BY PlainTags
  <2>2. MessageTags(AddMessage(c, role, content), type)
          = MessageTags(c, type) \o TagsOf(content, type)
    BY AddMessageTags
  <2> QED
    BY <2>1, <2>2
<1>2. MessageTags(c, type) \in Seq(Nat)
  BY TagsInTyped
<1> QED
  BY <1>1, <1>2, ConcatEmptySeq

LEMMA FlushReasoningTags ==
  ASSUME NEW c, Sound(c), NEW type \in ToolTypes
  PROVE  TagsIn(FlushReasoning(c), type) = TagsIn(c, type)
<1> DEFINE d == AddMessage(c, "assistant", c.reasoning)
           e == FlushReasoning(c)
<1>1. CASE c.reasoning = <<>>
  BY <1>1 DEF FlushReasoning
<1>2. CASE c.reasoning # <<>>
  <2>0. c \in Conv /\ c.reasoning \in Content /\ Plain(c.reasoning)
    BY DEF Sound, Conv, Plain, OnlyOf
  <2>1. e.messages = d.messages /\ e.calls = c.calls
    BY <1>2, <2>0 DEF FlushReasoning, AddMessage, Conv
  <2>2. MessageTags(d, type) = MessageTags(c, type)
    BY <2>0, PlainMessageTags
  <2>3. MessageTags(e, type) = MessageTags(d, type)
    BY <2>1 DEF MessageTags
  <2> QED
    BY <2>1, <2>2, <2>3, SameTags
<1> QED
  BY <1>1, <1>2

\* What is written over is text and reasoning, and what it is written over too.
LEMMA OverwrittenTags ==
  ASSUME NEW c, Sound(c), NEW n \in Nat, NEW blocks \in Content, Plain(blocks),
         NEW type \in ToolTypes, NEW d, d.messages = Overwritten(c, n, blocks)
  PROVE  MessageTags(d, type) = MessageTags(c, type)
<1> DEFINE over == Overwritten(c, n, blocks)
<1>1. /\ over \in Seq(AMessage) /\ DOMAIN over = DOMAIN c.messages
      /\ \A m \in c.sharers : Plain(over[m].content)
  BY OverwrittenGood
<1>2. \A m \in DOMAIN c.messages : m \notin c.sharers => over[m] = c.messages[m]
  BY DEF Overwritten
<1>3. /\ DOMAIN over = 1..Len(over) /\ \A m \in DOMAIN over : over[m] \in AMessage
      /\ \A m \in DOMAIN c.messages : c.messages[m] \in AMessage
  BY <1>1, ElementsOf DEF Sound, Conv
<1>4. \A m \in c.sharers : m \in DOMAIN c.messages /\ Plain(c.messages[m].content)
  BY DEF Sound
<1> HIDE DEF over
<1>5. ASSUME NEW m \in DOMAIN c.messages
      PROVE  TagsOf(over[m].content, type) = TagsOf(c.messages[m].content, type)
  <2>1. CASE m \in c.sharers
    <3>1. over[m].content \in Content /\ c.messages[m].content \in Content
      BY <1>1, <1>3 DEF AMessage, Roles
    <3> QED
      BY <1>1, <1>4, <2>1, <3>1, PlainTags
  <2>2. CASE m \notin c.sharers
    BY <1>2, <2>2
  <2> QED
    BY <2>1, <2>2
<1> QED
  BY <1>1, <1>5, MessageTagsSame DEF over

LEMMA AppendReasoningTags ==
  ASSUME NEW c, Sound(c), NEW blocks \in Content, OnlyOf({"reasoning"}, blocks),
         NEW type \in ToolTypes
  PROVE  /\ TagsIn(AppendReasoning(c, blocks), type) = TagsIn(c, type)
         /\ MessageTags(AppendReasoning(c, blocks), type) = MessageTags(c, type)
<1> DEFINE d == AppendReasoning(c, blocks)
<1>0. /\ c \in Conv /\ Len(c.reasoning) \in Nat /\ Plain(blocks) /\ d.calls = c.calls
  <2>1. d.calls = c.calls
    BY AppendReasoningGood
  <2>2. c \in Conv /\ Plain(blocks)
    BY DEF Sound, Plain, OnlyOf
  <2>3. Len(c.reasoning) \in Nat
    BY <2>2 DEF Conv, Content
  <2> QED
    BY <2>1, <2>2, <2>3
<1>1. CASE Fits(c, blocks)
  <2>1. d.messages = Overwritten(c, Len(c.reasoning), blocks)
    BY <1>0, <1>1 DEF AppendReasoning, Conv
  <2>2. MessageTags(d, type) = MessageTags(c, type)
    BY <1>0, <2>1, OverwrittenTags
  <2> QED
    BY <1>0, <2>2, SameTags
<1>2. CASE ~ Fits(c, blocks)
  <2>1. d.messages = c.messages
    BY <1>0, <1>2 DEF AppendReasoning, Conv
  <2>2. MessageTags(d, type) = MessageTags(c, type)
    BY <2>1 DEF MessageTags
  <2> QED
    BY <1>0, <2>2, SameTags
<1> QED
  BY <1>1, <1>2

LEMMA TakeReasoningTags ==
  ASSUME NEW c, Good(c), NEW item \in AnyItem, NEW type \in ToolTypes
  PROVE  TagsIn(TakeReasoning(c, item), type) = TagsIn(c, type)
<1> DEFINE blocks == Blocks("reasoning", item.tags)
           d == TakeReasoning(c, item)
<1>1. blocks \in Content /\ OnlyOf({"reasoning"}, blocks)
  BY BlocksTyped DEF AnyItem, BlockTypes
<1>2. CASE c.calls = <<>>
  <2>1. d = AppendReasoning(c, blocks) /\ Sound(c)
    BY <1>2 DEF TakeReasoning, Good
  <2> HIDE DEF blocks
  <2>2. TagsIn(AppendReasoning(c, blocks), type) = TagsIn(c, type)
    BY <1>1, <2>1, AppendReasoningTags
  <2> QED
    BY <2>1, <2>2
<1>3. CASE c.calls # <<>>
  <2>1. c \in Conv /\ c.calls \in Content
    BY DEF Good, Sound, Conv
  <2>2. d.messages = c.messages /\ d.calls = MergeReasoningBeforeToolUse(c.calls, blocks)
    BY <1>3, <2>1 DEF TakeReasoning, Conv
  <2> HIDE DEF blocks, d
  <2>3. TagsOf(d.calls, type) = TagsOf(c.calls, type)
    BY <1>1, <2>1, <2>2, MergedTags
  <2>4. MessageTags(d, type) = MessageTags(c, type)
    BY <2>2 DEF MessageTags
  <2> QED
    BY <2>3, <2>4, TagsInIs DEF d
<1> QED
  BY <1>2, <1>3

\* A call brings its own tags, behind all there are.
LEMMA TakeCallTags ==
  ASSUME NEW c, Good(c), NEW item \in AnyItem, NEW reasoningModel, NEW type \in ToolTypes
  PROVE  TagsIn(TakeCall(c, item, reasoningModel), type)
           = TagsIn(c, type) \o TagsOf(Blocks("tool_use", item.tags), type)
<1> DEFINE r == WithReasoning(c, item, reasoningModel)
           uses == Blocks("tool_use", item.tags)
           empty == <<Block("reasoning", NoReasoning)>>
           d == TakeCall(c, item, reasoningModel)
<1>0. c \in Conv /\ Sound(c) /\ c.calls \in Content
  BY DEF Good, Sound, Conv
<1>1. uses \in Content
  BY BlocksTyped DEF AnyItem, BlockTypes
<1>2. empty \in Content /\ OnlyOf({"reasoning"}, empty)
  <2>1. Block("reasoning", NoReasoning) \in ABlock
    BY DEF Block, ABlock, BlockTypes, NoReasoning
  <2>2. empty \in Seq(ABlock)
    BY <2>1
  <2> QED
    BY <2>2, ContentIs DEF OnlyOf, Block
<1>3. Sound(r) /\ r.calls = c.calls /\ MessageTags(r, type) = MessageTags(c, type)
  <2>1. CASE r = c
    BY <1>0, <2>1
  <2>2. CASE r # c
    <3>1. r = AppendReasoning(c, empty)
      BY <2>2 DEF WithReasoning
    <3> HIDE DEF r, empty
    <3>2. Sound(r) /\ r.calls = c.calls
      BY <1>0, <1>2, <3>1, AppendReasoningGood
    <3>3. MessageTags(r, type) = MessageTags(c, type)
      BY <1>0, <1>2, <3>1, AppendReasoningTags
    <3> QED
      BY <3>2, <3>3
  <2> QED
    BY <2>1, <2>2
<1>4. d.messages = r.messages /\ d.calls = (c.calls \o r.reasoning) \o uses
  <2>1. d = [r EXCEPT !.calls = c.calls \o r.reasoning \o uses, !.reasoning = <<>>] /\ r \in Conv
    BY <1>3 DEF TakeCall, Sound
  <2> HIDE DEF d, r, uses
  <2> QED
    BY <2>1 DEF Conv
<1> HIDE DEF r, uses, empty, d
<1>5. r.reasoning \in Content /\ OnlyOf({"reasoning"}, r.reasoning)
  BY <1>3 DEF Sound, Conv
<1>6. TagsOf(r.reasoning, type) = <<>>
  BY <1>5, TagsNone DEF ToolTypes
<1>7. c.calls \o r.reasoning \in Content
  BY <1>0, <1>5, ContentIs, JoinedAt
<1>8. TagsOf(c.calls \o r.reasoning, type) = TagsOf(c.calls, type) \o TagsOf(r.reasoning, type)
  BY <1>0, <1>5, TagsAppended
<1>9. TagsOf(c.calls, type) \in Seq(Nat) /\ TagsOf(uses, type) \in Seq(Nat)
  BY <1>0, <1>1, TagSeqsTyped
<1>10. TagsOf(c.calls \o r.reasoning, type) = TagsOf(c.calls, type)
  BY <1>6, <1>8, <1>9, ConcatEmptySeq
<1>11. TagsOf(d.calls, type) = TagsOf(c.calls \o r.reasoning, type) \o TagsOf(uses, type)
  BY <1>1, <1>4, <1>7, TagsAppended
<1>12. MessageTags(d, type) = MessageTags(c, type)
  BY <1>3, <1>4 DEF MessageTags
<1>13. TagsIn(d, type) = MessageTags(c, type) \o (TagsOf(c.calls, type) \o TagsOf(uses, type))
  BY <1>10, <1>11, <1>12, TagsInIs
<1>14. MessageTags(c, type) \in Seq(Nat)
  BY <1>0, TagsInTyped
<1>15. TagsIn(c, type) = MessageTags(c, type) \o TagsOf(c.calls, type)
  BY TagsInIs
<1>16. (MessageTags(c, type) \o TagsOf(c.calls, type)) \o TagsOf(uses, type)
         = MessageTags(c, type) \o (TagsOf(c.calls, type) \o TagsOf(uses, type))
  <2> DEFINE x == MessageTags(c, type)
             y == TagsOf(c.calls, type)
             z == TagsOf(uses, type)
  <2>1. x \in Seq(Nat) /\ y \in Seq(Nat) /\ z \in Seq(Nat)
    BY <1>9, <1>14, Zenon
  <2> HIDE DEF x, y, z
  <2>2. (x \o y) \o z = x \o (y \o z)
    BY <2>1, TagsAssociate, Zenon
  <2> QED
    BY <2>2, Zenon DEF x, y, z
<1>17. TagsIn(d, type) = TagsIn(c, type) \o TagsOf(uses, type)
  BY <1>13, <1>15, <1>16, Zenon
<1> QED
  BY <1>17 DEF d, uses

\* An output brings its own: what waits becomes messages before it.
LEMMA TakeOutputTags ==
  ASSUME NEW c, Good(c), NEW item \in AnyItem, NEW type \in ToolTypes
  PROVE  TagsIn(TakeOutput(c, item), type)
           = TagsIn(c, type) \o TagsOf(Blocks("tool_result", item.tags), type)
<1> DEFINE results == Blocks("tool_result", item.tags)
           e == FlushCalls(c)
           f == FlushReasoning(e)
           d == AddMessage(f, "tool", results)
<1>1. results \in Content
  BY BlocksTyped DEF AnyItem, BlockTypes
<1>2. TakeOutput(c, item) = d
  BY DEF TakeOutput, Good
<1> HIDE DEF results, d
<1>3. Good(e) /\ e.calls = <<>> /\ c \in Conv
  BY FlushCallsGood DEF Good, Sound
<1>4. TagsIn(e, type) = TagsIn(c, type)
  BY <1>3, FlushCallsTags
<1> HIDE DEF e
<1>5. Good(f) /\ f.calls = <<>> /\ f \in Conv
  BY <1>3, FlushReasoningGood DEF Good, Sound
<1>6. TagsIn(f, type) = TagsIn(c, type)
  BY <1>3, <1>4, FlushReasoningTags DEF Good
<1> HIDE DEF f
<1>7. MessageTags(f, type) \in Seq(Nat) /\ TagsOf(results, type) \in Seq(Nat)
  BY <1>1, <1>5, TagsInTyped, TagSeqsTyped
<1>8. TagsIn(f, type) = MessageTags(f, type)
  <2>1. TagsIn(f, type) = MessageTags(f, type) \o <<>>
    BY <1>5, NoTags, TagsInIs DEF ToolTypes
  <2> QED
    BY <1>7, <2>1, ConcatEmptySeq
<1>9. MessageTags(d, type) = MessageTags(f, type) \o TagsOf(results, type) /\ d.calls = <<>>
  BY <1>1, <1>5, AddMessageTags DEF d
<1>10. TagsIn(d, type) = MessageTags(d, type)
  <2>1. TagsIn(d, type) = MessageTags(d, type) \o <<>>
    BY <1>9, NoTags, TagsInIs DEF ToolTypes
  <2>2. MessageTags(d, type) \in Seq(Nat)
    BY <1>7, <1>9, ConcatProperties
  <2> QED
    BY <2>1, <2>2, ConcatEmptySeq
<1> QED
  BY <1>2, <1>6, <1>8, <1>9, <1>10 DEF results

LEMMA TakeSystemTags ==
  ASSUME NEW c, Good(c), NEW item, NEW type
  PROVE  TagsIn(TakeSystem(c, item), type) = TagsIn(c, type)
<1>1. /\ TakeSystem(c, item).messages = c.messages
      /\ TakeSystem(c, item).calls = c.calls
  BY DEF TakeSystem, Good, Sound, Conv
<1> QED
  BY <1>1 DEF TagsIn

LEMMA TakeUserTags ==
  ASSUME NEW c, Good(c), NEW item \in AnyItem, NEW type \in ToolTypes
  PROVE  TagsIn(TakeUser(c, item), type) = TagsIn(c, type)
<1> DEFINE texts == Blocks("text", item.tags)
           d == AddMessage(c, "user", texts)
<1>1. CASE item.tags = <<>>
  BY <1>1 DEF TakeUser
<1>2. CASE item.tags # <<>>
  <2>1. texts \in Content /\ Plain(texts) /\ c \in Conv
    <3>1. texts \in Content /\ OnlyOf({"text"}, texts)
      BY BlocksTyped DEF AnyItem, BlockTypes
    <3> QED
      BY <3>1 DEF Plain, OnlyOf, Good, Sound
  <2>2. TakeUser(c, item) = d
    BY <1>2 DEF TakeUser
  <2> HIDE DEF texts
  <2>3. MessageTags(d, type) = MessageTags(c, type)
    BY <2>1, PlainMessageTags
  <2>4. d.calls = c.calls
    BY <2>1, AddMessageTags
  <2> QED
    BY <2>2, <2>3, <2>4, SameTags
<1> QED
  BY <1>1, <1>2

\* An answer is text behind reasoning, wherever in the array it comes to lie.
LEMMA TakeAnswerTags ==
  ASSUME NEW c, Good(c), NEW item \in AnyItem, NEW type \in ToolTypes
  PROVE  TagsIn(TakeAnswer(c, item), type) = TagsIn(c, type)
<1> DEFINE texts == Blocks("text", item.tags)
           content == c.reasoning \o texts
           inPlace == c.reasoning # <<>> /\ Fits(c, texts)
           over == Overwritten(c, Len(c.reasoning), texts)
           before == IF inPlace THEN [c EXCEPT !.messages = over] ELSE c
           x == Message("assistant", content)
           e == TakeAnswer(c, item)
<1>0. c \in Conv /\ Sound(c) /\ c.reasoning \in Content /\ Len(c.reasoning) \in Nat
  BY DEF Good, Sound, Conv, Content
<1>1. texts \in Content /\ Plain(texts)
  <2>1. texts \in Content /\ OnlyOf({"text"}, texts)
    BY BlocksTyped DEF AnyItem, BlockTypes
  <2> QED
    BY <2>1 DEF Plain, OnlyOf
<1> HIDE DEF texts
<1>2. content \in Content /\ Plain(content)
  <2>1. Plain(c.reasoning)
    BY DEF Good, Sound, Plain, OnlyOf
  <2> QED
    BY <1>0, <1>1, <2>1, OnlyOfAppended DEF Plain
<1>3. CASE content = <<>>
  BY <1>3 DEF TakeAnswer, texts
<1>4. CASE content # <<>>
  <2>1. e.messages = Append(before.messages, x) /\ e.calls = c.calls /\ x.content = content
    BY <1>0, <1>4 DEF TakeAnswer, AddMessage, Conv, texts, Message
  <2>2. x \in AMessage
    BY <1>2 DEF Message, AMessage, Roles
  <2>3. /\ MessageTags(before, type) = MessageTags(c, type)
        /\ before.messages \in Seq(AMessage)
    <3>1. CASE ~ inPlace
      BY <1>0, <3>1 DEF Conv
    <3>2. CASE inPlace
      <4>1. before.messages = over
        BY <1>0, <3>2 DEF Conv
      <4>2. over \in Seq(AMessage)
        BY <1>0, <1>1, OverwrittenGood
      <4> HIDE DEF before
      <4>3. MessageTags(before, type) = MessageTags(c, type)
        BY <1>0, <1>1, <4>1, OverwrittenTags
      <4> QED
        BY <4>1, <4>2, <4>3
    <3> QED
      BY <3>1, <3>2
  <2> HIDE DEF content, before, e, x
  <2>4. MessageTags(e, type) = MessageTags(before, type) \o TagsOf(x.content, type)
    <3>1. e.messages = Append(before.messages, x) /\ before.messages \in Seq(AMessage)
      BY <2>1, <2>3
    <3> QED
      BY <2>2, <3>1, MessageTagsLonger
  <2>5. TagsOf(x.content, type) = <<>>
    BY <1>2, <2>1, PlainTags
  <2>6. MessageTags(c, type) \in Seq(Nat)
    BY <1>0, TagsInTyped
  <2>7. MessageTags(e, type) = MessageTags(c, type)
    BY <2>3, <2>4, <2>5, <2>6, ConcatEmptySeq
  <2> QED
    BY <2>1, <2>7, SameTags DEF e
<1> QED
  BY <1>3, <1>4

\* What an item brings: a call or an output its own tags, all others nothing.
Added(item, type) ==
    IF item.kind \in CallKinds THEN TagsOf(Blocks("tool_use", item.tags), type)
    ELSE IF item.kind = "output" THEN TagsOf(Blocks("tool_result", item.tags), type)
    ELSE <<>>

LEMMA TakeTags ==
  ASSUME NEW c, Good(c), NEW item \in AnyItem, NEW reasoningModel, NEW type \in ToolTypes
  PROVE  TagsIn(Take(c, item, reasoningModel), type) = TagsIn(c, type) \o Added(item, type)
<1>0. TagsIn(c, type) \in Seq(Nat) /\ c \in Conv
  <2>1. c \in Conv
    BY DEF Good, Sound
  <2>2. MessageTags(c, type) \in Seq(Nat) /\ TagsOf(c.calls, type) \in Seq(Nat)
    BY <2>1, TagsInTyped
  <2>3. MessageTags(c, type) \o TagsOf(c.calls, type) \in Seq(Nat)
    BY <2>2, ConcatProperties
  <2> QED
    BY <2>1, <2>3, TagsInIs
<1>1. TagsIn(c, type) \o <<>> = TagsIn(c, type)
  BY <1>0, ConcatEmptySeq
<1>2. CASE item.kind \in CallKinds
  <2>1. Take(c, item, reasoningModel) = TakeCall(c, item, reasoningModel)
    BY <1>2 DEF Take, CallKinds
  <2> QED
    BY <1>2, <2>1, TakeCallTags DEF Added
<1>3. CASE item.kind = "output"
  <2>1. Take(c, item, reasoningModel) = TakeOutput(c, item)
    BY <1>3 DEF Take, CallKinds
  <2>2. Added(item, type) = TagsOf(Blocks("tool_result", item.tags), type)
    BY <1>3 DEF Added, CallKinds
  <2> QED
    BY <2>1, <2>2, TakeOutputTags
<1>4. CASE item.kind = "reasoning"
  <2>1. Take(c, item, reasoningModel) = TakeReasoning(c, item) /\ Added(item, type) = <<>>
    BY <1>4 DEF Take, Added, CallKinds
  <2> QED
    BY <1>1, <2>1, TakeReasoningTags
<1>5. CASE item.kind = "message"
  <2> DEFINE e == FlushCalls(c)
  <2>1. Take(c, item, reasoningModel) = TakeMessage(e, item) /\ Added(item, type) = <<>>
    BY <1>5 DEF Take, Added, CallKinds
  <2>2. Good(e)
    BY FlushCallsGood
  <2>3. TagsIn(e, type) = TagsIn(c, type)
    BY <1>0, FlushCallsTags
  <2> HIDE DEF e
  <2>4. TagsIn(TakeMessage(e, item), type) = TagsIn(e, type)
    BY <2>2, TakeSystemTags, TakeAnswerTags, TakeUserTags DEF TakeMessage
  <2> QED
    BY <1>1, <2>1, <2>3, <2>4
<1> QED
  BY <1>2, <1>3, <1>4, <1>5 DEF AnyItem

LEMMA MapIsSeq ==
  ASSUME NEW E, NEW n \in Nat, NEW q, q = [m \in 1..n |-> q[m]], \A m \in 1..n : q[m] \in E
  PROVE  q \in Seq(E) /\ Len(q) = n
  OBVIOUS

\* ItemTags, of any sequence of items.
TagsOfItems(s, kinds) ==
    Flat([n \in DOMAIN s |-> IF s[n].kind \in kinds THEN s[n].tags ELSE <<>>])

LEMMA ItemTagsLonger ==
  ASSUME NEW s \in Seq(AnyItem), NEW item \in AnyItem, NEW kinds
  PROVE  TagsOfItems(Append(s, item), kinds)
           = TagsOfItems(s, kinds) \o (IF item.kind \in kinds THEN item.tags ELSE <<>>)
<1> DEFINE z == Append(s, item)
           q == [m \in DOMAIN s |-> IF s[m].kind \in kinds THEN s[m].tags ELSE <<>>]
           r == [m \in DOMAIN z |-> IF z[m].kind \in kinds THEN z[m].tags ELSE <<>>]
           n == Len(s)
           y == IF item.kind \in kinds THEN item.tags ELSE <<>>
           E == Seq(Nat)
<1>1. /\ n \in Nat /\ DOMAIN s = 1..n /\ z \in Seq(AnyItem)
      /\ DOMAIN z = 1..(n + 1) /\ z[n + 1] = item
      /\ \A m \in 1..n : z[m] = s[m]
  OBVIOUS
<1>2. /\ \A m \in 1..n : s[m] \in AnyItem
      /\ \A m \in 1..(n + 1) : z[m] \in AnyItem
  BY <1>1, ElementsOf
<1>3. <<>> \in E /\ \A i \in AnyItem : i.tags \in E
  BY DEF AnyItem
<1>4. TagsOfItems(s, kinds) = Flat(q) /\ TagsOfItems(z, kinds) = Flat(r)
  BY DEF TagsOfItems
<1> HIDE DEF E, z
<1>5. y \in E /\ (\A m \in 1..n : q[m] \in E) /\ (\A m \in 1..(n + 1) : r[m] \in E)
  BY <1>1, <1>2, <1>3
<1>6. q = [m \in 1..n |-> q[m]] /\ r = [m \in 1..(n + 1) |-> r[m]]
  BY <1>1
<1>7. r[n + 1] = y /\ \A m \in 1..n : r[m] = q[m]
  BY <1>1
<1> HIDE DEF q, r, y, n
<1>8. q \in Seq(E) /\ Len(q) = n
  <2>1. n \in Nat /\ \A m \in 1..n : q[m] \in E
    BY <1>1, <1>5
  <2> QED
    BY <1>6, <2>1, MapIsSeq
<1>9. r \in Seq(E) /\ Len(r) = n + 1
  <2> DEFINE l == n + 1
  <2>1. l \in Nat /\ (\A m \in 1..l : r[m] \in E) /\ r = [m \in 1..l |-> r[m]]
    BY <1>1, <1>5, <1>6
  <2> HIDE DEF l
  <2>2. r \in Seq(E) /\ Len(r) = l
    BY <2>1, MapIsSeq
  <2> QED
    BY <2>2 DEF l
<1>10. /\ Append(q, y) \in Seq(E) /\ Len(Append(q, y)) = n + 1 /\ Append(q, y)[n + 1] = y
       /\ \A m \in 1..n : Append(q, y)[m] = q[m]
  BY <1>1, <1>5, <1>8, AppendProperties
<1>11. \A m \in 1..(n + 1) : r[m] = Append(q, y)[m]
  <2>1. ASSUME NEW m \in 1..(n + 1) PROVE r[m] = Append(q, y)[m]
    <3>1. m = n + 1 \/ m \in 1..n
      BY <1>1
    <3> QED
      BY <1>7, <1>10, <3>1
  <2> QED
    BY <2>1
<1>12. r = Append(q, y)
  BY <1>8, <1>9, <1>10, <1>11, SeqEqual
<1>13. q \in Seq(Seq(Nat)) /\ y \in Seq(Nat)
  BY <1>5, <1>8 DEF E
<1>14. Flat(Append(q, y)) = Flat(q) \o y
  BY <1>13, FlatAppended
<1> QED
  BY <1>4, <1>12, <1>14 DEF z, y

\* What a call and an output are given by the client: one tag.
OneTagOf(item) ==
    item.kind \in CallKinds \cup {"output"} => \E tag \in Nat : item.tags = <<tag>>

LEMMA AddedIs ==
  ASSUME NEW item \in AnyItem, OneTagOf(item)
  PROVE  /\ Added(item, "tool_use") = IF item.kind \in CallKinds THEN item.tags ELSE <<>>
         /\ Added(item, "tool_result") = IF item.kind \in {"output"} THEN item.tags ELSE <<>>
<1>1. /\ Blocks("tool_use", item.tags) \in Content
      /\ OnlyOf({"tool_use"}, Blocks("tool_use", item.tags))
      /\ Blocks("tool_result", item.tags) \in Content
      /\ OnlyOf({"tool_result"}, Blocks("tool_result", item.tags))
  BY BlocksTyped DEF AnyItem, BlockTypes
<1>2. /\ TagsOf(Blocks("tool_use", item.tags), "tool_result") = <<>>
      /\ TagsOf(Blocks("tool_result", item.tags), "tool_use") = <<>>
  BY <1>1, TagsNone
<1>3. CASE item.kind \in CallKinds \cup {"output"}
  <2>1. PICK tag \in Nat : item.tags = <<tag>>
    BY <1>3 DEF OneTagOf
  <2>2. /\ TagsOf(Blocks("tool_use", item.tags), "tool_use") = item.tags
        /\ TagsOf(Blocks("tool_result", item.tags), "tool_result") = item.tags
    BY <2>1, TagsOfOne DEF BlockTypes
  <2> QED
    BY <1>2, <1>3, <2>2 DEF Added, CallKinds
<1>4. CASE item.kind \notin CallKinds \cup {"output"}
  BY <1>4 DEF Added
<1> QED
  BY <1>3, <1>4

-----------------------------------------------------------------------------
(***************************************************************************)
(* The theorems.                                                           *)
(***************************************************************************)

InputInv == Good(conv) /\ input \in Seq(AnyItem)

LEMMA GoodInit == InputInit => InputInv
<1>1. <<>> \in Content /\ <<>> \in Seq(AMessage) /\ <<>> \in Seq(AnyItem)
  BY DEF Content
<1> QED
  BY <1>1 DEF InputInv, InputInit, NoItems, Good, Sound, Conv, OnlyOf, Leads

LEMMA ReadGood ==
  ASSUME InputInv, NEW item \in AnyItem, Read(item)
  PROVE  InputInv'
  BY TakeGood DEF InputInv, Read

LEMMA GoodNext == InputInv /\ [InputNext]_inputVars => InputInv'
<1> SUFFICES ASSUME InputInv, [InputNext]_inputVars PROVE InputInv'
  OBVIOUS
<1>1. /\ Tag \in Nat
      /\ <<>> \in Seq(Nat) /\ <<Tag>> \in Seq(Nat) /\ <<Tag, Tag + 1>> \in Seq(Nat)
  BY DEF Tag
<1> HIDE DEF Tag
<1>2. CASE ReadMessage
  BY <1>1, <1>2, ReadGood DEF ReadMessage, Item, AnyItem
<1>3. CASE ReadReasoning
  BY <1>1, <1>3, ReadGood DEF ReadReasoning, Item, AnyItem
<1>4. CASE ReadCall
  BY <1>1, <1>4, ReadGood DEF ReadCall, Item, AnyItem
<1>5. CASE ReadOutput
  BY <1>1, <1>5, ReadGood DEF ReadOutput, Item, AnyItem
<1>6. CASE UNCHANGED inputVars
  BY <1>6 DEF inputVars, InputInv
<1> QED
  BY <1>2, <1>3, <1>4, <1>5, <1>6 DEF InputNext

\* For inputs of any length: reasoning and calls never wait side by side.
THEOREM OneOfThemWaits == InputSpec => []OneWaits
<1>1. InputInv => OneWaits
  BY DEF InputInv, Good, OneWaits
<1> QED
  BY GoodInit, GoodNext, <1>1, PTL DEF InputSpec

\* For inputs of any length: no reasoning of the input is behind a call.
THEOREM ReasoningIsFirst == InputSpec => []ReasoningLeads
<1>1. InputInv => ReasoningLeads
  <2> SUFFICES ASSUME InputInv, NEW content \in Contents PROVE Leads(content)
    BY DEF ReasoningLeads, Leads, IsReasoning
  <2> QED
    BY DEF InputInv, Contents, Good, Sound
<1> QED
  BY GoodInit, GoodNext, <1>1, PTL DEF InputSpec
LEMMA ReadKept ==
  ASSUME InputInv, CallsAndOutputsKept, NEW item \in AnyItem, OneTagOf(item), Read(item)
  PROVE  CallsAndOutputsKept'
<1>1. /\ conv' = Take(conv, item, ReasoningModel) /\ input' = Append(input, item)
      /\ Good(conv) /\ input \in Seq(AnyItem)
  BY DEF Read, InputInv
<1>2. /\ TagsIn(conv', "tool_use") = TagsIn(conv, "tool_use") \o Added(item, "tool_use")
      /\ TagsIn(conv', "tool_result") = TagsIn(conv, "tool_result") \o Added(item, "tool_result")
  <2>1. "tool_use" \in ToolTypes /\ "tool_result" \in ToolTypes
    BY DEF ToolTypes
  <2> QED
    BY <1>1, <2>1, TakeTags
<1>3. ASSUME NEW kinds
      PROVE  ItemTags(kinds)' = ItemTags(kinds) \o (IF item.kind \in kinds THEN item.tags ELSE <<>>)
  <2>1. ItemTags(kinds)' = TagsOfItems(input', kinds) /\ ItemTags(kinds) = TagsOfItems(input, kinds)
    BY DEF ItemTags, TagsOfItems
  <2>2. TagsOfItems(Append(input, item), kinds)
          = TagsOfItems(input, kinds) \o (IF item.kind \in kinds THEN item.tags ELSE <<>>)
    BY <1>1, ItemTagsLonger
  <2> QED
    BY <1>1, <2>1, <2>2
<1>4. /\ Added(item, "tool_use") = IF item.kind \in CallKinds THEN item.tags ELSE <<>>
      /\ Added(item, "tool_result") = IF item.kind \in {"output"} THEN item.tags ELSE <<>>
  BY AddedIs
<1>5. TagsIn(conv, "tool_use")' = ItemTags(CallKinds)'
  BY <1>2, <1>3, <1>4 DEF CallsAndOutputsKept
<1>6. TagsIn(conv, "tool_result")' = ItemTags({"output"})'
  BY <1>2, <1>3, <1>4 DEF CallsAndOutputsKept
<1> QED
  BY <1>5, <1>6 DEF CallsAndOutputsKept

\* For inputs of any length: every call and every output is in the messages, or
\* waits, exactly once and in the client's order.
THEOREM CallsAndOutputsAreKept == InputSpec => []CallsAndOutputsKept
<1>1. InputInit => CallsAndOutputsKept
  <2> SUFFICES ASSUME InputInit PROVE CallsAndOutputsKept
    OBVIOUS
  <2>1. Flat(<<>>) = <<>>
    <3>1. Len(<<>>) = 0 /\ \A k \in 1..Len(<<>>) : <<>>[k] = <<>>
      OBVIOUS
    <3> QED
      BY <3>1, FlatOfNone
  <2>2. conv.messages = <<>> /\ conv.calls = <<>> /\ input = <<>>
    BY DEF InputInit, NoItems
  <2>3. ASSUME NEW type \in ToolTypes PROVE TagsIn(conv, type) = <<>>
    <3>1. [m \in DOMAIN conv.messages |-> TagsOf(conv.messages[m].content, type)] = <<>>
      BY <2>2
    <3>2. TagsOf(conv.calls, type) = <<>>
      BY <2>2, NoTags DEF ToolTypes
    <3>3. TagsIn(conv, type) = <<>> \o <<>>
      BY <2>1, <3>1, <3>2 DEF TagsIn
    <3> QED
      BY <3>3
  <2>4. ASSUME NEW kinds PROVE ItemTags(kinds) = <<>>
    <3>1. [n \in DOMAIN input |-> IF input[n].kind \in kinds THEN input[n].tags ELSE <<>>] = <<>>
      BY <2>2
    <3> QED
      BY <2>1, <3>1 DEF ItemTags
  <2> QED
    BY <2>3, <2>4 DEF CallsAndOutputsKept, ToolTypes
<1>2. InputInv /\ CallsAndOutputsKept /\ [InputNext]_inputVars => CallsAndOutputsKept'
  <2> SUFFICES ASSUME InputInv, CallsAndOutputsKept, [InputNext]_inputVars PROVE CallsAndOutputsKept'
    OBVIOUS
  <2>1. /\ Tag \in Nat
        /\ <<>> \in Seq(Nat) /\ <<Tag>> \in Seq(Nat) /\ <<Tag, Tag + 1>> \in Seq(Nat)
    BY DEF Tag, InputInv
  <2> HIDE DEF Tag
  <2>2. CASE ReadMessage
    <3>1. PICK role \in {"user", "assistant", "system"}, tags \in {<<>>, <<Tag>>} :
            Read(Item("message", role, tags))
      BY <2>2 DEF ReadMessage
    <3> DEFINE item == Item("message", role, tags)
    <3>2. item \in AnyItem /\ OneTagOf(item)
      BY <2>1 DEF Item, AnyItem, OneTagOf, CallKinds
    <3> HIDE DEF item
    <3> QED
      BY <3>1, <3>2, ReadKept DEF item
  <2>3. CASE ReadReasoning
    <3>1. PICK tags \in {<<>>, <<Tag>>, <<Tag, Tag + 1>>} :
            Read(Item("reasoning", "none", tags))
      BY <2>3 DEF ReadReasoning
    <3>2. Item("reasoning", "none", tags) \in AnyItem /\ OneTagOf(Item("reasoning", "none", tags))
      BY <2>1 DEF Item, AnyItem, OneTagOf, CallKinds
    <3> QED
      BY <3>1, <3>2, ReadKept
  <2>4. CASE ReadCall
    <3>1. PICK kind \in CallKinds : Read(Item(kind, "none", <<Tag>>))
      BY <2>4 DEF ReadCall
    <3>2. Item(kind, "none", <<Tag>>) \in AnyItem /\ OneTagOf(Item(kind, "none", <<Tag>>))
      BY <2>1 DEF Item, AnyItem, OneTagOf
    <3> QED
      BY <3>1, <3>2, ReadKept
  <2>5. CASE ReadOutput
    <3>1. Item("output", "none", <<Tag>>) \in AnyItem /\ OneTagOf(Item("output", "none", <<Tag>>))
      BY <2>1 DEF Item, AnyItem, OneTagOf
    <3> QED
      BY <2>5, <3>1, ReadKept DEF ReadOutput
  <2>6. CASE UNCHANGED inputVars
    BY <2>6 DEF inputVars, CallsAndOutputsKept, ItemTags
  <2> QED
    BY <2>2, <2>3, <2>4, <2>5, <2>6 DEF InputNext
<1> QED
  BY <1>1, <1>2, GoodInit, GoodNext, PTL DEF InputSpec
=============================================================================
